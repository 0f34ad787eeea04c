--------------------------- MODULE PeerLinkProofs ---------------------------
(***************************************************************************)
(* The link to a peer for every configuration of its two ends, number of   *)
(* requests and of stops: nothing is carried out for a client without the  *)
(* key, both ends agree, ends that fit never fail by themselves, and each  *)
(* request is carried out at most once and before it is answered.          *)
(***************************************************************************)
EXTENDS PeerLink, TLAPS

----------------------------------------------------------------------------
(* The inductive invariant.                                                *)

Client == [caps : SUBSET Cap, dict : Dict, seq : 0 .. 3, op : Work, degraded : BOOLEAN]

Types ==
    /\ config \in Configs /\ link \in Link /\ abandoned \subseteq Link
    /\ phase \in Phase /\ outcome \in [Call -> Outcome] /\ executed \in Seq(Call)
    /\ client \in Client
    /\ asked \in 0 .. Calls /\ stops \in 0 .. Stops /\ disturbed \in BOOLEAN

(***************************************************************************)
(* Where a connection is between its two ends.  One frame is on its way,   *)
(* to the peer or back, or the thread of the peer is gone.                 *)
(***************************************************************************)
Quiet == link.toServer = <<>> /\ link.toClient = <<>>
Sending(frame) == link.toServer = <<frame>> /\ link.toClient = <<>>
Arriving(frame) == link.toServer = <<>> /\ link.toClient = <<frame>>
Gone == ~link.alive /\ Quiet

Challenge == Plain("AUTH_CHALLENGE", 0)
Response == Plain("AUTH_RESPONSE", 0)
\* The peer asks for a key, and this client sends something else.
Refused(frame) ==
    /\ config.psk /\ config.key = "none" /\ ~link.authed
    /\ link.toClient = <<Challenge>>
    /\ (link.toServer = <<>> /\ ~link.alive) \/ link.toServer = <<frame>>

Untouched(l) == l.caps = {} /\ l.dict = "none" /\ ~l.dictReady /\ ~l.trained
G == Granted(config.wanted)
Introduced ==
    /\ link.authed
    /\ link.caps = G /\ link.dict = GrantedDict(G, "none") /\ (link.trained <=> "ZSTD_V" \in G)

AtChallenge ==
    /\ config.key # "none" /\ client = NoClient /\ Untouched(link)
    /\ \/ config.psk /\ ~link.authed /\ Arriving(Challenge)
       \/ ~config.psk /\ link.authed /\ Quiet

AtAuth ==
    /\ config.psk /\ config.key # "none" /\ client = NoClient /\ Untouched(link)
    /\ \/ ~link.authed /\ Sending(Response)
       \/ ~link.authed /\ Gone
       \/ link.authed /\ config.key = "right" /\ Arriving(Plain("AUTH_OK", 0))

AtCaps ==
    /\ client.caps = {} /\ client.dict = "none" /\ client.seq = 1 /\ config.wanted # {} /\ ~link.dictReady
    /\ \/ Untouched(link) /\ Refused(CapsFrame)
       \/ Untouched(link) /\ link.authed /\ (Sending(CapsFrame) \/ Gone)
       \/ Introduced /\ Arriving(Frame("CAPS_OK", 1, "plain", G))

AtHello ==
    /\ Introduced /\ "DICT" \in G /\ config.wanted # {}
    /\ client.caps = G /\ client.dict = "none" /\ client.seq = 2
    /\ \/ ~link.dictReady /\ \E codec \in Codecs("none", G) : Sending(Frame("HELLO", 2, codec, {}))
       \/ ~link.dictReady /\ Gone
       \/ link.dictReady /\ \E codec \in Codecs("none", G) : Arriving(Frame("HELLO", 2, codec, {}))

AtSync ==
    /\ "ZSTD_V" \in G /\ config.clientTrains /\ config.wanted # {}
    /\ link.authed /\ link.caps = G /\ link.trained /\ link.dictReady
    /\ client.caps = G /\ client.dict = "none" /\ client.seq = 3
    /\ \/ link.dict = "lz4_dict" /\ (Sending(Plain("DICT_SYNC", 3)) \/ Gone)
       \/ link.dict = SyncedDict /\ Arriving(Plain("DICT_SYNC_OK", 3))

\* The dictionary both ends come to use.
Settled ==
    IF "DICT" \notin G THEN "none"
    ELSE IF "ZSTD_V" \in G /\ config.clientTrains THEN SyncedDict
    ELSE IF "ZSTD_V" \notin G /\ "ZSTD" \in G THEN "zstd_dict"
    ELSE "lz4_dict"
Established ==
    /\ link.authed /\ link.caps = G /\ link.dict = Settled
    /\ link.dictReady <=> Settled # "none"
    /\ client.caps = G /\ client.dict = Settled
    /\ "ZSTD_V" \notin G /\ "ZSTD" \in G => config.clientTrains
\* A client without a key that wants nothing learns of it from its first answer.
Unheard ==
    /\ Untouched(link) /\ client.caps = {} /\ client.dict = "none" /\ config.wanted = {}
    /\ config.psk /\ config.key = "none" /\ ~link.authed /\ link.toClient = <<Challenge>>
Request1(codec) == Frame(client.op, asked, codec, {})
Answer1(codec) == Frame(ReplyOf(client.op), asked, codec, {})
Grantable == client.op = "READ_BATCH" => "BATCH" \in G

AtReady ==
    \/ Established /\ Quiet
    \/ Unheard /\ link.toServer = <<>>
AtAnswer ==
    \/ Established /\ Grantable
       /\ \/ Gone
          \/ \E codec \in Codecs(Settled, G) : Sending(Request1(codec))
          \/ \E codec \in Codecs(Settled, G) : Arriving(Answer1(codec))
    \/ Unheard /\ Refused(Request1("plain"))

Closed1 == link = NoLink /\ client = NoClient
Regular ==
    /\ link.open /\ ~client.degraded
    /\ phase = "challenge" => AtChallenge
    /\ phase = "auth" => AtAuth
    /\ phase = "caps" => AtCaps
    /\ phase = "hello" => AtHello
    /\ phase = "sync" => AtSync
    /\ phase = "ready" => AtReady
    /\ phase = "idle" => Established /\ Quiet
    /\ phase = "answer" => AtAnswer

\* The second connection, after a CAPS that failed: no negotiation, whatever
\* the peer made of CAPS that left early.
Degraded ==
    /\ link.open /\ client.degraded /\ client.caps = {} /\ client.dict = "none"
    /\ phase \in {"idle", "ready", "answer"}
    /\ ~link.dictReady
    /\ \A k \in DOMAIN link.toServer :
          link.toServer[k].op \in Work \cup {"CAPS"} /\ link.toServer[k].codec = "plain"
    /\ \A k \in DOMAIN link.toClient : link.toClient[k].codec \in {"plain", "lz4"}
Session ==
    IF link.open THEN phase # "connect" /\ (Regular \/ Degraded)
    ELSE phase \in {"idle", "connect"} /\ Closed1

\* A frame the handlers know.
Known(l) ==
    \A k \in DOMAIN l.toServer :
        /\ l.toServer[k].op \in Work \cup {"AUTH_RESPONSE", "CAPS", "HELLO", "DICT_SYNC"}
        /\ l.toServer[k].op = "AUTH_RESPONSE" => ~l.authed /\ Len(l.toServer) = 1
Abandoned ==
    /\ Known(link)
    /\ \A l \in abandoned : ~l.open /\ l.alive /\ l.toServer # <<>> /\ l.toClient = <<>> /\ Known(l)

Keyless ==
    config.psk /\ config.key # "right" =>
        ~link.authed /\ (\A l \in abandoned : ~l.authed) /\ executed = <<>>

(***************************************************************************)
(* The requests.                                                           *)
(***************************************************************************)
Waits(l, c) == \E k \in DOMAIN l.toServer : l.toServer[k].op \in Work /\ l.toServer[k].seq = c
Once(l) ==
    \A j, k \in DOMAIN l.toServer :
        l.toServer[j].op \in Work /\ l.toServer[k].op \in Work /\ l.toServer[j].seq = l.toServer[k].seq
            => j = k
Executed(c) == \E k \in DOMAIN executed : executed[k] = c
Replies == {"READ_OK", "READ_BATCH_OK", "ACT_ACK"}

Outcomes ==
    /\ phase # "idle" => asked > 0
    /\ \A c \in Call : outcome[c] = "new" <=> c > asked
    /\ \A c \in Call : outcome[c] = "asked" <=> c = asked /\ phase # "idle"
    /\ \A k \in DOMAIN executed : executed[k] <= asked
InLink ==
    /\ Once(link)
    /\ \A c \in Nat : Waits(link, c) =>
          /\ c \in Call /\ outcome[c] \in {"asked", "lost"} /\ ~Executed(c)
          /\ c = asked => phase \in {"idle", "answer"}
    /\ phase \notin {"idle", "answer"} => ~Executed(asked)
    /\ \A k \in DOMAIN link.toClient :
          link.toClient[k].op \in Replies => Executed(link.toClient[k].seq)
LeftBehind ==
    \A l \in abandoned :
        /\ Once(l)
        /\ \A c \in Nat : Waits(l, c) =>
              /\ c \in Call /\ outcome[c] = "lost" /\ ~Executed(c) /\ ~Waits(link, c)
              /\ \A m \in abandoned : Waits(m, c) => m = l
Requested == Outcomes /\ InLink /\ LeftBehind

\* Ends that fit, while nothing disturbs them.
Undisturbed ==
    Compatible /\ ~disturbed =>
        /\ link.open => link.alive
        /\ \A c \in Call : outcome[c] # "lost"
        /\ ~client.degraded

IInv == Types /\ Session /\ Abandoned /\ Keyless /\ Requested /\ Undisturbed

-----------------------------------------------------------------------------
(***************************************************************************)
(* What a thread of the peer makes of a frame.                             *)
(***************************************************************************)
Configured == config \in Config /\ (config.sameZstd => config.peerTrains = config.clientTrains)
Responds(l) == Next1(l).op = "AUTH_RESPONSE" /\ config.key = "right"
Closes(l, m) == m = Closed(l) /\ ~Executes(l) /\ (~Readable(l) \/ (~l.authed /\ ~Responds(l)))
Authenticates(l, m) ==
    /\ ~l.authed /\ config.key = "right" /\ Next1(l).op = "AUTH_RESPONSE"
    /\ m = Replied([l EXCEPT !.authed = TRUE], Plain("AUTH_OK", Next1(l).seq))
Dispatches(l, op, M, m) == l.authed /\ Next1(l).op = op /\ m \in M
Works(l, m) == l.authed /\ Readable(l) /\ Next1(l).op \in Work /\ m \in WorkHandled(l)

LEMMA ConfigTyped ==
  ASSUME config \in Configs
  PROVE  Configured
  BY LinkAssumption DEF Configured

\* The next frame of a connection is one of those the handlers know.
LEMMA NextKnown ==
  ASSUME NEW l \in Link, l.toServer # <<>>, Known(l)
  PROVE  /\ Next1(l) \in Frames
         /\ Next1(l) = l.toServer[1]
         /\ Next1(l).op \in Work \cup {"AUTH_RESPONSE", "CAPS", "HELLO", "DICT_SYNC"}
         /\ Next1(l).op = "AUTH_RESPONSE" => ~l.authed /\ Len(l.toServer) = 1
         /\ 1 \in DOMAIN l.toServer
  <1>1. l.toServer \in Seq(Frames)
    BY DEF Link
  <1>2. 1 \in DOMAIN l.toServer /\ Next1(l) = l.toServer[1] /\ Next1(l) \in Frames
    BY <1>1 DEF Next1
  <1>3. QED
    BY <1>2 DEF Known

\* The cases of Handled, of which one always applies.
LEMMA HandledCases ==
  ASSUME NEW l \in Link, l.toServer # <<>>, Known(l), NEW m \in Handled(l)
  PROVE  \/ Closes(l, m)
         \/ Authenticates(l, m)
         \/ Dispatches(l, "CAPS", CapsHandled(l), m)
         \/ Dispatches(l, "HELLO", HelloHandled(l), m)
         \/ Dispatches(l, "DICT_SYNC", DictSyncHandled(l), m)
         \/ Works(l, m)
  <1> DEFINE op == Next1(l).op
  <1>1. op \in Work \cup {"AUTH_RESPONSE", "CAPS", "HELLO", "DICT_SYNC"}
    BY NextKnown
  <1>2. op = "AUTH_RESPONSE" => ~l.authed
    BY NextKnown
  <1>3. CASE ~Readable(l)
    <2>1. Handled(l) = {Closed(l)}
      BY <1>3, Zenon DEF Handled
    <2>2. ~Executes(l)
      BY <1>3, Zenon DEF Executes
    <2>3. QED
      BY <2>1, <2>2, <1>3, Zenon DEF Closes
  <1>4. CASE Readable(l) /\ ~l.authed
    <2>1. Handled(l) = AuthHandled(l)
      BY <1>4, Zenon DEF Handled
    <2>2. ~Executes(l)
      BY <1>4, Zenon DEF Executes
    <2>3. QED
      BY <2>1, <2>2, <1>4, Zenon DEF Closes, Authenticates, AuthHandled, Responds
  <1>5. CASE Readable(l) /\ l.authed
    <2> DEFINE H == CASE op = "CAPS" -> CapsHandled(l)
                      [] op = "HELLO" -> HelloHandled(l)
                      [] op = "DICT_SYNC" -> DictSyncHandled(l)
                      [] op \in Work -> WorkHandled(l)
    <2>1. Handled(l) = H
      BY <1>5, Zenon DEF Handled
    <2>2. op \in Work \cup {"CAPS", "HELLO", "DICT_SYNC"}
      BY <1>1, <1>2, <1>5
    <2>3. \/ op = "CAPS" /\ H = CapsHandled(l)
          \/ op = "HELLO" /\ H = HelloHandled(l)
          \/ op = "DICT_SYNC" /\ H = DictSyncHandled(l)
          \/ op \in Work /\ H = WorkHandled(l)
      BY <2>2 DEF Work
    <2>4. QED
      BY <2>1, <2>3, <1>5, Zenon DEF Dispatches, Works
  <1>6. QED
    BY <1>3, <1>4, <1>5, Zenon

\* What stays of a connection with a reply on it.
SameEnd(l, m) ==
    /\ m.open <=> l.open
    /\ m.alive <=> l.alive
    /\ m.authed <=> l.authed
    /\ m.caps = l.caps /\ m.dict = l.dict
    /\ m.dictReady <=> l.dictReady
    /\ m.trained <=> l.trained
WithReply(l, f, m) ==
    /\ m \in Link /\ SameEnd(l, m)
    /\ m.toServer = Tail(l.toServer)
    /\ m.toClient = IF l.open THEN Append(l.toClient, f) ELSE l.toClient

LEMMA RepliedLink ==
  ASSUME NEW l \in Link, l.toServer # <<>>, NEW f \in Frames
  PROVE  WithReply(l, f, Replied(l, f))
  <1> DEFINE tS == Tail(l.toServer)
             tC == IF l.open THEN Append(l.toClient, f) ELSE l.toClient
             m == Replied(l, f)
  <1>1. tS \in Seq(Frames)
    BY DEF Link
  <1>2. tC \in Seq(Frames)
    BY DEF Link
  <1>3. m = [l EXCEPT !.toServer = tS, !.toClient = tC]
    BY Zenon DEF Replied, Silent, Link
  <1> HIDE DEF tS, tC, m
  <1>4. m \in Link
    BY <1>1, <1>2, <1>3 DEF Link
  <1>5. m.toServer = tS /\ m.toClient = tC /\ m.caps = l.caps /\ m.dict = l.dict
    BY <1>3 DEF Link
  <1>6. (m.open <=> l.open) /\ (m.alive <=> l.alive) /\ (m.authed <=> l.authed)
        /\ (m.dictReady <=> l.dictReady) /\ (m.trained <=> l.trained)
    BY <1>3, Zenon DEF Link
  <1>7. QED
    BY <1>4, <1>5, <1>6 DEF tS, tC, m, WithReply, SameEnd

LEMMA ClosedLink ==
  ASSUME NEW l \in Link
  PROVE  /\ Closed(l) \in Link /\ ~Closed(l).alive /\ Closed(l).toServer = <<>>
         /\ Closed(l).toClient = l.toClient /\ Closed(l).caps = l.caps /\ Closed(l).dict = l.dict
         /\ Closed(l).open <=> l.open
         /\ Closed(l).authed <=> l.authed
         /\ Closed(l).dictReady <=> l.dictReady
         /\ Closed(l).trained <=> l.trained
  <1> DEFINE m == Closed(l)
  <1>1. m = [l EXCEPT !.alive = FALSE, !.toServer = <<>>]
    BY DEF Closed
  <1> HIDE DEF m
  <1>e. <<>> \in Seq(Frames)
    OBVIOUS
  <1>2. m \in Link
    BY <1>1, <1>e, Zenon DEF Link
  <1>3. m.toServer = <<>> /\ m.toClient = l.toClient /\ m.caps = l.caps /\ m.dict = l.dict
    BY <1>1 DEF Link
  <1>4. ~m.alive
    BY <1>1 DEF Link
  <1>5. (m.open <=> l.open) /\ (m.authed <=> l.authed)
        /\ (m.dictReady <=> l.dictReady) /\ (m.trained <=> l.trained)
    BY <1>1, Zenon DEF Link
  <1>6. QED
    BY <1>2, <1>3, <1>4, <1>5 DEF m

----------------------------------------------------------------------------
(* The handlers, one by one.                                               *)

LEMMA Tailless ==
  ASSUME NEW l \in Link, l.toServer # <<>>
  PROVE  Tail(l.toServer) \in Seq(Frames)
  BY DEF Link

\* AUTH_OK follows the right response.
AuthReplied(l, m) ==
    /\ m \in Link /\ m.authed
    /\ m.open <=> l.open
    /\ m.alive <=> l.alive
    /\ m.caps = l.caps /\ m.dict = l.dict
    /\ m.dictReady <=> l.dictReady
    /\ m.trained <=> l.trained
    /\ m.toServer = Tail(l.toServer)
    /\ m.toClient = IF l.open THEN Append(l.toClient, Plain("AUTH_OK", Next1(l).seq)) ELSE l.toClient
LEMMA AuthHandling ==
  ASSUME NEW l \in Link, l.toServer # <<>>, NEW m, Authenticates(l, m)
  PROVE  AuthReplied(l, m)
  <1> DEFINE k == [l EXCEPT !.authed = TRUE]
             f == Plain("AUTH_OK", Next1(l).seq)
  <1>1. Next1(l) \in Frames
    BY DEF Link, Next1
  <1>2. f \in Frames
    BY <1>1 DEF Frames, Plain, Frame, Codec
  <1>3. k \in Link /\ k.toServer = l.toServer /\ k.toClient = l.toClient /\ k.caps = l.caps /\ k.dict = l.dict
    BY DEF Link
  <1>4. /\ k.authed
        /\ k.open <=> l.open
        /\ k.alive <=> l.alive
        /\ k.dictReady <=> l.dictReady
        /\ k.trained <=> l.trained
    BY Zenon DEF Link
  <1>5. m = Replied(k, f)
    BY Zenon DEF Authenticates
  <1> HIDE DEF k, f
  <1>6. WithReply(k, f, Replied(k, f))
    BY <1>2, <1>3, RepliedLink
  <1>7. WithReply(k, f, m)
    BY <1>5, <1>6, Zenon
  <1>8. m.toClient = IF l.open THEN Append(l.toClient, f) ELSE l.toClient
    BY <1>3, <1>4, <1>7, Zenon DEF WithReply
  <1>9. QED
    BY <1>3, <1>4, <1>7, <1>8, Zenon DEF WithReply, SameEnd, AuthReplied, f

\* CAPS_OK carries what is granted; the peer uses it from then on.
CapsReplied(l, m) ==
    LET granted == Granted(Next1(l).caps) IN
    /\ m \in Link
    /\ m.open <=> l.open
    /\ m.alive <=> l.alive
    /\ m.authed <=> l.authed
    /\ m.caps = granted /\ m.dict = GrantedDict(granted, l.dict)
    /\ m.dictReady <=> l.dictReady
    /\ m.trained <=> l.trained \/ "ZSTD_V" \in granted
    /\ m.toServer = Tail(l.toServer)
    /\ m.toClient = IF l.open THEN Append(l.toClient, Frame("CAPS_OK", Next1(l).seq, "plain", granted))
                    ELSE l.toClient
LEMMA GrantedTyped ==
  ASSUME NEW C \in SUBSET Cap
  PROVE  /\ Granted(C) \in SUBSET Cap /\ Granted(C) \subseteq C \cap config.announced
         /\ Granted(C) \cap {"ZSTD", "ZSTD_V"} # {} => config.peerTrains /\ "DICT" \in Granted(C)
         /\ \A d \in Dict : GrantedDict(Granted(C), d) \in Dict
  BY DEF Granted, GrantedDict, Dict
LEMMA CapsHandling ==
  ASSUME NEW l \in Link, l.toServer # <<>>, NEW m \in CapsHandled(l)
  PROVE  CapsReplied(l, m)
  <1> DEFINE granted == Granted(Next1(l).caps)
             d == GrantedDict(granted, l.dict)
             t == l.trained \/ "ZSTD_V" \in granted
             k == [l EXCEPT !.caps = granted, !.dict = d, !.trained = t]
             f == Frame("CAPS_OK", Next1(l).seq, "plain", granted)
  <1>1. Next1(l) \in Frames
    BY DEF Link, Next1
  <1>2. granted \in SUBSET Cap
    <2>1. Next1(l).caps \in SUBSET Cap
      BY <1>1 DEF Frames
    <2>2. QED
      BY <2>1, GrantedTyped, Zenon
  <1>3. f \in Frames
    BY <1>1, <1>2 DEF Frames, Frame, Codec
  <1>4. d \in Dict
    <2>1. l.dict \in Dict
      BY DEF Link
    <2>2. QED
      BY <2>1, GrantedTyped, <1>1 DEF Frames
  <1>5. m = Replied(k, f)
    BY Zenon DEF CapsHandled, Link
  <1>6. t \in BOOLEAN
    OBVIOUS
  <1> HIDE DEF granted, d, t, f
  <1>7. k \in Link
    BY <1>2, <1>4, <1>6 DEF Link
  <1>8. k.toServer = l.toServer /\ k.toClient = l.toClient /\ k.caps = granted /\ k.dict = d
    BY DEF Link
  <1>9. /\ k.open <=> l.open
        /\ k.alive <=> l.alive
        /\ k.authed <=> l.authed
        /\ k.dictReady <=> l.dictReady
        /\ k.trained <=> t
    BY <1>6, Zenon DEF Link
  <1> HIDE DEF k
  <1>10. WithReply(k, f, m)
    BY <1>3, <1>5, <1>7, <1>8, RepliedLink
  <1>11. m.toClient = IF l.open THEN Append(l.toClient, f) ELSE l.toClient
    BY <1>8, <1>9, <1>10, Zenon DEF WithReply
  <1>12. QED
    BY <1>8, <1>9, <1>10, <1>11, Zenon DEF WithReply, SameEnd, CapsReplied, granted, d, t, f

LEMMA CodecsTyped ==
  ASSUME NEW d \in Dict, NEW C \in SUBSET Cap
  PROVE  Codecs(d, C) \subseteq Codec
  BY DEF Codecs, Codec, Dict

\* The dictionary is used after the HELLO has left.
HelloReplied(l, m) ==
    /\ m \in Link
    /\ m.open <=> l.open
    /\ m.alive <=> l.alive
    /\ m.authed <=> l.authed
    /\ m.caps = l.caps /\ m.dict = l.dict
    /\ m.dictReady <=> l.dictReady \/ l.dict # "none"
    /\ m.trained <=> l.trained
    /\ m.toServer = Tail(l.toServer)
    /\ \E codec \in Codecs("none", l.caps) :
          m.toClient = IF l.open THEN Append(l.toClient, Frame("HELLO", Next1(l).seq, codec, {}))
                       ELSE l.toClient
LEMMA HelloHandling ==
  ASSUME NEW l \in Link, l.toServer # <<>>, NEW m \in HelloHandled(l)
  PROVE  HelloReplied(l, m)
  <1> DEFINE t == l.dictReady \/ l.dict # "none"
             k == [l EXCEPT !.dictReady = t]
  <1>1. Next1(l) \in Frames
    BY DEF Link, Next1
  <1>2. PICK codec \in Codecs("none", l.caps) : m = Replied(k, Frame("HELLO", Next1(l).seq, codec, {}))
    BY Zenon DEF HelloHandled, Link
  <1> DEFINE f == Frame("HELLO", Next1(l).seq, codec, {})
  <1>3. f \in Frames
    <2>1. codec \in Codec
      BY CodecsTyped, <1>2 DEF Link, Dict
    <2>2. QED
      BY <1>1, <2>1 DEF Frames, Frame
  <1>4. t \in BOOLEAN
    OBVIOUS
  <1> HIDE DEF t, f
  <1>5. k \in Link
    BY <1>4 DEF Link
  <1>6. k.toServer = l.toServer /\ k.toClient = l.toClient /\ k.caps = l.caps /\ k.dict = l.dict
    BY DEF Link
  <1>7. /\ k.open <=> l.open
        /\ k.alive <=> l.alive
        /\ k.authed <=> l.authed
        /\ k.dictReady <=> t
        /\ k.trained <=> l.trained
    BY <1>4, Zenon DEF Link
  <1> HIDE DEF k
  <1>8. WithReply(k, f, m)
    BY <1>2, <1>3, <1>5, <1>6, RepliedLink DEF f
  <1>9. m.toClient = IF l.open THEN Append(l.toClient, f) ELSE l.toClient
    BY <1>6, <1>7, <1>8, Zenon DEF WithReply
  <1>10. QED
    BY <1>2, <1>6, <1>7, <1>8, <1>9, Zenon DEF WithReply, SameEnd, HelloReplied, t, f

\* A peer that trained its dictionary compares the hashes.
SyncReplied(l, m) ==
    /\ m \in Link
    /\ m.open <=> l.open
    /\ m.alive <=> l.alive
    /\ m.authed <=> l.authed
    /\ m.caps = l.caps
    /\ m.dict = IF config.sameZstd THEN "zstd_dict_v" ELSE l.dict
    /\ m.dictReady <=> l.dictReady
    /\ m.trained <=> l.trained
    /\ m.toServer = Tail(l.toServer)
    /\ m.toClient = IF l.open THEN Append(l.toClient, Plain("DICT_SYNC_OK", Next1(l).seq))
                    ELSE l.toClient
LEMMA SyncHandling ==
  ASSUME NEW l \in Link, l.toServer # <<>>, l.trained, NEW m \in DictSyncHandled(l)
  PROVE  SyncReplied(l, m)
  <1> DEFINE d == IF config.sameZstd THEN "zstd_dict_v" ELSE l.dict
             k == [l EXCEPT !.dict = d]
             f == Plain("DICT_SYNC_OK", Next1(l).seq)
  <1>1. Next1(l) \in Frames
    BY DEF Link, Next1
  <1>2. f \in Frames
    BY <1>1 DEF Frames, Plain, Frame, Codec
  <1>3. m = Replied(k, f)
    BY Zenon DEF DictSyncHandled, Link
  <1>4. d \in Dict
    BY DEF Link, Dict
  <1> HIDE DEF d, f
  <1>5. k \in Link
    BY <1>4 DEF Link
  <1>6. k.toServer = l.toServer /\ k.toClient = l.toClient /\ k.caps = l.caps /\ k.dict = d
    BY DEF Link
  <1>7. /\ k.open <=> l.open
        /\ k.alive <=> l.alive
        /\ k.authed <=> l.authed
        /\ k.dictReady <=> l.dictReady
        /\ k.trained <=> l.trained
    BY Zenon DEF Link
  <1> HIDE DEF k
  <1>8. WithReply(k, f, m)
    BY <1>2, <1>3, <1>5, <1>6, RepliedLink
  <1>9. m.toClient = IF l.open THEN Append(l.toClient, f) ELSE l.toClient
    BY <1>6, <1>7, <1>8, Zenon DEF WithReply
  <1>10. QED
    BY <1>6, <1>7, <1>8, <1>9, Zenon DEF WithReply, SameEnd, SyncReplied, d, f

\* A frame that gets no reply.
SilentEnd(l, m) ==
    /\ m \in Link /\ SameEnd(l, m)
    /\ m.toServer = Tail(l.toServer) /\ m.toClient = l.toClient
LEMMA SilentLink ==
  ASSUME NEW l \in Link, l.toServer # <<>>
  PROVE  SilentEnd(l, Silent(l))
  <1> DEFINE tS == Tail(l.toServer)
             m == Silent(l)
  <1>1. tS \in Seq(Frames)
    BY DEF Link
  <1>2. m = [l EXCEPT !.toServer = tS]
    BY DEF Silent
  <1> HIDE DEF tS, m
  <1>3. m \in Link
    BY <1>1, <1>2 DEF Link
  <1>4. m.toServer = tS /\ m.toClient = l.toClient /\ m.caps = l.caps /\ m.dict = l.dict
    BY <1>2 DEF Link
  <1>5. (m.open <=> l.open) /\ (m.alive <=> l.alive) /\ (m.authed <=> l.authed)
        /\ (m.dictReady <=> l.dictReady) /\ (m.trained <=> l.trained)
    BY <1>2, Zenon DEF Link
  <1>6. QED
    BY <1>3, <1>4, <1>5 DEF tS, m, SilentEnd, SameEnd

\* Work that is carried out is answered with its own number.
WorkReplied(l, m) ==
    \E codec \in Codecs(ServerDict(l), l.caps) :
        WithReply(l, Frame(ReplyOf(Next1(l).op), Next1(l).seq, codec, {}), m)
LEMMA WorkHandling ==
  ASSUME NEW l \in Link, l.toServer # <<>>, NEW m, Works(l, m)
  PROVE  IF Executes(l) THEN WorkReplied(l, m) ELSE SilentEnd(l, m)
  <1>1. CASE ~Served(l)
    <2>1. m = Silent(l)
      BY <1>1, Zenon DEF Works, WorkHandled
    <2>2. ~Executes(l)
      BY <1>1, Zenon DEF Executes
    <2>3. QED
      BY <2>1, <2>2, SilentLink, Zenon
  <1>2. CASE Served(l)
    <2>1. Executes(l)
      BY <1>2, Zenon DEF Executes, Works
    <2>2. PICK codec \in Codecs(ServerDict(l), l.caps) :
             m = Replied(l, Frame(ReplyOf(Next1(l).op), Next1(l).seq, codec, {}))
      BY <1>2, Zenon DEF Works, WorkHandled
    <2>3. Next1(l) \in Frames
      BY DEF Link, Next1
    <2>4. codec \in Codec
      <3>1. ServerDict(l) \in Dict /\ l.caps \in SUBSET Cap
        BY DEF Link, ServerDict, Dict
      <3>2. QED
        BY <3>1, CodecsTyped
    <2>5. ReplyOf(Next1(l).op) \in Replies
      BY DEF Works, Work, ReplyOf, Replies
    <2>6. Frame(ReplyOf(Next1(l).op), Next1(l).seq, codec, {}) \in Frames
      BY <2>3, <2>4, <2>5 DEF Frames, Frame, Replies
    <2>7. WithReply(l, Frame(ReplyOf(Next1(l).op), Next1(l).seq, codec, {}), m)
      BY <2>2, <2>6, RepliedLink
    <2>8. QED
      BY <2>1, <2>7, Zenon DEF WorkReplied
  <1>3. QED
    BY <1>1, <1>2

----------------------------------------------------------------------------
(* What any of them leaves of a connection.                                *)

Taken(l, m) == m.toServer = <<>> \/ (m.toServer = Tail(l.toServer) /\ (m.alive <=> l.alive))
Answered(l, m) ==
    \/ m.toClient = l.toClient
    \/ /\ l.open
       /\ \E f \in Frames : /\ m.toClient = Append(l.toClient, f)
                            /\ f.op \in Replies => Executes(l) /\ f.seq = Next1(l).seq
Shape(l, m) ==
    /\ m \in Link
    /\ m.open <=> l.open
    /\ m.alive => l.alive
    /\ l.authed => m.authed
    /\ m.authed => l.authed \/ config.key = "right"
    /\ Taken(l, m) /\ Answered(l, m)

LEMMA HandledShape ==
  ASSUME NEW l \in Link, l.toServer # <<>>, Known(l), NEW m \in Handled(l)
  PROVE  Shape(l, m)
  <1>0. Next1(l) \in Frames
    BY DEF Link, Next1
  <1>1. CASE Closes(l, m)
    BY <1>1, ClosedLink DEF Closes, Shape, Taken, Answered
  <1>2. CASE Authenticates(l, m)
    <2>1. AuthReplied(l, m)
      BY <1>2, AuthHandling
    <2> DEFINE f == Plain("AUTH_OK", Next1(l).seq)
    <2>2. f \in Frames /\ f.op \notin Replies
      BY <1>0 DEF Frames, Plain, Frame, Codec, Replies
    <2>3. m.toClient = l.toClient \/ (l.open /\ m.toClient = Append(l.toClient, f))
      BY <2>1, Zenon DEF AuthReplied
    <2>4. Answered(l, m)
      BY <2>2, <2>3, Zenon DEF Answered
    <2>5. QED
      BY <1>2, <2>1, <2>4, Zenon DEF AuthReplied, Authenticates, Shape, Taken
  <1>3. CASE Dispatches(l, "CAPS", CapsHandled(l), m)
    <2>1. CapsReplied(l, m)
      BY <1>3, CapsHandling DEF Dispatches
    <2> DEFINE granted == Granted(Next1(l).caps)
               f == Frame("CAPS_OK", Next1(l).seq, "plain", granted)
    <2>2. f \in Frames /\ f.op \notin Replies
      <3>1. granted \in SUBSET Cap
        BY <1>0, GrantedTyped DEF Frames
      <3>2. QED
        BY <1>0, <3>1 DEF Frames, Frame, Codec, Replies
    <2>3. m.toClient = l.toClient \/ (l.open /\ m.toClient = Append(l.toClient, f))
      BY <2>1, Zenon DEF CapsReplied
    <2>4. Answered(l, m)
      BY <2>2, <2>3, Zenon DEF Answered
    <2>5. QED
      BY <2>1, <2>4, Zenon DEF CapsReplied, Shape, Taken
  <1>4. CASE Dispatches(l, "HELLO", HelloHandled(l), m)
    <2>1. HelloReplied(l, m)
      BY <1>4, HelloHandling DEF Dispatches
    <2>2. PICK codec \in Codecs("none", l.caps) :
             m.toClient = IF l.open THEN Append(l.toClient, Frame("HELLO", Next1(l).seq, codec, {}))
                          ELSE l.toClient
      BY <2>1, Zenon DEF HelloReplied
    <2> DEFINE f == Frame("HELLO", Next1(l).seq, codec, {})
    <2>3. f \in Frames /\ f.op \notin Replies
      <3>1. codec \in Codec
        BY CodecsTyped, <2>2 DEF Link, Dict
      <3>2. QED
        BY <1>0, <3>1 DEF Frames, Frame, Replies
    <2>4. m.toClient = l.toClient \/ (l.open /\ m.toClient = Append(l.toClient, f))
      BY <2>2, Zenon
    <2>5. Answered(l, m)
      BY <2>3, <2>4, Zenon DEF Answered
    <2>6. QED
      BY <2>1, <2>5, Zenon DEF HelloReplied, Shape, Taken
  <1>5. CASE Dispatches(l, "DICT_SYNC", DictSyncHandled(l), m)
    <2>1. CASE l.trained
      <3>1. SyncReplied(l, m)
        BY <1>5, <2>1, SyncHandling DEF Dispatches
      <3> DEFINE f == Plain("DICT_SYNC_OK", Next1(l).seq)
      <3>2. f \in Frames /\ f.op \notin Replies
        BY <1>0 DEF Frames, Plain, Frame, Codec, Replies
      <3>3. m.toClient = l.toClient \/ (l.open /\ m.toClient = Append(l.toClient, f))
        BY <3>1, Zenon DEF SyncReplied
      <3>4. Answered(l, m)
        BY <3>2, <3>3, Zenon DEF Answered
      <3>5. QED
        BY <3>1, <3>4, Zenon DEF SyncReplied, Shape, Taken
    <2>2. CASE ~l.trained
      <3>1. m = Silent(l)
        BY <1>5, <2>2, Zenon DEF Dispatches, DictSyncHandled
      <3>2. QED
        BY <3>1, SilentLink, Zenon DEF SilentEnd, SameEnd, Shape, Taken, Answered
    <2>3. QED
      BY <2>1, <2>2
  <1>6. CASE Works(l, m)
    <2>1. CASE Executes(l)
      <3>1. PICK codec \in Codecs(ServerDict(l), l.caps) :
               WithReply(l, Frame(ReplyOf(Next1(l).op), Next1(l).seq, codec, {}), m)
        BY <2>1, <1>6, WorkHandling DEF WorkReplied
      <3> DEFINE f == Frame(ReplyOf(Next1(l).op), Next1(l).seq, codec, {})
      <3>2. codec \in Codec
        <4>1. ServerDict(l) \in Dict /\ l.caps \in SUBSET Cap
          BY DEF Link, ServerDict, Dict
        <4>2. QED
          BY <4>1, CodecsTyped
      <3>3. ReplyOf(Next1(l).op) \in Replies
        BY <1>6 DEF Works, Work, ReplyOf, Replies
      <3>4. f \in Frames /\ f.seq = Next1(l).seq
        BY <1>0, <3>2, <3>3 DEF Frames, Frame, Replies
      <3>5. m.toClient = l.toClient \/ (l.open /\ m.toClient = Append(l.toClient, f))
        BY <3>1, Zenon DEF WithReply
      <3>6. Answered(l, m)
        BY <2>1, <3>4, <3>5, Zenon DEF Answered
      <3>7. QED
        BY <3>1, <3>6, Zenon DEF WithReply, SameEnd, Shape, Taken
    <2>2. CASE ~Executes(l)
      BY <2>2, <1>6, WorkHandling, Zenon DEF SilentEnd, SameEnd, Shape, Taken, Answered
    <2>3. QED
      BY <2>1, <2>2
  <1>7. QED
    BY <1>1, <1>2, <1>3, <1>4, <1>5, <1>6, HandledCases

----------------------------------------------------------------------------
(* What the client does to its connection.                                 *)

LEMMA EmptyFrames == <<>> \in Seq(Frames) /\ \A f \in Frames : <<f>> \in Seq(Frames)
  OBVIOUS

WithSent(l, f, m) ==
    /\ m \in Link /\ SameEnd(l, m)
    /\ m.toServer = Append(l.toServer, f) /\ m.toClient = l.toClient
LEMMA SentLink ==
  ASSUME NEW l \in Link, NEW f \in Frames
  PROVE  WithSent(l, f, Sent(l, f))
  <1> DEFINE s == Append(l.toServer, f)
             m == Sent(l, f)
  <1>1. s \in Seq(Frames)
    BY DEF Link
  <1>2. m = [l EXCEPT !.toServer = s]
    BY DEF Sent
  <1> HIDE DEF s, m
  <1>3. m \in Link
    BY <1>1, <1>2 DEF Link
  <1>4. m.toServer = s /\ m.toClient = l.toClient /\ m.caps = l.caps /\ m.dict = l.dict
    BY <1>2 DEF Link
  <1>5. (m.open <=> l.open) /\ (m.alive <=> l.alive) /\ (m.authed <=> l.authed)
        /\ (m.dictReady <=> l.dictReady) /\ (m.trained <=> l.trained)
    BY <1>2, Zenon DEF Link
  <1>6. QED
    BY <1>3, <1>4, <1>5 DEF s, m, WithSent, SameEnd

WithReceived(l, m) ==
    /\ m \in Link /\ SameEnd(l, m)
    /\ m.toServer = l.toServer /\ m.toClient = Tail(l.toClient)
LEMMA ReceivedLink ==
  ASSUME NEW l \in Link, l.toClient # <<>>
  PROVE  WithReceived(l, Received(l))
  <1> DEFINE s == Tail(l.toClient)
             m == Received(l)
  <1>1. s \in Seq(Frames)
    BY DEF Link
  <1>2. m = [l EXCEPT !.toClient = s]
    BY DEF Received
  <1> HIDE DEF s, m
  <1>3. m \in Link
    BY <1>1, <1>2 DEF Link
  <1>4. m.toServer = l.toServer /\ m.toClient = s /\ m.caps = l.caps /\ m.dict = l.dict
    BY <1>2 DEF Link
  <1>5. (m.open <=> l.open) /\ (m.alive <=> l.alive) /\ (m.authed <=> l.authed)
        /\ (m.dictReady <=> l.dictReady) /\ (m.trained <=> l.trained)
    BY <1>2, Zenon DEF Link
  <1>6. QED
    BY <1>3, <1>4, <1>5 DEF s, m, WithReceived, SameEnd

\* A connection that was just opened.
Fresh(l, early) ==
    /\ l \in Link /\ l.open /\ l.alive /\ Untouched(l)
    /\ l.authed <=> ~config.psk
    /\ l.toServer = IF early THEN <<CapsFrame>> ELSE <<>>
    /\ l.toClient = IF config.psk THEN <<Challenge>> ELSE <<>>
LEMMA NoLinkTyped ==
  /\ NoLink \in Link /\ ~NoLink.open /\ ~NoLink.alive /\ Untouched(NoLink) /\ ~NoLink.authed
  /\ NoLink.toServer = <<>> /\ NoLink.toClient = <<>>
  BY EmptyFrames DEF NoLink, Link, Dict, Untouched
LEMMA FramesTyped ==
  ASSUME Configured
  PROVE  CapsFrame \in Frames /\ Challenge \in Frames /\ Response \in Frames
  BY DEF Configured, Config, CapsFrame, Challenge, Response, Plain, Frame, Frames, Codec
LEMMA OpenedLink ==
  ASSUME Configured, NEW early \in BOOLEAN
  PROVE  Fresh(Opened(early), early)
  <1> DEFINE tS == IF early THEN <<CapsFrame>> ELSE <<>>
             tC == IF config.psk THEN <<Challenge>> ELSE <<>>
             a == ~config.psk
             m == Opened(early)
  <1>1. tS \in Seq(Frames) /\ tC \in Seq(Frames) /\ a \in BOOLEAN
    BY FramesTyped, EmptyFrames
  <1>2. m = [NoLink EXCEPT !.open = TRUE, !.alive = TRUE, !.toServer = tS, !.toClient = tC, !.authed = a]
    BY DEF Opened, Challenge
  <1> HIDE DEF tS, tC, a, m
  <1>3. m \in Link
    BY <1>1, <1>2, NoLinkTyped DEF Link
  <1>4. m.toServer = tS /\ m.toClient = tC /\ m.caps = {} /\ m.dict = "none"
    BY <1>2 DEF NoLink
  <1>5. m.open /\ m.alive /\ (m.authed <=> a) /\ ~m.dictReady /\ ~m.trained
    BY <1>1, <1>2, Zenon DEF NoLink
  <1>6. QED
    BY <1>3, <1>4, <1>5, Zenon DEF tS, tC, a, m, Fresh, Untouched

\* A dropped connection is left behind only with frames the peer still takes.
Left(l, m) ==
    /\ m \in Link /\ ~m.open /\ m.alive /\ l.alive /\ m.toServer # <<>>
    /\ m.authed <=> l.authed
    /\ m.toServer = l.toServer /\ m.toClient = <<>>
LEMMA DroppedLink ==
  ASSUME NEW l \in Link
  PROVE  \/ Dropped(l) = {}
         \/ \E m : Dropped(l) = {m} /\ Left(l, m)
  <1> SUFFICES ASSUME l.alive /\ l.toServer # <<>>
               PROVE  \E m : Dropped(l) = {m} /\ Left(l, m)
    BY Zenon DEF Dropped
  <1> DEFINE m == [l EXCEPT !.open = FALSE, !.toClient = <<>>]
  <1>1. Dropped(l) = {m}
    BY Zenon DEF Dropped
  <1>2. m \in Link
    BY EmptyFrames DEF Link
  <1>3. m.toServer = l.toServer /\ m.toClient = <<>> /\ ~m.open
    BY DEF Link
  <1>4. (m.alive <=> l.alive) /\ (m.authed <=> l.authed)
    BY Zenon DEF Link
  <1> HIDE DEF m
  <1>5. Left(l, m)
    BY <1>2, <1>3, <1>4, Zenon DEF Left
  <1>6. QED
    BY <1>1, <1>5

----------------------------------------------------------------------------
(* Requests that wait on a connection.                                     *)

Fewer(l, m) ==
    /\ \A c \in Nat : Waits(m, c) => Waits(l, c)
    /\ Once(l) => Once(m)
NoNewReply(l, m) ==
    \A k \in DOMAIN m.toClient : m.toClient[k].op \in Replies =>
        \E j \in DOMAIN l.toClient : m.toClient[k] = l.toClient[j]

LEMMA NothingWaits ==
  ASSUME NEW l, NEW m, m.toServer = <<>>
  PROVE  Fewer(l, m) /\ \A c \in Nat : ~Waits(m, c)
  BY DEF Fewer, Waits, Once

LEMMA SameWaits ==
  ASSUME NEW l, NEW m, m.toServer = l.toServer
  PROVE  Fewer(l, m)
  BY Zenon DEF Fewer, Waits, Once

\* A frame that is no work adds nothing.
LEMMA OtherWaits ==
  ASSUME NEW l \in Link, NEW m, NEW f \in Frames, f.op \notin Work, m.toServer = Append(l.toServer, f)
  PROVE  Fewer(l, m)
  <1>1. l.toServer \in Seq(Frames)
    BY DEF Link
  <1>2. ASSUME NEW k \in DOMAIN m.toServer, m.toServer[k].op \in Work
        PROVE  k \in DOMAIN l.toServer /\ m.toServer[k] = l.toServer[k]
    BY <1>1, <1>2
  <1>3. ASSUME NEW c \in Nat, Waits(m, c)
        PROVE  Waits(l, c)
    <2>1. PICK k \in DOMAIN m.toServer : m.toServer[k].op \in Work /\ m.toServer[k].seq = c
      BY <1>3, Zenon DEF Waits
    <2>2. QED
      BY <1>2, <2>1, Zenon DEF Waits
  <1>4. ASSUME Once(l)
        PROVE  Once(m)
    BY <1>2, <1>4, Zenon DEF Once
  <1>5. QED
    BY <1>3, <1>4 DEF Fewer

\* What is taken from a connection waits there no longer.
LEMMA TakenWaits ==
  ASSUME NEW l \in Link, l.toServer # <<>>, NEW m, Taken(l, m)
  PROVE  /\ Fewer(l, m)
         /\ Once(l) /\ Executes(l) => ~Waits(m, Next1(l).seq)
  <1>1. l.toServer \in Seq(Frames)
    BY DEF Link
  <1>2. ASSUME NEW k \in DOMAIN m.toServer
        PROVE  k + 1 \in DOMAIN l.toServer /\ m.toServer[k] = l.toServer[k + 1] /\ k \in Nat /\ k > 0
    <2>1. m.toServer = Tail(l.toServer)
      BY <1>2 DEF Taken
    <2>2. QED
      BY <1>1, <1>2, <2>1
  <1>3. ASSUME NEW c \in Nat, Waits(m, c)
        PROVE  Waits(l, c)
    <2>1. PICK k \in DOMAIN m.toServer : m.toServer[k].op \in Work /\ m.toServer[k].seq = c
      BY <1>3, Zenon DEF Waits
    <2>2. k + 1 \in DOMAIN l.toServer /\ m.toServer[k] = l.toServer[k + 1]
      BY <1>2
    <2>3. QED
      BY <2>1, <2>2, Zenon DEF Waits
  <1>4. ASSUME Once(l), NEW j \in DOMAIN m.toServer, NEW k \in DOMAIN m.toServer,
               m.toServer[j].op \in Work, m.toServer[k].op \in Work, m.toServer[j].seq = m.toServer[k].seq
        PROVE  j = k
    <2>1. /\ j + 1 \in DOMAIN l.toServer /\ m.toServer[j] = l.toServer[j + 1]
          /\ k + 1 \in DOMAIN l.toServer /\ m.toServer[k] = l.toServer[k + 1]
      BY <1>2
    <2>2. j + 1 = k + 1
      BY <1>4, <2>1, Zenon DEF Once
    <2>3. QED
      BY <1>2, <2>2
  <1>5. Once(l) => Once(m)
    BY <1>4, Zenon DEF Once
  <1>6. ASSUME Once(l), Executes(l), Waits(m, Next1(l).seq)
        PROVE  FALSE
    <2>1. PICK k \in DOMAIN m.toServer : m.toServer[k].op \in Work /\ m.toServer[k].seq = Next1(l).seq
      BY <1>6, Zenon DEF Waits
    <2>2. k + 1 \in DOMAIN l.toServer /\ m.toServer[k] = l.toServer[k + 1]
      BY <1>2
    <2>3. 1 \in DOMAIN l.toServer /\ Next1(l) = l.toServer[1]
      BY <1>1 DEF Next1
    <2>4. l.toServer[1].op \in Work
      BY <1>6, <2>3, Zenon DEF Executes
    <2>5. k + 1 = 1
      BY <1>6, <2>1, <2>2, <2>3, <2>4, Zenon DEF Once
    <2>6. QED
      BY <1>2, <2>5
  <1>7. QED
    BY <1>3, <1>5, <1>6 DEF Fewer

LEMMA ExecutingWaits ==
  ASSUME NEW l \in Link, l.toServer # <<>>, Executes(l)
  PROVE  Waits(l, Next1(l).seq) /\ Next1(l).seq \in Nat
  <1>1. l.toServer \in Seq(Frames)
    BY DEF Link
  <1>2. 1 \in DOMAIN l.toServer /\ Next1(l) = l.toServer[1] /\ Next1(l) \in Frames
    BY <1>1 DEF Next1
  <1>3. Next1(l).seq \in Nat
    BY <1>2 DEF Frames
  <1>4. QED
    BY <1>2, <1>3, Zenon DEF Executes, Waits

LEMMA TailReplies ==
  ASSUME NEW l \in Link, l.toClient # <<>>, NEW m, m.toClient = Tail(l.toClient)
  PROVE  NoNewReply(l, m)
  <1>1. l.toClient \in Seq(Frames)
    BY DEF Link
  <1>2. ASSUME NEW k \in DOMAIN m.toClient
        PROVE  k + 1 \in DOMAIN l.toClient /\ m.toClient[k] = l.toClient[k + 1]
    BY <1>1, <1>2
  <1>3. QED
    BY <1>2, Zenon DEF NoNewReply
LEMMA SameReplies ==
  ASSUME NEW l, NEW m, m.toClient = l.toClient
  PROVE  NoNewReply(l, m)
  BY Zenon DEF NoNewReply

\* Steps of the client that neither ask, nor send work, nor end a request.
LEMMA KeptRequests ==
  ASSUME IInv, Fewer(link, link'), NoNewReply(link, link'), UNCHANGED <<abandoned, callVars>>,
         phase # "idle", phase' # "idle", phase # "answer", phase' # "answer"
  PROVE  Requested'
  <1>1. Requested /\ UNCHANGED <<abandoned, asked, outcome, executed>>
    BY DEF IInv, callVars
  <1>2. Outcomes'
    BY <1>1, Zenon DEF Requested, Outcomes, Call
  <1>3. \A c : Executed(c)' <=> Executed(c)
    BY <1>1, Zenon DEF Executed
  <1>4. \A c \in Nat : Waits(link, c)' => Waits(link, c)
    BY Zenon DEF Fewer, Waits
  <1>5. Once(link)'
    BY <1>1, Zenon DEF Fewer, Once, Requested, InLink
  <1>6. \A k \in DOMAIN link'.toClient :
           link'.toClient[k].op \in Replies => Executed(link'.toClient[k].seq)
    BY <1>1, <1>3, Zenon DEF NoNewReply, Requested, InLink
  <1>7. InLink'
    <2>1. \A c \in Nat : Waits(link, c)' =>
             /\ c \in Call /\ outcome'[c] \in {"asked", "lost"} /\ ~Executed(c)'
             /\ c # asked'
      BY <1>1, <1>3, <1>4, Zenon DEF Requested, InLink
    <2>2. ~Executed(asked)'
      BY <1>1, Zenon DEF Requested, InLink, Executed
    <2>3. \A k \in DOMAIN link'.toClient :
             link'.toClient[k].op \in Replies =>
                 \E j \in DOMAIN executed' : executed'[j] = link'.toClient[k].seq
      BY <1>1, <1>6, Zenon DEF Executed
    <2>4. QED
      BY <1>5, <2>1, <2>2, <2>3, Zenon DEF InLink, Call, Executed
  <1>8. LeftBehind'
    BY <1>1, <1>3, <1>4, Zenon DEF Requested, LeftBehind, Call
  <1>9. QED
    BY <1>2, <1>7, <1>8 DEF Requested

----------------------------------------------------------------------------
(* The steps of the client.                                                *)

LEMMA Settling ==
  ASSUME IInv, phase # "idle", NEW result \in {"answered", "lost"}, Settle(result)
  PROVE  /\ asked \in Call /\ outcome[asked] = "asked"
         /\ outcome' \in [Call -> Outcome]
         /\ \A c \in Call : outcome'[c] = IF c = asked THEN result ELSE outcome[c]
         /\ Outcomes'
  <1>1. asked \in 0 .. Calls /\ asked > 0 /\ Calls \in Nat /\ outcome \in [Call -> Outcome]
    BY LinkAssumption DEF IInv, Types, Requested, Outcomes
  <1>2. asked \in Call
    BY <1>1 DEF Call
  <1>3. outcome[asked] = "asked"
    BY <1>2, Zenon DEF IInv, Requested, Outcomes
  <1>4. outcome' = [outcome EXCEPT ![asked] = result] /\ phase' = "idle" /\ asked' = asked /\ executed' = executed
    BY DEF Settle
  <1>5. \A c \in Call : outcome'[c] = IF c = asked THEN result ELSE outcome[c]
    BY <1>1, <1>4
  <1>6. outcome' \in [Call -> Outcome]
    BY <1>1, <1>4 DEF Outcome
  <1>7. \A c \in Call : outcome'[c] = "new" <=> c > asked
    <2>1. \A c \in Call : outcome[c] = "new" <=> c > asked
      BY DEF IInv, Requested, Outcomes
    <2>2. ~(asked > asked)
      BY <1>1
    <2>3. QED
      BY <1>5, <2>1, <2>2
  <1>8. \A c \in Call : outcome'[c] # "asked"
    BY <1>5 DEF IInv, Requested, Outcomes
  <1>9. \A k \in DOMAIN executed : executed[k] <= asked
    BY DEF IInv, Requested, Outcomes
  <1>10. Outcomes'
    BY <1>4, <1>7, <1>8, <1>9, Zenon DEF Outcomes, Call
  <1>11. QED
    BY <1>2, <1>3, <1>5, <1>6, <1>10

LEMMA SameConfig ==
  ASSUME config' = config
  PROVE  /\ Compatible' <=> Compatible
         /\ Configured' <=> Configured
  BY Zenon DEF Compatible, Configured, Granted

\* A connection that is dropped, and its request with it.
LEMMA DropStep ==
  ASSUME IInv, phase # "idle", Drop, Settle("lost"), config' = config, stops' = stops,
         disturbed' \in BOOLEAN, Compatible => disturbed'
  PROVE  IInv'
  <1>1. /\ link \in Link /\ abandoned \subseteq Link /\ config \in Configs /\ asked \in 0 .. Calls
        /\ stops \in 0 .. Stops /\ executed \in Seq(Call)
    BY DEF IInv, Types
  <1>2. link' = NoLink /\ client' = NoClient /\ abandoned' = abandoned \cup Dropped(link)
    BY DEF Drop
  <1>3. asked' = asked /\ executed' = executed /\ phase' = "idle"
    BY DEF Settle
  <1>4. NoLink \in Link /\ ~NoLink.open /\ ~NoLink.authed /\ NoLink.toServer = <<>> /\ NoLink.toClient = <<>>
    BY NoLinkTyped
  <1>5. \A m \in Dropped(link) : Left(link, m)
    BY <1>1, DroppedLink
  <1>6. Types'
    <2>1. outcome' \in [Call -> Outcome]'
      BY Settling, Zenon DEF Call
    <2>2. client' \in Client
      BY <1>2 DEF NoClient, Client, Dict, Work
    <2>3. abandoned' \subseteq Link
      BY <1>1, <1>2, <1>5, Zenon DEF Left
    <2>4. phase' \in Phase
      BY <1>3 DEF Phase
    <2>5. executed' \in Seq(Call)
      BY <1>1, <1>3
    <2>6. QED
      BY <1>1, <1>2, <1>3, <1>4, <2>1, <2>2, <2>3, <2>4, <2>5, Zenon DEF Types, Call
  <1>7. Session'
    BY <1>2, <1>3, <1>4, Zenon DEF Session, Closed1
  <1>8. Abandoned'
    <2>1. Known(NoLink)
      BY <1>4 DEF Known
    <2>2. ASSUME NEW m \in Dropped(link)
          PROVE  ~m.open /\ m.alive /\ m.toServer # <<>> /\ m.toClient = <<>> /\ Known(m)
      <3>1. Left(link, m) /\ Known(link)
        BY <1>5 DEF IInv, Abandoned
      <3>2. QED
        BY <3>1, Zenon DEF Left, Known
    <2>3. QED
      BY <1>2, <2>1, <2>2, Zenon DEF IInv, Abandoned, Known
  <1>9. Keyless'
    <2>1. \A m \in Dropped(link) : m.authed <=> link.authed
      BY <1>5 DEF Left
    <2>2. QED
      BY <1>2, <1>3, <1>4, <2>1, Zenon DEF IInv, Keyless
  <1>10. Requested'
    <2>1. \A c : Executed(c)' <=> Executed(c)
      BY <1>3, Zenon DEF Executed
    <2>2. InLink'
      <3>1. \A c \in Nat : ~Waits(NoLink, c)
        BY <1>4, NothingWaits
      <3>2. Once(NoLink) /\ DOMAIN NoLink.toClient = {}
        BY <1>4 DEF Once
      <3>3. QED
        BY <1>2, <1>3, <3>1, <3>2, Zenon DEF InLink, Waits, Once
    <2>3. \A c \in Nat : ~Waits(link, c)'
      BY <1>2, <1>4, NothingWaits, Zenon DEF Waits
    <2>4. \A m \in Dropped(link) : /\ Once(link) => Once(m)
                                   /\ \A c \in Nat : Waits(m, c) <=> Waits(link, c)
      BY <1>5, Zenon DEF Left, Once, Waits
    <2>5. \A c \in Call : outcome[c] \in {"asked", "lost"} => outcome'[c] = "lost"
      BY Settling DEF IInv, Requested, Outcomes
    <2>6. \A c \in Nat : Waits(link, c) => c \in Call /\ outcome'[c] = "lost" /\ ~Executed(c)
      BY <2>5 DEF IInv, Requested, InLink
    <2>7. \A l \in abandoned, c \in Nat : Waits(l, c) =>
             c \in Call /\ outcome'[c] = "lost" /\ ~Executed(c) /\ ~Waits(link, c)
      BY <2>5 DEF IInv, Requested, LeftBehind
    <2>8. \A l, m \in abandoned', c \in Nat : Waits(l, c) /\ Waits(m, c) => l = m
      <3>1. \A l, m \in Dropped(link) : l = m
        BY <1>1, DroppedLink
      <3>2. QED
        BY <1>2, <2>4, <2>7, <3>1, Zenon DEF IInv, Requested, LeftBehind
    <2>9. \A l \in abandoned' : Once(l)
      BY <1>2, <2>4, Zenon DEF IInv, Requested, LeftBehind, InLink
    <2>10. \A l \in abandoned', c \in Nat : Waits(l, c) => c \in Call /\ outcome'[c] = "lost" /\ ~Executed(c)
      BY <1>2, <2>4, <2>6, <2>7, Zenon
    <2>11. LeftBehind'
      <3>1. \A l \in abandoned' : Once(l) /\ \A c \in Nat : Waits(l, c) =>
               /\ c \in Call /\ outcome'[c] = "lost" /\ ~Executed(c)' /\ ~Waits(link, c)'
               /\ \A m \in abandoned' : Waits(m, c) => m = l
        BY <2>1, <2>3, <2>8, <2>9, <2>10, Zenon
      <3>2. QED
        BY <3>1 DEF LeftBehind, Call
    <2>12. QED
      BY <2>2, <2>11, Settling DEF Requested
  <1>11. Undisturbed'
    BY SameConfig, Zenon DEF Undisturbed
  <1>12. QED
    BY <1>6, <1>7, <1>8, <1>9, <1>10, <1>11 DEF IInv

\* Settling a request leaves what waits elsewhere alone.
LEMMA SettledRequests ==
  ASSUME IInv, phase # "idle", NEW result \in {"answered", "lost"}, Settle(result),
         UNCHANGED abandoned, Fewer(link, link'), NoNewReply(link, link'),
         result = "answered" => Executed(asked)
  PROVE  Requested'
  <1>1. asked' = asked /\ executed' = executed /\ phase' = "idle" /\ abandoned' = abandoned
    BY DEF Settle
  <1>2. \A c : Executed(c)' <=> Executed(c)
    BY <1>1, Zenon DEF Executed
  <1>3. \A c \in Nat : Waits(link, c)' => Waits(link, c)
    BY Zenon DEF Fewer, Waits
  <1>4. Once(link)'
    BY Zenon DEF Fewer, Once, IInv, Requested, InLink
  <1>5. \A k \in DOMAIN link'.toClient :
           link'.toClient[k].op \in Replies => Executed(link'.toClient[k].seq)
    BY Zenon DEF NoNewReply, IInv, Requested, InLink
  <1>6. \A c \in Call : outcome[c] = "lost" => outcome'[c] = "lost"
    BY Settling
  <1>7. \A c \in Nat : Waits(link, c)' => c \in Call /\ outcome'[c] \in {"asked", "lost"} /\ ~Executed(c)'
    BY <1>2, <1>3, Settling DEF IInv, Requested, InLink
  <1>8. InLink'
    <2>1. \A k \in DOMAIN link'.toClient :
             link'.toClient[k].op \in Replies =>
                 \E j \in DOMAIN executed' : executed'[j] = link'.toClient[k].seq
      BY <1>1, <1>5, Zenon DEF Executed
    <2>2. QED
      BY <1>1, <1>4, <1>7, <2>1, Zenon DEF InLink, Call, Executed
  <1>9. LeftBehind'
    <2>1. \A l \in abandoned' : Once(l) /\ \A c \in Nat : Waits(l, c) =>
             /\ c \in Call /\ outcome'[c] = "lost" /\ ~Executed(c)' /\ ~Waits(link, c)'
             /\ \A m \in abandoned' : Waits(m, c) => m = l
      BY <1>1, <1>2, <1>3, <1>6, Zenon DEF IInv, Requested, LeftBehind
    <2>2. QED
      BY <2>1 DEF LeftBehind, Call
  <1>10. QED
    BY <1>8, <1>9, Settling DEF Requested

LEMMA ConnectFailsStep ==
  ASSUME IInv, ConnectFails
  PROVE  IInv'
  <1>1. /\ phase = "connect" /\ Settle("lost") /\ disturbed' = TRUE
        /\ UNCHANGED <<config, link, abandoned, client, stops>>
    BY DEF ConnectFails
  <1>2. asked' = asked /\ executed' = executed /\ phase' = "idle"
    BY <1>1 DEF Settle
  <1>3. ~link.open /\ Closed1
    BY <1>1 DEF IInv, Session
  <1>4. Types'
    <2>1. outcome' \in [Call -> Outcome]'
      BY <1>1, Settling, Zenon DEF Call
    <2>2. QED
      BY <1>1, <1>2, <2>1, Zenon DEF IInv, Types, Call, Phase
  <1>5. Session'
    BY <1>1, <1>2, <1>3, Zenon DEF Session, Closed1
  <1>6. Abandoned' /\ Keyless'
    BY <1>1, <1>2, Zenon DEF IInv, Abandoned, Keyless, Known
  <1>7. Requested'
    <2>1. Fewer(link, link') /\ NoNewReply(link, link')
      BY <1>1, SameWaits, SameReplies
    <2>2. QED
      BY <1>1, <2>1, SettledRequests
  <1>8. Undisturbed'
    BY <1>1 DEF Undisturbed
  <1>9. QED
    BY <1>4, <1>5, <1>6, <1>7, <1>8 DEF IInv

LEMMA AskStep ==
  ASSUME IInv, Ask
  PROVE  IInv'
  <1>1. /\ phase = "idle" /\ asked < Calls /\ asked' = asked + 1
        /\ outcome' = [outcome EXCEPT ![asked + 1] = "asked"]
        /\ phase' = IF link.open THEN "ready" ELSE "connect"
        /\ UNCHANGED <<config, link, abandoned, client, executed, stops, disturbed>>
    BY DEF Ask, faultVars
  <1>2. /\ asked \in 0 .. Calls /\ Calls \in Nat /\ outcome \in [Call -> Outcome]
        /\ executed \in Seq(Call)
    BY LinkAssumption DEF IInv, Types
  <1>3. /\ asked' \in Call /\ asked' \in 0 .. Calls /\ asked' > 0
    BY <1>1, <1>2 DEF Call
  <1>4. \A c \in Call : outcome'[c] = IF c = asked' THEN "asked" ELSE outcome[c]
    BY <1>1, <1>2
  <1>5. outcome' \in [Call -> Outcome]
    BY <1>1, <1>2 DEF Outcome
  <1>6. /\ \A c \in Call : outcome[c] = "new" <=> c > asked
        /\ \A c \in Call : outcome[c] # "asked"
        /\ \A k \in DOMAIN executed : executed[k] <= asked
    BY <1>1 DEF IInv, Requested, Outcomes
  <1>7. outcome[asked'] = "new"
    BY <1>1, <1>2, <1>3, <1>6
  <1>8. \A k \in DOMAIN executed : executed[k] # asked' /\ executed[k] <= asked'
    <2>1. \A k \in DOMAIN executed : executed[k] \in Nat
      BY <1>2 DEF Call
    <2>2. QED
      BY <2>1, <1>1, <1>2, <1>6
  <1>9. Types'
    <2>1. phase' \in Phase
      BY <1>1 DEF Phase
    <2>2. QED
      BY <1>1, <1>3, <1>5, <2>1, Zenon DEF IInv, Types, Call
  <1>10. Session'
    <2>1. CASE link.open
      <3>1. phase' = "ready" /\ link'.open
        BY <1>1, <2>1
      <3>2. CASE Regular
        <4>1. Established /\ Quiet
          BY <1>1, <3>2 DEF Regular
        <4>2. Established' /\ Quiet'
          BY <1>1, <4>1, Zenon DEF Established, Quiet, Settled, G, Granted, SyncedDict
        <4>3. Regular'
          BY <1>1, <3>1, <3>2, <4>2 DEF Regular, AtReady
        <4>4. QED
          BY <3>1, <4>3 DEF Session
      <3>3. CASE Degraded
        BY <1>1, <3>1, <3>3, Zenon DEF Degraded, Session
      <3>4. QED
        BY <2>1, <3>2, <3>3 DEF IInv, Session
    <2>2. CASE ~link.open
      BY <1>1, <2>2, Zenon DEF IInv, Session, Closed1
    <2>3. QED
      BY <2>1, <2>2
  <1>11. Abandoned' /\ Keyless'
    BY <1>1, Zenon DEF IInv, Abandoned, Keyless, Known
  <1>12. Outcomes'
    <2>1. \A c \in Call : outcome'[c] = "new" <=> c > asked'
      BY <1>1, <1>2, <1>4, <1>6 DEF Call
    <2>2. \A c \in Call : outcome'[c] = "asked" <=> c = asked'
      BY <1>4, <1>6
    <2>3. phase' # "idle"
      BY <1>1
    <2>4. QED
      BY <1>1, <1>3, <1>8, <2>1, <2>2, <2>3, Zenon DEF Outcomes, Call
  <1>13. \A c \in Call : outcome[c] # "new" => c # asked' /\ outcome'[c] = outcome[c]
    BY <1>4, <1>7
  <1>14. \A c : Executed(c)' <=> Executed(c)
    BY <1>1, Zenon DEF Executed
  <1>15. InLink'
    <2>1. \A c \in Nat : Waits(link, c)' =>
             c \in Call /\ outcome'[c] \in {"asked", "lost"} /\ ~Executed(c)' /\ c # asked'
      <3>1. \A c \in Nat : Waits(link, c)' => Waits(link, c)
        BY <1>1, Zenon DEF Waits
      <3>2. QED
        BY <3>1, <1>13, <1>14 DEF IInv, Requested, InLink
    <2>2. ~Executed(asked)'
      BY <1>1, <1>8, Zenon DEF Executed
    <2>3. Once(link)'
      BY <1>1, Zenon DEF IInv, Requested, InLink, Once
    <2>4. \A k \in DOMAIN link'.toClient :
             link'.toClient[k].op \in Replies =>
                 \E j \in DOMAIN executed' : executed'[j] = link'.toClient[k].seq
      BY <1>1, Zenon DEF IInv, Requested, InLink, Executed
    <2>5. QED
      BY <2>1, <2>2, <2>3, <2>4, Zenon DEF InLink, Call, Executed
  <1>16. LeftBehind'
    <2>1. \A l \in abandoned' : Once(l) /\ \A c \in Nat : Waits(l, c) =>
             /\ c \in Call /\ outcome'[c] = "lost" /\ ~Executed(c)' /\ ~Waits(link, c)'
             /\ \A m \in abandoned' : Waits(m, c) => m = l
      <3>1. \A c \in Nat : Waits(link, c)' <=> Waits(link, c)
        BY <1>1, Zenon DEF Waits
      <3>2. \A l \in abandoned : Once(l) /\ \A c \in Nat : Waits(l, c) =>
             /\ c \in Call /\ outcome[c] = "lost" /\ ~Executed(c) /\ ~Waits(link, c)
             /\ \A m \in abandoned : Waits(m, c) => m = l
        BY DEF IInv, Requested, LeftBehind
      <3>3. abandoned' = abandoned
        BY <1>1
      <3>4. QED
        BY <3>1, <3>2, <3>3, <1>13, <1>14
    <2>2. QED
      BY <2>1 DEF LeftBehind, Call
  <1>17. Undisturbed'
    <2>1. \A c \in Call : outcome[c] # "lost" => outcome'[c] # "lost"
      BY <1>4
    <2>2. QED
      BY <1>1, <2>1, SameConfig, Zenon DEF IInv, Undisturbed, Call
  <1>18. QED
    BY <1>9, <1>10, <1>11, <1>12, <1>15, <1>16, <1>17 DEF IInv, Requested

\* A frame alone that is no work.
LEMMA LoneFrame ==
  ASSUME NEW l, NEW m, NEW f \in Frames, f.op \notin Work, m.toServer = <<f>>
  PROVE  Fewer(l, m) /\ \A c \in Nat : ~Waits(m, c)
  <1>1. DOMAIN m.toServer = {1} /\ m.toServer[1] = f
    OBVIOUS
  <1>2. QED
    BY <1>1, Zenon DEF Fewer, Waits, Once

LEMMA KnownAlone ==
  ASSUME NEW m, NEW f \in Frames, m.toServer = <<f>>, f.op \in Work \cup {"CAPS", "HELLO", "DICT_SYNC"}
  PROVE  Known(m)
  <1>1. DOMAIN m.toServer = {1} /\ m.toServer[1] = f /\ f.op # "AUTH_RESPONSE"
    BY DEF Work
  <1>2. QED
    BY <1>1, Zenon DEF Known
LEMMA KnownNone ==
  ASSUME NEW m, m.toServer = <<>>
  PROVE  Known(m)
  BY DEF Known

\* A connection before CAPS: authenticated, or refused for want of a key.
Ready1(l) ==
    /\ l \in Link /\ l.open /\ Untouched(l)
    /\ l.toServer = <<>> \/ (l.toServer = <<CapsFrame>> /\ config.wanted # {})
    /\ \/ config.psk /\ config.key = "none" /\ ~l.authed /\ l.toClient = <<Challenge>>
       \/ l.authed /\ l.toClient = <<>>
Negotiating(l) ==
    /\ link' \in Link /\ link'.open
    /\ link'.alive <=> l.alive
    /\ link'.authed <=> l.authed
    /\ link'.toClient = l.toClient
    /\ phase' \in {"ready", "caps"}
    /\ client' \in Client /\ ~client'.degraded
    /\ Known(link') /\ \A c \in Nat : ~Waits(link', c)
    /\ Fewer(link, link')
    /\ Regular'
LEMMA ClientTyped ==
  /\ NoClient \in Client /\ [NoClient EXCEPT !.seq = 1] \in Client
  /\ ~NoClient.degraded /\ ~[NoClient EXCEPT !.seq = 1].degraded
  <1>1. NoClient \in Client
    BY DEF NoClient, Client, Dict, Work
  <1>2. ~NoClient.degraded
    BY DEF NoClient
  <1>3. [NoClient EXCEPT !.seq = 1] \in Client
    BY <1>1 DEF Client
  <1>4. [NoClient EXCEPT !.seq = 1].degraded <=> NoClient.degraded
    BY <1>1, Zenon DEF Client
  <1>5. QED
    BY <1>1, <1>2, <1>3, <1>4, Zenon
LEMMA GrantedNothing == Granted({}) = {}
  BY DEF Granted
LEMMA NegotiateStep ==
  ASSUME Configured, config' = config, NEW l, Ready1(l), Negotiate(l)
  PROVE  Negotiating(l)
  <1>1. CapsFrame \in Frames /\ CapsFrame.op \notin Work /\ CapsFrame.op = "CAPS"
    BY FramesTyped DEF CapsFrame, Frame, Work
  <1>2. /\ NoClient \in Client /\ [NoClient EXCEPT !.seq = 1] \in Client
        /\ ~NoClient.degraded /\ ~[NoClient EXCEPT !.seq = 1].degraded
    BY ClientTyped
  <1>3. CASE config.wanted = {}
    <2>1. phase' = "ready" /\ link' = l /\ client' = NoClient /\ l.toServer = <<>>
      BY <1>3, Zenon DEF Negotiate, Ready1
    <2>2. Known(link') /\ (\A c \in Nat : ~Waits(link', c)) /\ Fewer(link, link')
      BY <2>1, NothingWaits, KnownNone
    <2>3. AtReady'
      <3>1. CASE l.authed /\ l.toClient = <<>>
        <4>1. G = {} /\ Settled = "none"
          BY <1>3, GrantedNothing DEF G, Settled
        <4>2. link'.authed /\ link'.caps = {} /\ link'.dict = "none" /\ ~link'.dictReady
          BY <2>1, <3>1, Zenon DEF Ready1, Untouched
        <4>3. client'.caps = {} /\ client'.dict = "none"
          BY <2>1 DEF NoClient
        <4>4. G' = {} /\ Settled' = "none"
          BY <4>1, Zenon DEF G, Granted, Settled, SyncedDict
        <4>5. Established'
          BY <4>2, <4>3, <4>4, Zenon DEF Established
        <4>6. Quiet'
          BY <2>1, <3>1 DEF Quiet
        <4>7. QED
          BY <4>5, <4>6 DEF AtReady
      <3>2. CASE config.psk /\ config.key = "none" /\ ~l.authed /\ l.toClient = <<Challenge>>
        <4>1. client'.caps = {} /\ client'.dict = "none"
          BY <2>1 DEF NoClient
        <4>2. Unheard'
          BY <1>3, <2>1, <3>2, <4>1, Zenon DEF Unheard, Ready1, Untouched, Challenge
        <4>3. QED
          BY <2>1, <4>2 DEF AtReady
      <3>3. QED
        BY <3>1, <3>2 DEF Ready1
    <2>4. Regular'
      BY <1>2, <2>1, <2>3 DEF Regular, Ready1
    <2>5. QED
      BY <1>2, <2>1, <2>2, <2>4, Zenon DEF Negotiating, Ready1
  <1>4. CASE config.wanted # {}
    <2>1. phase' = "caps" /\ client' = [NoClient EXCEPT !.seq = 1]
      BY <1>4, Zenon DEF Negotiate
    <2>2. /\ link' \in Link /\ SameEnd(l, link') /\ link'.toServer = <<CapsFrame>>
          /\ link'.toClient = l.toClient
      <3>1. CASE l.toServer # <<>>
        <4>1. link' = l
          BY <1>4, <3>1, Zenon DEF Negotiate
        <4>2. QED
          BY <3>1, <4>1, Zenon DEF Ready1, SameEnd
      <3>2. CASE l.toServer = <<>>
        <4>1. link' = Sent(l, CapsFrame)
          BY <1>4, <3>2, Zenon DEF Negotiate
        <4>2. WithSent(l, CapsFrame, link')
          BY <4>1, <1>1, SentLink DEF Ready1
        <4>3. Append(l.toServer, CapsFrame) = <<CapsFrame>>
          BY <3>2
        <4>4. QED
          BY <4>2, <4>3, Zenon DEF WithSent
      <3>3. QED
        BY <3>1, <3>2
    <2>3. Known(link') /\ (\A c \in Nat : ~Waits(link', c)) /\ Fewer(link, link')
      BY <1>1, <2>2, LoneFrame, KnownAlone
    <2>4. CapsFrame' = CapsFrame
      BY DEF CapsFrame
    <2>5. Untouched(link)' /\ ~link'.dictReady
      BY <2>2, Zenon DEF Ready1, Untouched, SameEnd
    <2>6. Refused(CapsFrame)' \/ (link'.authed /\ Sending(CapsFrame)')
      BY <2>2, <2>4, Zenon DEF Ready1, Refused, Sending, SameEnd, Challenge
    <2>7. AtCaps'
      <3>1. client'.caps = {} /\ client'.dict = "none" /\ client'.seq = 1
        BY <2>1 DEF NoClient
      <3>2. QED
        BY <1>4, <2>5, <2>6, <3>1, Zenon DEF AtCaps
    <2>8. Regular'
      BY <1>2, <2>1, <2>2, <2>7 DEF Regular, Ready1, SameEnd
    <2>9. QED
      BY <1>2, <2>1, <2>2, <2>3, <2>8, Zenon DEF Negotiating, Ready1, SameEnd
  <1>5. QED
    BY <1>3, <1>4

\* What a step before the request has to establish.
LEMMA HandshakeStep ==
  ASSUME IInv, UNCHANGED <<config, abandoned, callVars, faultVars>>,
         phase \notin {"idle", "answer"}, phase' \in Phase \ {"idle", "connect", "answer"},
         link' \in Link, link'.open, client' \in Client, Known(link'),
         link'.authed => link.authed \/ ~config.psk \/ config.key = "right",
         Fewer(link, link'), NoNewReply(link, link'),
         Regular' \/ Degraded',
         Compatible /\ ~disturbed => link'.alive /\ ~client'.degraded
  PROVE  IInv'
  <1>1. /\ config' = config /\ abandoned' = abandoned /\ asked' = asked /\ outcome' = outcome
        /\ executed' = executed /\ stops' = stops /\ disturbed' = disturbed
    BY DEF callVars, faultVars
  <1>2. Types'
    BY <1>1, Zenon DEF IInv, Types, Call
  <1>3. Session'
    BY DEF Session
  <1>4. Abandoned'
    BY <1>1, Zenon DEF IInv, Abandoned, Known
  <1>5. Keyless'
    BY <1>1, Zenon DEF IInv, Keyless
  <1>6. Requested'
    BY <1>1, KeptRequests
  <1>7. Undisturbed'
    BY <1>1, SameConfig, Zenon DEF IInv, Undisturbed, Call
  <1>8. QED
    BY <1>2, <1>3, <1>4, <1>5, <1>6, <1>7 DEF IInv

LEMMA ChallengeReply ==
  ASSUME NEW l, NEW m, m.toClient = <<>> \/ m.toClient = <<Challenge>>
  PROVE  NoNewReply(l, m)
  <1>1. Challenge.op \notin Replies
    BY DEF Challenge, Plain, Frame, Replies
  <1>2. CASE m.toClient = <<Challenge>>
    <2>1. DOMAIN m.toClient = {1} /\ m.toClient[1] = Challenge
      BY <1>2
    <2>2. QED
      BY <1>1, <2>1, Zenon DEF NoNewReply
  <1>3. CASE m.toClient = <<>>
    BY <1>3 DEF NoNewReply
  <1>4. QED
    BY <1>2, <1>3

LEMMA ConnectStep ==
  ASSUME IInv, Connect
  PROVE  IInv'
  <1>1. phase = "connect" /\ UNCHANGED <<config, abandoned, callVars, faultVars>>
    BY DEF Connect
  <1>2. Configured /\ config' = config
    BY <1>1, ConfigTyped DEF IInv, Types
  <1>3. PICK early \in EarlyChoices :
           IF config.key = "none" THEN Negotiate(Opened(early))
           ELSE phase' = "challenge" /\ link' = Opened(early) /\ client' = NoClient
    BY DEF Connect
  <1>4. early \in BOOLEAN /\ (early => config.key = "none" /\ config.wanted # {})
    BY <1>3, Zenon DEF EarlyChoices
  <1> DEFINE l == Opened(early)
  <1>5. Fresh(l, early)
    BY <1>2, <1>4, OpenedLink
  <1> HIDE DEF l
  <1>6. CASE config.key = "none"
    <2>1. l.toServer = <<>> \/ (l.toServer = <<CapsFrame>> /\ config.wanted # {})
      BY <1>4, <1>5, Zenon DEF Fresh
    <2>2. \/ config.psk /\ config.key = "none" /\ ~l.authed /\ l.toClient = <<Challenge>>
          \/ l.authed /\ l.toClient = <<>>
      BY <1>5, <1>6, Zenon DEF Fresh
    <2>3. Ready1(l)
      BY <1>5, <2>1, <2>2, Zenon DEF Fresh, Ready1
    <2>4. Negotiating(l)
      BY <1>2, <1>3, <1>6, <2>3, NegotiateStep DEF l
    <2>5. NoNewReply(link, link')
      BY <2>2, <2>4, ChallengeReply DEF Negotiating
    <2>6. /\ phase' \in Phase \ {"idle", "connect", "answer"} /\ phase \notin {"idle", "answer"}
          /\ link' \in Link /\ link'.open /\ client' \in Client /\ Known(link') /\ Fewer(link, link')
          /\ Regular' /\ link'.alive /\ ~client'.degraded
      BY <1>1, <1>5, <2>4 DEF Negotiating, Fresh, Phase
    <2>7. link'.authed => ~config.psk
      BY <1>5, <2>4, Zenon DEF Negotiating, Fresh
    <2>8. QED
      BY <1>1, <2>5, <2>6, <2>7, HandshakeStep, Zenon
  <1>7. CASE config.key # "none"
    <2>1. phase' = "challenge" /\ link' = l /\ client' = NoClient
      BY <1>3, <1>7 DEF l
    <2>2. l.toServer = <<>> /\ (l.toClient = <<Challenge>> \/ l.toClient = <<>>)
      BY <1>4, <1>5, <1>7, Zenon DEF Fresh
    <2>3. NoNewReply(link, link') /\ Fewer(link, link') /\ Known(link')
      BY <2>1, <2>2, NothingWaits, KnownNone, ChallengeReply
    <2>4. AtChallenge'
      <3>1. \/ config.psk /\ ~l.authed /\ l.toServer = <<>> /\ l.toClient = <<Challenge>>
            \/ ~config.psk /\ l.authed /\ l.toServer = <<>> /\ l.toClient = <<>>
        BY <1>5, <2>2, Zenon DEF Fresh
      <3>2. Untouched(link)'
        BY <1>5, <2>1, Zenon DEF Fresh, Untouched
      <3>3. QED
        BY <1>2, <1>7, <2>1, <3>1, <3>2, Zenon DEF AtChallenge, Arriving, Quiet, Challenge
    <2>5. Regular'
      BY <1>5, <2>1, <2>4, ClientTyped DEF Regular, Fresh
    <2>6. /\ phase' \in Phase \ {"idle", "connect", "answer"} /\ phase \notin {"idle", "answer"}
          /\ link' \in Link /\ link'.open /\ client' \in Client /\ link'.alive /\ ~client'.degraded
      BY <1>1, <1>5, <2>1, ClientTyped DEF Fresh, Phase
    <2>7. link'.authed => ~config.psk
      BY <1>5, <2>1, Zenon DEF Fresh
    <2>8. QED
      BY <1>1, <2>3, <2>5, <2>6, <2>7, HandshakeStep, Zenon
  <1>8. QED
    BY <1>6, <1>7

LEMMA InHandshake ==
  ASSUME IInv, phase \in {"challenge", "auth", "caps", "hello", "sync"}
  PROVE  /\ link.open /\ Regular /\ link \in Link /\ client \in Client /\ Configured
         /\ Compatible /\ ~disturbed => link.alive /\ ~client.degraded
  <1>1. link.open
    BY DEF IInv, Session
  <1>2. ~Degraded
    BY DEF Degraded
  <1>3. link \in Link /\ client \in Client /\ Configured
    BY ConfigTyped DEF IInv, Types
  <1>4. Compatible /\ ~disturbed => link.alive /\ ~client.degraded
    BY <1>1, Zenon DEF IInv, Undisturbed
  <1>5. QED
    BY <1>1, <1>2, <1>3, <1>4 DEF IInv, Session

\* The client takes one frame and sends the next.
Exchanged(f) ==
    /\ link' \in Link /\ SameEnd(link, link')
    /\ link'.toServer = <<f>> /\ link'.toClient = <<>>
LEMMA Exchange ==
  ASSUME link \in Link, NEW f \in Frames, NEW g \in Frames, Arriving(g), link' = Sent(Received(link), f)
  PROVE  Exchanged(f)
  <1>1. link.toServer = <<>> /\ link.toClient = <<g>> /\ link.toClient # <<>>
    BY DEF Arriving
  <1>2. WithReceived(link, Received(link))
    BY <1>1, ReceivedLink
  <1> DEFINE r == Received(link)
  <1> HIDE DEF r
  <1>3. r \in Link /\ SameEnd(link, r) /\ r.toServer = <<>> /\ r.toClient = <<>>
    BY <1>1, <1>2 DEF WithReceived, r
  <1>4. WithSent(r, f, link')
    BY <1>3, SentLink DEF r
  <1>5. Append(r.toServer, f) = <<f>>
    BY <1>3
  <1>6. QED
    BY <1>3, <1>4, <1>5, Zenon DEF WithSent, SameEnd, Exchanged

\* The client takes one frame and sends none.
Emptied == link' \in Link /\ SameEnd(link, link') /\ link'.toServer = <<>> /\ link'.toClient = <<>>
LEMMA Emptying ==
  ASSUME link \in Link, NEW g \in Frames, Arriving(g), link' = Received(link)
  PROVE  Emptied
  <1>1. link.toServer = <<>> /\ link.toClient = <<g>> /\ link.toClient # <<>>
    BY DEF Arriving
  <1>2. WithReceived(link, link')
    BY <1>1, ReceivedLink
  <1>3. QED
    BY <1>1, <1>2 DEF WithReceived, Emptied

LEMMA Emptiness ==
  ASSUME NEW l, NEW m, m.toServer = <<>>, m.toClient = <<>>
  PROVE  Known(m) /\ Fewer(l, m) /\ NoNewReply(l, m)
  BY NothingWaits, KnownNone DEF NoNewReply

LEMMA TakeChallengeStep ==
  ASSUME IInv, TakeChallenge
  PROVE  IInv'
  <1>1. /\ phase = "challenge" /\ phase' = "auth" /\ client' = client /\ link.toClient # <<>>
        /\ link' = Sent(Received(link), Response)
        /\ UNCHANGED <<config, abandoned, callVars, faultVars>>
    BY DEF TakeChallenge, Await, Expected, Arrived, Response
  <1>2. /\ link.open /\ Regular /\ link \in Link /\ client \in Client /\ Configured
        /\ Compatible /\ ~disturbed => link.alive /\ ~client.degraded
    BY <1>1, InHandshake
  <1>3. /\ config.psk /\ config.key # "none" /\ client = NoClient /\ Untouched(link)
        /\ ~link.authed /\ Arriving(Challenge)
    BY <1>1, <1>2, Zenon DEF Regular, AtChallenge, Quiet
  <1>4. Challenge \in Frames /\ Response \in Frames /\ Response.op = "AUTH_RESPONSE" /\ Response.op \notin Work
    BY <1>2, FramesTyped DEF Response, Plain, Frame, Work
  <1>5. Exchanged(Response)
    BY <1>1, <1>2, <1>3, <1>4, Exchange
  <1>6. Known(link')
    <2>1. DOMAIN link'.toServer = {1} /\ link'.toServer[1] = Response /\ Len(link'.toServer) = 1
      BY <1>5 DEF Exchanged
    <2>2. ~link'.authed
      BY <1>3, <1>5, Zenon DEF Exchanged, SameEnd
    <2>3. QED
      BY <1>4, <2>1, <2>2 DEF Known
  <1>7. Fewer(link, link') /\ NoNewReply(link, link')
    BY <1>4, <1>5, LoneFrame, ChallengeReply DEF Exchanged
  <1>8. AtAuth'
    <2>1. Untouched(link)' /\ ~link'.authed
      BY <1>3, <1>5, Zenon DEF Exchanged, Untouched, SameEnd
    <2>2. Sending(Response)'
      BY <1>5, Zenon DEF Exchanged, Sending, Response
    <2>3. QED
      BY <1>1, <1>3, <2>1, <2>2, Zenon DEF AtAuth
  <1>9. Regular' /\ link' \in Link /\ link'.open /\ (link'.alive <=> link.alive) /\ (link'.authed <=> link.authed)
    BY <1>1, <1>2, <1>5, <1>8 DEF Regular, Exchanged, SameEnd
  <1>10. phase' \in Phase \ {"idle", "connect", "answer"} /\ phase \notin {"idle", "answer"}
    BY <1>1 DEF Phase
  <1>11. QED
    BY <1>1, <1>2, <1>6, <1>7, <1>9, <1>10, HandshakeStep, Zenon

LEMMA TakeAuthOkStep ==
  ASSUME IInv, TakeAuthOk
  PROVE  IInv'
  <1>1. /\ phase = "auth" /\ link.toClient # <<>> /\ Negotiate(Received(link))
        /\ UNCHANGED <<config, abandoned, callVars, faultVars>>
    BY DEF TakeAuthOk, Await, Expected, Arrived
  <1>2. /\ link.open /\ Regular /\ link \in Link /\ client \in Client /\ Configured
        /\ Compatible /\ ~disturbed => link.alive /\ ~client.degraded
    BY <1>1, InHandshake
  <1>3. Untouched(link) /\ link.authed /\ config.key = "right" /\ Arriving(Plain("AUTH_OK", 0))
    BY <1>1, <1>2, Zenon DEF Regular, AtAuth, Gone, Quiet, Sending
  <1> DEFINE l == Received(link)
  <1>4. WithReceived(link, l)
    BY <1>1, <1>2, ReceivedLink
  <1> HIDE DEF l
  <1>5. l.toServer = <<>> /\ l.toClient = <<>>
    BY <1>3, <1>4 DEF WithReceived, Arriving
  <1>6. Ready1(l)
    BY <1>2, <1>3, <1>4, <1>5, Zenon DEF WithReceived, Ready1, SameEnd, Untouched
  <1>7. Negotiating(l)
    BY <1>1, <1>2, <1>6, NegotiateStep DEF l
  <1>8. NoNewReply(link, link')
    BY <1>5, <1>7, ChallengeReply DEF Negotiating
  <1>9. /\ phase' \in Phase \ {"idle", "connect", "answer"} /\ phase \notin {"idle", "answer"}
        /\ link' \in Link /\ link'.open /\ client' \in Client /\ Known(link') /\ Fewer(link, link')
        /\ Regular' /\ ~client'.degraded
    BY <1>1, <1>7 DEF Negotiating, Phase
  <1>10. Compatible /\ ~disturbed => link'.alive
    BY <1>2, <1>4, <1>7, Zenon DEF Negotiating, WithReceived, SameEnd
  <1>11. QED
    BY <1>1, <1>3, <1>8, <1>9, <1>10, HandshakeStep, Zenon

LEMMA SameSettled ==
  ASSUME config' = config
  PROVE  /\ G' = G /\ Settled' = Settled /\ SyncedDict' = SyncedDict
         /\ \A d, C : Codecs(d, C)' = Codecs(d, C)
  BY Zenon DEF G, Granted, Settled, SyncedDict, Codecs

\* Plain and LZ4 are read whatever the dictionary.
LEMMA SmallCodecs ==
  ASSUME NEW C, NEW codec \in Codecs("none", C)
  PROVE  codec \in {"plain", "lz4"} /\ codec \in Codec /\ \A d : Decodable(codec, d)
  BY DEF Codecs, Codec, Decodable

LEMMA TakeCapsOkStep ==
  ASSUME IInv, TakeCapsOk
  PROVE  IInv'
  <1> DEFINE granted == Head(link.toClient).caps
             g == Frame("CAPS_OK", 1, "plain", G)
  <1>1. /\ phase = "caps" /\ link.toClient # <<>> /\ Head(link.toClient).op = "CAPS_OK"
        /\ UNCHANGED <<config, abandoned, callVars, faultVars>>
    BY DEF TakeCapsOk, Await, Expected, Arrived, ExpectedOp
  <1>2. /\ link.open /\ Regular /\ link \in Link /\ client \in Client /\ Configured
        /\ Compatible /\ ~disturbed => link.alive /\ ~client.degraded
    BY <1>1, InHandshake
  <1>3. /\ ~link.dictReady /\ client.caps = {} /\ client.dict = "none" /\ Introduced /\ Arriving(g)
        /\ config.wanted # {}
    <2>1. ~Refused(CapsFrame)
      <3>1. Head(<<Challenge>>).op = "AUTH_CHALLENGE"
        BY DEF Challenge, Plain, Frame
      <3>2. QED
        BY <1>1, <3>1 DEF Refused
    <2>2. ~Sending(CapsFrame) /\ ~Gone
      BY <1>1 DEF Sending, Gone, Quiet
    <2>3. QED
      BY <1>1, <1>2, <2>1, <2>2, Zenon DEF Regular, AtCaps
  <1>4. G \in SUBSET Cap /\ g \in Frames
    <2>1. G \in SUBSET Cap
      BY <1>2, GrantedTyped DEF G, Configured, Config
    <2>2. QED
      BY <2>1 DEF Frames, Frame, Codec
  <1>5. granted = G
    BY <1>3 DEF Arriving, Frame
  <1>6. phase \notin {"idle", "answer"}
    BY <1>1
  <1>7. CASE "DICT" \in G
    <2>1. /\ phase' = "hello" /\ client' = [client EXCEPT !.caps = G, !.seq = 2]
          /\ \E codec \in Codecs("none", G) : link' = Sent(Received(link), Frame("HELLO", 2, codec, {}))
      BY <1>5, <1>7, Zenon DEF TakeCapsOk
    <2>2. PICK codec \in Codecs("none", G) : link' = Sent(Received(link), Frame("HELLO", 2, codec, {}))
      BY <2>1
    <2> DEFINE f == Frame("HELLO", 2, codec, {})
    <2>3. f \in Frames /\ f.op \notin Work /\ f.op = "HELLO"
      BY <2>2, SmallCodecs DEF Frames, Frame, Work
    <2>4. Exchanged(f)
      BY <1>2, <1>3, <1>4, <2>2, <2>3, Exchange
    <2>5. /\ client' \in Client /\ client'.caps = G /\ client'.dict = "none" /\ client'.seq = 2
      <3>1. client \in Client /\ G \in SUBSET Cap /\ 2 \in 0 .. 3 /\ client' = [client EXCEPT !.caps = G, !.seq = 2]
        BY <1>2, <1>4, <2>1
      <3>2. client' \in Client
        BY <3>1, Zenon DEF Client
      <3>3. client'.caps = G /\ client'.seq = 2 /\ client'.dict = client.dict
        BY <3>1, Zenon DEF Client
      <3>4. QED
        BY <1>3, <3>2, <3>3
    <2>6. client'.degraded <=> client.degraded
      BY <1>2, <2>1, Zenon DEF Client
    <2>7. Known(link') /\ Fewer(link, link') /\ NoNewReply(link, link')
      BY <2>3, <2>4, LoneFrame, KnownAlone, ChallengeReply DEF Exchanged
    <2>8. AtHello'
      <3>1. G' = G /\ Codecs("none", G)' = Codecs("none", G)
        BY <1>1, SameSettled
      <3>2. Introduced'
        BY <1>3, <2>4, <3>1, Zenon DEF Introduced, Exchanged, SameEnd, GrantedDict
      <3>3. ~link'.dictReady
        BY <1>3, <2>4, Zenon DEF Exchanged, SameEnd
      <3>4. Sending(f)'
        BY <2>4, Zenon DEF Sending, Exchanged
      <3>5. \E c \in Codecs("none", G)' : Sending(Frame("HELLO", 2, c, {}))'
        BY <2>2, <3>1, <3>4
      <3>6. QED
        BY <1>1, <1>3, <1>7, <2>5, <3>1, <3>2, <3>3, <3>5 DEF AtHello
    <2>9. /\ Regular' /\ link' \in Link /\ link'.open
          /\ (link'.alive <=> link.alive) /\ (link'.authed <=> link.authed)
      BY <1>2, <2>1, <2>4, <2>6, <2>8 DEF Regular, Exchanged, SameEnd
    <2>10. phase' \in Phase \ {"idle", "connect", "answer"}
      BY <2>1 DEF Phase
    <2>11. QED
      BY <1>1, <1>2, <1>6, <2>5, <2>6, <2>7, <2>9, <2>10, HandshakeStep, Zenon
  <1>8. CASE "DICT" \notin G
    <2>1. phase' = "ready" /\ client' = [client EXCEPT !.caps = G] /\ link' = Received(link)
      BY <1>5, <1>8, Zenon DEF TakeCapsOk
    <2>2. Emptied
      BY <1>2, <1>3, <1>4, <2>1, Emptying
    <2>3. client' \in Client /\ client'.caps = G /\ client'.dict = "none"
      BY <1>2, <1>3, <1>4, <2>1 DEF Client
    <2>4. client'.degraded <=> client.degraded
      BY <1>2, <2>1, Zenon DEF Client
    <2>5. Known(link') /\ Fewer(link, link') /\ NoNewReply(link, link')
      BY <2>2, Emptiness DEF Emptied
    <2>6. Established' /\ Quiet'
      <3>1. G' = G /\ Settled' = Settled
        BY <1>1, SameSettled
      <3>2. "ZSTD" \notin G /\ "ZSTD_V" \notin G
        BY <1>2, <1>8, GrantedTyped DEF G, Configured, Config
      <3>3. Settled = "none" /\ GrantedDict(G, "none") = "none"
        BY <1>8, <3>2 DEF Settled, GrantedDict
      <3>4. /\ link'.authed /\ link'.caps = G /\ link'.dict = "none" /\ ~link'.dictReady
        BY <1>3, <2>2, <3>3, Zenon DEF Introduced, Emptied, SameEnd
      <3>5. Established'
        BY <2>3, <3>1, <3>2, <3>3, <3>4, Zenon DEF Established
      <3>6. QED
        BY <2>2, <3>5 DEF Emptied, Quiet
    <2>7. /\ Regular' /\ link' \in Link /\ link'.open
          /\ (link'.alive <=> link.alive) /\ (link'.authed <=> link.authed)
      BY <1>2, <2>1, <2>2, <2>4, <2>6 DEF Regular, AtReady, Emptied, SameEnd
    <2>8. phase' \in Phase \ {"idle", "connect", "answer"}
      BY <2>1 DEF Phase
    <2>9. QED
      BY <1>1, <1>2, <1>6, <2>3, <2>4, <2>5, <2>7, <2>8, HandshakeStep, Zenon
  <1>9. QED
    BY <1>7, <1>8

\* Both ends come to the same dictionary.
LEMMA InstallStep ==
  ASSUME IInv, phase \in {"hello", "sync"}, config' = config, UNCHANGED faultVars,
         Install(Settled), NEW g \in Frames, Arriving(g),
         link.authed, link.caps = G, link.dict = Settled, link.dictReady, Settled # "none",
         client.caps = G, "ZSTD_V" \notin G /\ "ZSTD" \in G => config.clientTrains
  PROVE  IInv'
  <1>1. /\ link' = Received(link) /\ client' = [client EXCEPT !.dict = Settled] /\ phase' = "ready"
        /\ UNCHANGED <<config, abandoned, callVars, faultVars>>
    BY DEF Install
  <1>2. /\ link.open /\ Regular /\ link \in Link /\ client \in Client /\ Configured
        /\ Compatible /\ ~disturbed => link.alive /\ ~client.degraded
    BY <1>1, InHandshake
  <1>3. Emptied
    BY <1>1, <1>2, Emptying
  <1>4. Settled \in Dict
    BY DEF Settled, Dict, SyncedDict
  <1>5. client' \in Client /\ client'.caps = G /\ client'.dict = Settled
    BY <1>1, <1>2, <1>4 DEF Client
  <1>6. client'.degraded <=> client.degraded
    BY <1>1, <1>2, Zenon DEF Client
  <1>7. Known(link') /\ Fewer(link, link') /\ NoNewReply(link, link')
    BY <1>3, Emptiness DEF Emptied
  <1>8. Established' /\ Quiet'
    <2>1. G' = G /\ Settled' = Settled
      BY <1>1, SameSettled
    <2>2. /\ link'.authed /\ link'.caps = G /\ link'.dict = Settled /\ link'.dictReady
      BY <1>3, Zenon DEF Emptied, SameEnd
    <2>3. "ZSTD_V" \notin G /\ "ZSTD" \in G => config'.clientTrains
      BY <1>1
    <2>4. Established'
      BY <1>5, <2>1, <2>2, <2>3, Zenon DEF Established
    <2>5. QED
      BY <1>3, <2>4 DEF Emptied, Quiet
  <1>9. /\ Regular' /\ link' \in Link /\ link'.open
        /\ (link'.alive <=> link.alive) /\ (link'.authed <=> link.authed)
    BY <1>1, <1>2, <1>3, <1>6, <1>8 DEF Regular, AtReady, Emptied, SameEnd
  <1>10. phase' \in Phase \ {"idle", "connect", "answer"} /\ phase \notin {"idle", "answer"}
    BY <1>1 DEF Phase
  <1>11. QED
    BY <1>1, <1>2, <1>5, <1>6, <1>7, <1>9, <1>10, HandshakeStep, Zenon

LEMMA TakeHelloStep ==
  ASSUME IInv, TakeHello
  PROVE  IInv'
  <1>1. /\ phase = "hello" /\ link.toClient # <<>> /\ config' = config
    BY DEF TakeHello, Await, Expected, Arrived
  <1>2. /\ link.open /\ Regular /\ link \in Link /\ client \in Client /\ Configured
        /\ Compatible /\ ~disturbed => link.alive /\ ~client.degraded
    BY <1>1, InHandshake
  <1>3. /\ Introduced /\ "DICT" \in G /\ config.wanted # {} /\ link.dictReady
        /\ client.caps = G /\ client.dict = "none" /\ client.seq = 2
        /\ \E codec \in Codecs("none", G) : Arriving(Frame("HELLO", 2, codec, {}))
    <2>1. ~(\E codec \in Codecs("none", G) : Sending(Frame("HELLO", 2, codec, {}))) /\ ~Gone
      BY <1>1 DEF Sending, Gone, Quiet
    <2>2. QED
      BY <1>1, <1>2, <2>1, Zenon DEF Regular, AtHello
  <1>4. PICK codec \in Codecs("none", G) : Arriving(Frame("HELLO", 2, codec, {}))
    BY <1>3
  <1> DEFINE g == Frame("HELLO", 2, codec, {})
  <1>5. g \in Frames /\ Arriving(g)
    BY <1>4, SmallCodecs DEF Frames, Frame
  <1>6. /\ link.authed /\ link.caps = G /\ link.dict = GrantedDict(G, "none")
        /\ link.trained <=> "ZSTD_V" \in G
    BY <1>3 DEF Introduced
  <1> HIDE DEF g
  <1>7. CASE "ZSTD_V" \in G /\ config.clientTrains
    <2>1. /\ link' = Sent(Received(link), Plain("DICT_SYNC", 3)) /\ client' = [client EXCEPT !.seq = 3]
          /\ phase' = "sync" /\ UNCHANGED <<config, abandoned, callVars, faultVars>>
      BY <1>1, <1>3, <1>7, Zenon DEF TakeHello
    <2> DEFINE f == Plain("DICT_SYNC", 3)
    <2>2. f \in Frames /\ f.op \notin Work /\ f.op = "DICT_SYNC"
      BY DEF Frames, Plain, Frame, Work, Codec
    <2>3. Exchanged(f)
      BY <1>2, <1>5, <2>1, <2>2, Exchange
    <2>4. client' \in Client /\ client'.caps = G /\ client'.dict = "none" /\ client'.seq = 3
      <3>1. client \in Client /\ 3 \in 0 .. 3 /\ client' = [client EXCEPT !.seq = 3]
        BY <1>2, <2>1
      <3>2. client' \in Client
        BY <3>1, Zenon DEF Client
      <3>3. client'.caps = client.caps /\ client'.seq = 3 /\ client'.dict = client.dict
        BY <3>1, Zenon DEF Client
      <3>4. QED
        BY <1>3, <3>2, <3>3
    <2>5. client'.degraded <=> client.degraded
      BY <1>2, <2>1, Zenon DEF Client
    <2>6. Known(link') /\ Fewer(link, link') /\ NoNewReply(link, link')
      BY <2>2, <2>3, LoneFrame, KnownAlone, ChallengeReply DEF Exchanged
    <2>7. AtSync'
      <3>1. G' = G /\ config' = config
        BY <1>1, SameSettled
      <3>2. link.dict = "lz4_dict" /\ link.trained
        BY <1>6, <1>7 DEF GrantedDict
      <3>3. /\ link'.authed /\ link'.caps = G /\ link'.trained /\ link'.dictReady /\ link'.dict = "lz4_dict"
        BY <1>3, <1>6, <2>3, <3>2, Zenon DEF Exchanged, SameEnd
      <3>4. Sending(Plain("DICT_SYNC", 3))'
        BY <2>3, Zenon DEF Sending, Exchanged, Plain, Frame
      <3>5. QED
        BY <1>3, <1>7, <2>4, <3>1, <3>3, <3>4, Zenon DEF AtSync
    <2>8. /\ Regular' /\ link' \in Link /\ link'.open
          /\ (link'.alive <=> link.alive) /\ (link'.authed <=> link.authed)
      BY <1>2, <2>1, <2>3, <2>5, <2>7 DEF Regular, Exchanged, SameEnd
    <2>9. phase' \in Phase \ {"idle", "connect", "answer"} /\ phase \notin {"idle", "answer"}
      BY <1>1, <2>1 DEF Phase
    <2>10. QED
      BY <1>1, <1>2, <2>1, <2>4, <2>5, <2>6, <2>8, <2>9, HandshakeStep, Zenon
  <1>8. CASE "ZSTD_V" \notin G /\ "ZSTD" \in G /\ config.clientTrains
    <2>1. Install("zstd_dict")
      BY <1>3, <1>8, Zenon DEF TakeHello
    <2>2. Settled = "zstd_dict" /\ link.dict = "zstd_dict"
      BY <1>3, <1>6, <1>8 DEF Settled, GrantedDict
    <2>3. UNCHANGED faultVars
      BY <2>1 DEF Install
    <2>4. QED
      BY <1>1, <1>3, <1>5, <1>6, <1>8, <2>1, <2>2, <2>3, InstallStep
  <1>9. CASE "ZSTD_V" \notin G /\ "ZSTD" \in G /\ ~config.clientTrains
    <2>1. Drop /\ Settle("lost") /\ stops' = stops /\ disturbed' = disturbed
      BY <1>3, <1>9, Zenon DEF TakeHello, faultVars
    <2>2. config.peerTrains
      BY <1>2, <1>9, GrantedTyped DEF G, Configured, Config
    <2>3. ~config.sameZstd
      <3>1. config.sameZstd => (config.peerTrains <=> config.clientTrains)
        BY <1>2, Zenon DEF Configured
      <3>2. QED
        BY <1>9, <2>2, <3>1
    <2>4. ~Compatible
      BY <1>9, <2>3 DEF Compatible, G
    <2>5. disturbed' \in BOOLEAN
      BY <2>1, Zenon DEF IInv, Types
    <2>6. QED
      BY <1>1, <2>1, <2>4, <2>5, DropStep
  <1>10. CASE ~("ZSTD_V" \in G /\ config.clientTrains) /\ ~("ZSTD_V" \notin G /\ "ZSTD" \in G)
    <2>1. Install("lz4_dict")
      BY <1>3, <1>10, Zenon DEF TakeHello
    <2>2. Settled = "lz4_dict" /\ link.dict = "lz4_dict"
      BY <1>3, <1>6, <1>10 DEF Settled, GrantedDict
    <2>3. UNCHANGED faultVars
      BY <2>1 DEF Install
    <2>4. QED
      BY <1>1, <1>3, <1>5, <1>6, <1>10, <2>1, <2>2, <2>3, InstallStep
  <1>11. QED
    BY <1>7, <1>8, <1>9, <1>10

LEMMA TakeDictSyncOkStep ==
  ASSUME IInv, TakeDictSyncOk
  PROVE  IInv'
  <1>1. /\ phase = "sync" /\ link.toClient # <<>> /\ config' = config /\ Install(SyncedDict)
    BY DEF TakeDictSyncOk, Await, Expected, Arrived
  <1>2. /\ link.open /\ Regular /\ link \in Link /\ client \in Client /\ Configured
        /\ Compatible /\ ~disturbed => link.alive /\ ~client.degraded
    BY <1>1, InHandshake
  <1>3. /\ "ZSTD_V" \in G /\ config.clientTrains
        /\ link.authed /\ link.caps = G /\ link.dictReady /\ link.dict = SyncedDict
        /\ client.caps = G /\ Arriving(Plain("DICT_SYNC_OK", 3))
    <2>1. ~Sending(Plain("DICT_SYNC", 3)) /\ ~Gone
      BY <1>1 DEF Sending, Gone, Quiet
    <2>2. QED
      BY <1>1, <1>2, <2>1, Zenon DEF Regular, AtSync
  <1>4. "DICT" \in G
    BY <1>2, <1>3, GrantedTyped DEF G, Configured, Config
  <1>5. Settled = SyncedDict /\ SyncedDict # "none"
    BY <1>3, <1>4 DEF Settled, SyncedDict
  <1>6. Plain("DICT_SYNC_OK", 3) \in Frames
    BY DEF Frames, Plain, Frame, Codec
  <1>7. UNCHANGED faultVars
    BY <1>1 DEF Install
  <1>8. QED
    BY <1>1, <1>3, <1>5, <1>6, <1>7, InstallStep

----------------------------------------------------------------------------
(* The request itself.                                                     *)

\* A number that waits nowhere is put on its way.
LEMMA AskedWaits ==
  ASSUME NEW l \in Link, NEW m, NEW f \in Frames, m.toServer = Append(l.toServer, f),
         Once(l), ~Waits(l, f.seq)
  PROVE  Once(m) /\ \A c \in Nat : Waits(m, c) => Waits(l, c) \/ c = f.seq
  <1>1. l.toServer \in Seq(Frames)
    BY DEF Link
  <1>2. \A k \in DOMAIN m.toServer :
           \/ k \in DOMAIN l.toServer /\ m.toServer[k] = l.toServer[k]
           \/ k = Len(l.toServer) + 1 /\ m.toServer[k] = f
    BY <1>1
  <1>3. Once(m)
    BY <1>2, Zenon DEF Once, Waits
  <1>4. \A c \in Nat : Waits(m, c) => Waits(l, c) \/ c = f.seq
    BY <1>2, Zenon DEF Waits
  <1>5. QED
    BY <1>3, <1>4

LEMMA RequestStep ==
  ASSUME IInv, Request
  PROVE  IInv'
  <1>1. phase = "ready" /\ phase' = "answer" /\ UNCHANGED <<config, abandoned, callVars, faultVars>>
    BY DEF Request
  <1>2. /\ config' = config /\ abandoned' = abandoned /\ asked' = asked /\ outcome' = outcome
        /\ executed' = executed /\ stops' = stops /\ disturbed' = disturbed
    BY <1>1 DEF callVars, faultVars
  <1>3. PICK op \in Requests, codec \in Codecs(client.dict, client.caps) :
           link' = Sent(link, Frame(op, asked, codec, {})) /\ client' = [client EXCEPT !.op = op]
    BY DEF Request
  <1> DEFINE f == Frame(op, asked, codec, {})
  <1>4. /\ link \in Link /\ client \in Client /\ asked \in 0 .. Calls /\ Calls \in Nat /\ Configured
        /\ outcome \in [Call -> Outcome]
    BY ConfigTyped, LinkAssumption DEF IInv, Types
  <1>5. link.open /\ (Regular \/ Degraded)
    BY <1>1 DEF IInv, Session
  <1>6. asked > 0 /\ asked \in Call /\ asked \in Nat
    BY <1>1, <1>4 DEF IInv, Requested, Outcomes, Call
  <1>7. op \in Work /\ codec \in Codec /\ (op = "READ_BATCH" => "BATCH" \in client.caps)
    <2>1. op \in Work /\ (op = "READ_BATCH" => "BATCH" \in client.caps)
      BY <1>3 DEF Requests, Work
    <2>2. client.dict \in Dict /\ client.caps \in SUBSET Cap
      BY <1>4 DEF Client
    <2>3. QED
      BY <1>3, <2>1, <2>2, CodecsTyped
  <1>8. f \in Frames /\ f.op = op /\ f.seq = asked /\ f.codec = codec
    BY <1>6, <1>7 DEF Frames, Frame
  <1> HIDE DEF f
  <1>9. WithSent(link, f, link')
    BY <1>3, <1>4, <1>8, SentLink DEF f
  <1>10. client' \in Client /\ client'.caps = client.caps /\ client'.dict = client.dict /\ client'.op = op
    BY <1>3, <1>4, <1>7 DEF Client
  <1>11. client'.degraded <=> client.degraded
    BY <1>3, <1>4, Zenon DEF Client
  <1>12. Types'
    BY <1>1, <1>2, <1>9, <1>10, Zenon DEF IInv, Types, Call, Phase, WithSent
  <1>13. ASSUME Regular
         PROVE  Session' /\ Known(link')
    <2>1. AtReady
      BY <1>1, <1>13 DEF Regular
    <2>2. link.toServer = <<>>
      BY <2>1 DEF AtReady, Quiet
    <2>3. link'.toServer = <<f>>
      BY <1>9, <2>2 DEF WithSent
    <2>4. Request1(codec)' = f
      BY <1>2, <1>10 DEF Request1, Frame, f
    <2>5. G' = G /\ Settled' = Settled /\ \A d, C : Codecs(d, C)' = Codecs(d, C)
      BY <1>2, SameSettled
    <2>6. ASSUME Established /\ Quiet
          PROVE  Regular'
      <3>1. client.caps = G /\ client.dict = Settled
        BY <2>6 DEF Established
      <3>2. Established'
        BY <1>2, <1>9, <1>10, <2>5, <2>6, Zenon DEF Established, WithSent, SameEnd
      <3>3. Grantable'
        BY <1>7, <1>10, <2>5, <3>1 DEF Grantable
      <3>4. codec \in Codecs(Settled, G)'
        BY <1>3, <2>5, <3>1, Zenon
      <3>5. Sending(Request1(codec))'
        BY <1>9, <2>3, <2>4, <2>6, Zenon DEF Sending, WithSent, Quiet
      <3>6. AtAnswer'
        BY <3>2, <3>3, <3>4, <3>5 DEF AtAnswer
      <3>7. QED
        BY <1>1, <1>5, <1>9, <1>11, <1>13, <3>6 DEF Regular, WithSent, SameEnd
    <2>7. ASSUME Unheard
          PROVE  Regular'
      <3>1. codec = "plain"
        BY <1>3, <2>7 DEF Unheard, Codecs
      <3>2. Request1("plain")' = f
        BY <2>4, <3>1
      <3>3. Unheard'
        BY <1>2, <1>9, <1>10, <2>7, Zenon DEF Unheard, Untouched, WithSent, SameEnd, Challenge
      <3>4. Refused(Request1("plain"))'
        BY <2>3, <3>2, <3>3, Zenon DEF Refused, Unheard, Challenge
      <3>5. AtAnswer'
        BY <3>3, <3>4 DEF AtAnswer
      <3>6. QED
        BY <1>1, <1>5, <1>9, <1>11, <1>13, <3>5 DEF Regular, WithSent, SameEnd
    <2>8. Regular'
      BY <2>1, <2>2, <2>6, <2>7 DEF AtReady
    <2>9. Known(link')
      BY <1>7, <1>8, <2>3, KnownAlone
    <2>10. Session'
      BY <1>1, <2>8 DEF Session, Regular
    <2>11. QED
      BY <2>9, <2>10
  <1>14. ASSUME Degraded
         PROVE  Session' /\ Known(link')
    <2>1. codec = "plain"
      BY <1>3, <1>14 DEF Degraded, Codecs
    <2>2. link.toServer \in Seq(Frames)
      BY <1>4 DEF Link
    <2>3. \A k \in DOMAIN link'.toServer :
             link'.toServer[k].op \in Work \cup {"CAPS"} /\ link'.toServer[k].codec = "plain"
      <3>1. \A k \in DOMAIN link'.toServer :
               link'.toServer[k] = f \/ (k \in DOMAIN link.toServer /\ link'.toServer[k] = link.toServer[k])
        BY <1>9, <2>2 DEF WithSent
      <3>2. \A k \in DOMAIN link.toServer :
               link.toServer[k].op \in Work \cup {"CAPS"} /\ link.toServer[k].codec = "plain"
        BY <1>14 DEF Degraded
      <3>3. f.op \in Work \cup {"CAPS"} /\ f.codec = "plain"
        BY <1>7, <1>8, <2>1
      <3>4. QED
        BY <3>1, <3>2, <3>3
    <2>4. Known(link')
      BY <2>3 DEF Known, Work
    <2>5. \A k \in DOMAIN link'.toClient : link'.toClient[k].codec \in {"plain", "lz4"}
      BY <1>9, <1>14, Zenon DEF Degraded, WithSent
    <2>6. /\ link'.open /\ client'.degraded /\ client'.caps = {} /\ client'.dict = "none" /\ ~link'.dictReady
      BY <1>9, <1>10, <1>11, <1>14, Zenon DEF Degraded, WithSent, SameEnd
    <2>7. Degraded'
      BY <1>1, <2>3, <2>5, <2>6, Zenon DEF Degraded, Work
    <2>8. QED
      BY <1>1, <2>4, <2>6, <2>7 DEF Session
  <1>15. Session' /\ Known(link')
    BY <1>5, <1>13, <1>14
  <1>16. Abandoned'
    BY <1>2, <1>15, Zenon DEF IInv, Abandoned, Known
  <1>17. Keyless'
    BY <1>2, <1>9, Zenon DEF IInv, Keyless, WithSent, SameEnd
  <1>18. Outcomes'
    BY <1>1, <1>2, Zenon DEF IInv, Requested, Outcomes, Call
  <1>19. ~Executed(asked) /\ outcome[asked] = "asked" /\ ~Waits(link, asked) /\ Once(link)
    BY <1>1, <1>6 DEF IInv, Requested, Outcomes, InLink
  <1>20. Once(link') /\ \A c \in Nat : Waits(link', c) => Waits(link, c) \/ c = asked
    BY <1>4, <1>8, <1>9, <1>19, AskedWaits DEF WithSent
  <1>21. \A c : Executed(c)' <=> Executed(c)
    BY <1>2, Zenon DEF Executed
  <1>22. InLink'
    <2>1. \A c \in Nat : Waits(link, c)' => Waits(link, c) \/ c = asked
      BY <1>20, Zenon DEF Waits
    <2>2. \A c \in Nat : Waits(link, c)' => c \in Call /\ outcome'[c] \in {"asked", "lost"} /\ ~Executed(c)'
      BY <1>2, <1>6, <1>19, <1>21, <2>1 DEF IInv, Requested, InLink
    <2>3. Once(link)'
      BY <1>20, Zenon DEF Once
    <2>4. \A k \in DOMAIN link'.toClient :
             link'.toClient[k].op \in Replies =>
                 \E j \in DOMAIN executed' : executed'[j] = link'.toClient[k].seq
      BY <1>2, <1>9, Zenon DEF IInv, Requested, InLink, Executed, WithSent
    <2>5. QED
      BY <1>1, <2>2, <2>3, <2>4, Zenon DEF InLink, Call, Executed
  <1>23. LeftBehind'
    <2>1. \A l \in abandoned : Once(l) /\ \A c \in Nat : Waits(l, c) =>
             /\ c \in Call /\ outcome[c] = "lost" /\ ~Executed(c) /\ ~Waits(link, c) /\ c # asked
             /\ \A m \in abandoned : Waits(m, c) => m = l
      BY <1>19 DEF IInv, Requested, LeftBehind
    <2>2. \A c \in Nat : Waits(link, c)' => Waits(link, c) \/ c = asked
      BY <1>20, Zenon DEF Waits
    <2>3. \A l \in abandoned' : Once(l) /\ \A c \in Nat : Waits(l, c) =>
             /\ c \in Call /\ outcome'[c] = "lost" /\ ~Executed(c)' /\ ~Waits(link, c)'
             /\ \A m \in abandoned' : Waits(m, c) => m = l
      BY <1>2, <1>21, <2>1, <2>2
    <2>4. QED
      BY <2>3 DEF LeftBehind, Call
  <1>24. Undisturbed'
    BY <1>2, <1>9, <1>11, SameConfig, Zenon DEF IInv, Undisturbed, Call, WithSent, SameEnd
  <1>25. QED
    BY <1>12, <1>15, <1>16, <1>17, <1>18, <1>22, <1>23, <1>24 DEF IInv, Requested

----------------------------------------------------------------------------
(* Waits that end.                                                         *)

\* What leaves in a codec both ends have come to is read, unless it is zstd
\* that was not verified.
LEMMA SettledDecodable ==
  ASSUME NEW codec \in Codecs(Settled, G)
  PROVE  Decodable(codec, Settled) \/ (codec = "zstd_dict" /\ ~config.sameZstd)
  BY DEF Codecs, Settled, SyncedDict, Decodable

LEMMA SettledFits ==
  ASSUME Compatible, NEW codec \in Codecs(Settled, G)
  PROVE  Decodable(codec, Settled)
  <1>1. CASE config.sameZstd
    BY <1>1, SettledDecodable
  <1>2. CASE ~config.sameZstd
    <2>1. "ZSTD" \in G => "ZSTD_V" \in G
      BY <1>2 DEF Compatible, G
    <2>2. Settled # "zstd_dict"
      BY <2>1 DEF Settled, SyncedDict
    <2>3. codec # "zstd_dict"
      BY <2>2 DEF Codecs
    <2>4. QED
      BY <2>3, SettledDecodable
  <1>3. QED
    BY <1>1, <1>2

LEMMA InAnswer ==
  ASSUME IInv, phase = "answer"
  PROVE  link.open /\ link \in Link /\ client \in Client /\ Configured /\ (AtAnswer \/ Degraded)
         /\ asked > 0 /\ asked \in Call
         /\ (Compatible /\ ~disturbed => link.alive /\ ~client.degraded)
  <1>1. link.open
    BY DEF IInv, Session
  <1>2. AtAnswer \/ Degraded
    BY DEF IInv, Session, Regular
  <1>3. link \in Link /\ client \in Client /\ Configured /\ asked \in 0 .. Calls /\ Calls \in Nat
    BY ConfigTyped, LinkAssumption DEF IInv, Types
  <1>4. asked > 0
    BY DEF IInv, Requested, Outcomes
  <1>5. Compatible /\ ~disturbed => link.alive /\ ~client.degraded
    BY <1>1, Zenon DEF IInv, Undisturbed
  <1>6. QED
    BY <1>1, <1>2, <1>3, <1>4, <1>5 DEF Call

\* Between ends that fit, undisturbed, the frame that is waited for is on its
\* way or the peer is about to send it.
Progressing ==
    /\ link.toClient # <<>> => Expected
    /\ link.toClient = <<>> => link.toServer # <<>> /\ link.alive
LEMMA NoBreak ==
  ASSUME IInv, Waiting, Compatible, ~disturbed
  PROVE  Progressing
  <1>1. phase \in {"challenge", "auth", "caps", "hello", "sync", "answer"}
    BY DEF IInv, Types, Phase, Waiting
  <1>2. \A codec : codec \in {"plain", "lz4"} => \A d : Decodable(codec, d)
    BY DEF Decodable
  <1>3. ~(config.psk /\ config.key = "none")
    BY DEF Compatible
  <1>4. \A f : Arriving(f) => link.toClient # <<>> /\ Head(link.toClient) = f
    BY DEF Arriving
  <1>5. \A f : Sending(f) => link.toClient = <<>> /\ link.toServer # <<>>
    BY DEF Sending
  <1>6. CASE phase = "challenge"
    <2>1. AtChallenge /\ link.alive
      BY <1>6, InHandshake DEF Regular
    <2>2. Arriving(Challenge)
      BY <2>1 DEF AtChallenge, Compatible
    <2>3. Expected
      BY <1>2, <1>4, <1>6, <2>2 DEF Expected, Arrived, Correlated, ExpectedSeq, ExpectedOp, Challenge, Plain, Frame, Waiting
    <2>4. QED
      BY <1>4, <2>2, <2>3 DEF Progressing
  <1>7. CASE phase = "auth"
    <2>1. AtAuth /\ link.alive
      BY <1>7, InHandshake DEF Regular
    <2>2. Sending(Response) \/ Arriving(Plain("AUTH_OK", 0))
      BY <2>1 DEF AtAuth, Gone
    <2>3. Arriving(Plain("AUTH_OK", 0)) => Expected
      BY <1>2, <1>4, <1>7 DEF Expected, Arrived, Correlated, ExpectedSeq, ExpectedOp, Plain, Frame, Waiting
    <2>4. QED
      BY <1>4, <1>5, <2>1, <2>2, <2>3 DEF Progressing
  <1>8. CASE phase = "caps"
    <2>1. AtCaps /\ link.alive
      BY <1>8, InHandshake DEF Regular
    <2>2. Sending(CapsFrame) \/ Arriving(Frame("CAPS_OK", 1, "plain", G))
      BY <1>3, <2>1 DEF AtCaps, Gone, Refused
    <2>3. Arriving(Frame("CAPS_OK", 1, "plain", G)) => Expected
      BY <1>2, <1>4, <1>8, <2>1 DEF AtCaps, Expected, Arrived, Correlated, ExpectedSeq, ExpectedOp, Frame, Waiting
    <2>4. QED
      BY <1>4, <1>5, <2>1, <2>2, <2>3 DEF Progressing
  <1>9. CASE phase = "hello"
    <2>1. AtHello /\ link.alive
      BY <1>9, InHandshake DEF Regular
    <2>2. PICK codec \in Codecs("none", G) :
             Sending(Frame("HELLO", 2, codec, {})) \/ Arriving(Frame("HELLO", 2, codec, {}))
      BY <2>1 DEF AtHello, Gone
    <2>3. codec \in {"plain", "lz4"}
      BY <2>2, SmallCodecs
    <2>4. Arriving(Frame("HELLO", 2, codec, {})) => Expected
      BY <1>2, <1>4, <1>9, <2>1, <2>3 DEF AtHello, Expected, Arrived, Correlated, ExpectedSeq, ExpectedOp, Frame, Waiting
    <2>5. QED
      BY <1>4, <1>5, <2>1, <2>2, <2>4 DEF Progressing
  <1>10. CASE phase = "sync"
    <2>1. AtSync /\ link.alive
      BY <1>10, InHandshake DEF Regular
    <2>2. Sending(Plain("DICT_SYNC", 3)) \/ Arriving(Plain("DICT_SYNC_OK", 3))
      BY <2>1 DEF AtSync, Gone
    <2>3. Arriving(Plain("DICT_SYNC_OK", 3)) => Expected
      BY <1>2, <1>4, <1>10, <2>1 DEF AtSync, Expected, Arrived, Correlated, ExpectedSeq, ExpectedOp, Plain, Frame, Waiting
    <2>4. QED
      BY <1>4, <1>5, <2>1, <2>2, <2>3 DEF Progressing
  <1>11. CASE phase = "answer"
    <2>1. AtAnswer /\ link.alive /\ client \in Client
      BY <1>11, InAnswer DEF Degraded
    <2>2. /\ Established
          /\ \E codec \in Codecs(Settled, G) : Sending(Request1(codec)) \/ Arriving(Answer1(codec))
      BY <1>3, <2>1 DEF AtAnswer, Gone, Unheard
    <2>3. PICK codec \in Codecs(Settled, G) : Sending(Request1(codec)) \/ Arriving(Answer1(codec))
      BY <2>2
    <2>4. Decodable(codec, client.dict)
      BY <2>2, <2>3, SettledFits DEF Established
    <2>5. Arriving(Answer1(codec)) => Expected
      BY <1>4, <1>11, <2>4 DEF Expected, Arrived, Correlated, ExpectedSeq, ExpectedOp, Answer1, Frame, Waiting
    <2>6. QED
      BY <1>4, <1>5, <2>1, <2>3, <2>5 DEF Progressing
  <1>12. QED
    BY <1>1, <1>6, <1>7, <1>8, <1>9, <1>10, <1>11

LEMMA NotBroken ==
  ASSUME IInv, Broken, Compatible
  PROVE  disturbed
  <1> SUFFICES ASSUME ~disturbed
               PROVE  FALSE
    OBVIOUS
  <1>1. Waiting
    BY DEF Broken
  <1>2. Progressing
    BY <1>1, NoBreak
  <1>3. CASE link.toClient = <<>>
    BY <1>2, <1>3 DEF Broken, Progressing
  <1>4. CASE link.toClient # <<>>
    <2>1. Expected /\ Arrived
      BY <1>2, <1>4, Zenon DEF Progressing, Expected
    <2>2. QED
      BY <1>4, <2>1, Zenon DEF Broken
  <1>5. QED
    BY <1>3, <1>4

LEMMA FailingSteps ==
  ASSUME IInv, Timeout \/ Fail \/ DegradeFails
  PROVE  IInv'
  <1>1. phase # "idle"
    BY DEF Timeout, Fail, DegradeFails, Broken, Waiting
  <1>2. Drop /\ Settle("lost") /\ config' = config /\ stops' = stops
    BY DEF Timeout, Fail, DegradeFails, faultVars
  <1>3. disturbed' \in BOOLEAN /\ (Compatible => disturbed')
    <2>1. CASE Timeout \/ DegradeFails
      BY <2>1, Zenon DEF Timeout, DegradeFails
    <2>2. CASE Fail
      <3>1. disturbed' = disturbed /\ disturbed \in BOOLEAN /\ Broken
        BY <2>2, Zenon DEF Fail, faultVars, IInv, Types
      <3>2. Compatible => disturbed
        BY <3>1, NotBroken
      <3>3. QED
        BY <3>1, <3>2, Zenon
    <2>3. QED
      BY <2>1, <2>2
  <1>4. QED
    BY <1>1, <1>2, <1>3, DropStep, Zenon

\* A degraded connection that gave one frame.
LEMMA DegradedReceives ==
  ASSUME Degraded, link \in Link, link.toClient # <<>>, link' = Received(link), client' = client, phase' = "idle"
  PROVE  Degraded'
  <1>1. WithReceived(link, link')
    BY ReceivedLink
  <1>2. link.toClient \in Seq(Frames)
    BY DEF Link
  <1>3. \A k \in DOMAIN link'.toClient : link'.toClient[k].codec \in {"plain", "lz4"}
    <2>1. \A k \in DOMAIN link'.toClient :
             k + 1 \in DOMAIN link.toClient /\ link'.toClient[k] = link.toClient[k + 1]
      BY <1>1, <1>2 DEF WithReceived
    <2>2. QED
      BY <2>1 DEF Degraded
  <1>4. /\ link'.open /\ client'.degraded /\ client'.caps = {} /\ client'.dict = "none"
        /\ phase' \in {"idle", "ready", "answer"} /\ ~link'.dictReady
    BY <1>1, Zenon DEF Degraded, WithReceived, SameEnd
  <1>5. \A k \in DOMAIN link'.toServer :
           link'.toServer[k].op \in Work \cup {"CAPS"} /\ link'.toServer[k].codec = "plain"
    BY <1>1, Zenon DEF Degraded, WithReceived
  <1>6. QED
    BY <1>3, <1>4, <1>5, Zenon DEF Degraded, Work

\* The end of a wait for an answer that leaves the connection in use.
LEMMA AnswerStep ==
  ASSUME IInv, phase = "answer", Arrived, link' = Received(link),
         NEW result \in {"answered", "lost"}, Settle(result),
         UNCHANGED <<config, abandoned, client, faultVars>>,
         result = "answered" => Executed(asked),
         result = "lost" => (Compatible => disturbed),
         Regular' \/ Degraded'
  PROVE  IInv'
  <1>1. /\ config' = config /\ abandoned' = abandoned /\ client' = client /\ stops' = stops /\ disturbed' = disturbed
        /\ asked' = asked /\ executed' = executed /\ phase' = "idle"
    BY DEF Settle, faultVars
  <1>2. link.open /\ link \in Link /\ link.toClient # <<>>
    BY InAnswer DEF Arrived
  <1>3. WithReceived(link, link')
    BY <1>2, ReceivedLink
  <1>4. link' \in Link /\ link'.open /\ (link'.alive <=> link.alive) /\ (link'.authed <=> link.authed)
        /\ link'.toServer = link.toServer
    BY <1>2, <1>3, Zenon DEF WithReceived, SameEnd
  <1>5. outcome' \in [Call -> Outcome] /\ \A c \in Call : outcome'[c] = IF c = asked THEN result ELSE outcome[c]
    BY Settling
  <1>6. Types'
    <2>1. outcome' \in [Call -> Outcome]' /\ phase' \in Phase
      BY <1>1, <1>5 DEF Call, Phase
    <2>2. QED
      BY <1>1, <1>4, <2>1, Zenon DEF IInv, Types, Call
  <1>7. Session'
    BY <1>1, <1>4 DEF Session
  <1>8. Abandoned' /\ Keyless'
    BY <1>1, <1>4, Zenon DEF IInv, Abandoned, Keyless, Known
  <1>9. Requested'
    <2>1. Fewer(link, link') /\ NoNewReply(link, link')
      BY <1>2, <1>3, <1>4, SameWaits, TailReplies DEF WithReceived
    <2>2. QED
      BY <1>1, <2>1, SettledRequests
  <1>10. Undisturbed'
    <2>1. Compatible /\ ~disturbed => \A c \in Call : outcome'[c] # "lost"
      BY <1>2, <1>5 DEF IInv, Undisturbed
    <2>2. Compatible /\ ~disturbed => link.alive /\ ~client.degraded
      BY InAnswer
    <2>3. QED
      BY <1>1, <1>4, <2>1, <2>2, SameConfig, Zenon DEF Undisturbed, Call
  <1>11. QED
    BY <1>6, <1>7, <1>8, <1>9, <1>10 DEF IInv

LEMMA TakeAnswerStep ==
  ASSUME IInv, TakeAnswer
  PROVE  IInv'
  <1>1. /\ phase = "answer" /\ Expected /\ Arrived /\ link' = Received(link) /\ Settle("answered")
        /\ UNCHANGED <<config, abandoned, client, faultVars>>
    BY DEF TakeAnswer, Await, Expected
  <1>2. /\ link.open /\ link \in Link /\ client \in Client /\ (AtAnswer \/ Degraded)
    BY <1>1, InAnswer
  <1>3. /\ link.toClient # <<>> /\ Head(link.toClient).op = ReplyOf(client.op)
        /\ Head(link.toClient).seq = asked
    BY <1>1 DEF Expected, Arrived, Correlated, ExpectedOp, ExpectedSeq
  <1>4. Executed(asked)
    <2>1. ReplyOf(client.op) \in Replies
      BY <1>2 DEF Client, Work, ReplyOf, Replies
    <2>2. link.toClient \in Seq(Frames)
      BY <1>2 DEF Link
    <2>3. 1 \in DOMAIN link.toClient /\ link.toClient[1] = Head(link.toClient)
      BY <1>3, <2>2
    <2>4. QED
      BY <1>3, <2>1, <2>3 DEF IInv, Requested, InLink
  <1>5. client' = client /\ phase' = "idle" /\ config' = config
    BY <1>1 DEF Settle
  <1>6. Regular' \/ Degraded'
    <2>1. CASE Degraded
      BY <1>1, <1>2, <1>3, <1>5, <2>1, DegradedReceives
    <2>2. ASSUME ~Degraded
          PROVE  Regular'
      <3>1. AtAnswer /\ Regular
        BY <1>1, <1>2, <2>2 DEF IInv, Session
      <3>2. ~(\E f : Refused(f))
        <4>1. Head(<<Challenge>>).op = "AUTH_CHALLENGE"
          BY DEF Challenge, Plain, Frame
        <4>2. ReplyOf(client.op) # "AUTH_CHALLENGE"
          BY <1>2 DEF Client, Work, ReplyOf
        <4>3. QED
          BY <1>3, <4>1, <4>2 DEF Refused
      <3>3. PICK codec \in Codecs(Settled, G) : Established /\ Arriving(Answer1(codec))
        BY <1>3, <3>1, <3>2 DEF AtAnswer, Sending, Gone, Quiet
      <3>4. link.toServer = <<>> /\ link.toClient = <<Answer1(codec)>>
        BY <3>3 DEF Arriving
      <3>5. WithReceived(link, link')
        BY <1>1, <1>2, <1>3, ReceivedLink
      <3>6. link'.toServer = <<>> /\ link'.toClient = <<>>
        BY <3>4, <3>5 DEF WithReceived
      <3>7. Established'
        BY <1>5, <3>3, <3>5, SameSettled, Zenon DEF Established, WithReceived, SameEnd
      <3>8. QED
        BY <1>2, <1>5, <3>1, <3>5, <3>6, <3>7 DEF Regular, Quiet, WithReceived, SameEnd
    <2>3. QED
      BY <2>1, <2>2
  <1>7. QED
    BY <1>1, <1>4, <1>6, AnswerStep

LEMMA TakeWrongBodyStep ==
  ASSUME IInv, TakeWrongBody
  PROVE  IInv'
  <1>1. /\ phase = "answer" /\ ~Expected /\ Arrived /\ link' = Received(link) /\ Settle("lost")
        /\ UNCHANGED <<config, abandoned, client, faultVars>>
    BY DEF TakeWrongBody
  <1>2. /\ link.open /\ link \in Link /\ client \in Client /\ (AtAnswer \/ Degraded) /\ asked > 0
        /\ (Compatible /\ ~disturbed => ~client.degraded)
    BY <1>1, InAnswer
  <1>3. /\ link.toClient # <<>> /\ Head(link.toClient).op # ReplyOf(client.op)
        /\ Head(link.toClient).seq = asked
    BY <1>1 DEF Expected, Arrived, Correlated, ExpectedOp, ExpectedSeq
  <1>4. ~AtAnswer
    <2>1. ~(\E f : Refused(f))
      <3>1. Head(<<Challenge>>).seq = 0
        BY DEF Challenge, Plain, Frame
      <3>2. QED
        BY <1>2, <1>3, <3>1 DEF Refused
    <2>2. \A codec : ~Arriving(Answer1(codec))
      BY <1>3 DEF Arriving, Answer1, Frame
    <2>3. QED
      BY <1>3, <2>1, <2>2 DEF AtAnswer, Sending, Gone, Quiet
  <1>5. Degraded
    BY <1>2, <1>4
  <1>6. client' = client /\ phase' = "idle"
    BY <1>1 DEF Settle
  <1>7. Degraded'
    BY <1>1, <1>2, <1>3, <1>5, <1>6, DegradedReceives
  <1>8. Compatible => disturbed
    BY <1>2, <1>5, Zenon DEF Degraded
  <1>9. QED
    BY <1>1, <1>7, <1>8, AnswerStep

LEMMA DegradeStep ==
  ASSUME IInv, Degrade
  PROVE  IInv'
  <1>1. /\ phase = "caps" /\ phase' = "ready" /\ Broken
        /\ client' = [NoClient EXCEPT !.degraded = TRUE]
        /\ abandoned' = abandoned \cup Dropped(link)
        /\ UNCHANGED <<config, callVars, faultVars>>
    BY DEF Degrade
  <1>2. /\ config' = config /\ asked' = asked /\ outcome' = outcome
        /\ executed' = executed /\ stops' = stops /\ disturbed' = disturbed
    BY <1>1 DEF callVars, faultVars
  <1>3. link \in Link /\ Configured /\ abandoned \subseteq Link
    BY ConfigTyped DEF IInv, Types
  <1>4. PICK early \in EarlyChoices : link' = Opened(early)
    BY DEF Degrade
  <1>5. early \in BOOLEAN
    BY <1>4, Zenon DEF EarlyChoices
  <1>6. Fresh(link', early)
    BY <1>3, <1>4, <1>5, OpenedLink
  <1>7. \A m \in Dropped(link) : Left(link, m)
    BY <1>3, DroppedLink
  <1>8. client' \in Client /\ client'.degraded /\ client'.caps = {} /\ client'.dict = "none"
    <2>1. NoClient \in Client
      BY ClientTyped
    <2>2. client' \in Client
      BY <1>1, <2>1 DEF Client
    <2>3. client'.degraded
      BY <1>1, <2>1, Zenon DEF Client
    <2>4. client'.caps = {} /\ client'.dict = "none"
      BY <1>1 DEF NoClient
    <2>5. QED
      BY <2>2, <2>3, <2>4
  <1>9. CapsFrame \in Frames /\ CapsFrame.op = "CAPS" /\ CapsFrame.op \notin Work /\ CapsFrame.codec = "plain"
    BY <1>3, FramesTyped DEF CapsFrame, Frame, Work
  <1>10. Challenge \in Frames /\ Challenge.op = "AUTH_CHALLENGE" /\ Challenge.codec = "plain"
    BY <1>3, FramesTyped DEF Challenge, Plain, Frame
  <1>11. Types'
    <2>1. abandoned' \subseteq Link
      BY <1>1, <1>3, <1>7, Zenon DEF Left
    <2>2. phase' \in Phase
      BY <1>1 DEF Phase
    <2>3. QED
      BY <1>2, <1>6, <1>8, <2>1, <2>2, Zenon DEF IInv, Types, Call, Fresh
  <1>12. link'.toServer = <<>> \/ link'.toServer = <<CapsFrame>>
    BY <1>6, Zenon DEF Fresh
  <1>13. Known(link') /\ Once(link') /\ \A c \in Nat : ~Waits(link', c)
    <2>1. CASE link'.toServer = <<>>
      BY <2>1, KnownNone DEF Once, Waits
    <2>2. CASE link'.toServer = <<CapsFrame>>
      <3>1. Once(link')
        BY <1>9, <2>2 DEF Once
      <3>2. QED
        BY <1>9, <2>2, <3>1, KnownAlone, LoneFrame
    <2>3. QED
      BY <1>12, <2>1, <2>2
  <1>14. Session'
    <2>1. \A k \in DOMAIN link'.toServer :
             link'.toServer[k].op \in Work \cup {"CAPS"} /\ link'.toServer[k].codec = "plain"
      BY <1>9, <1>12
    <2>2. \A k \in DOMAIN link'.toClient : link'.toClient[k].codec \in {"plain", "lz4"}
      <3>1. link'.toClient = <<>> \/ link'.toClient = <<Challenge>>
        BY <1>6, Zenon DEF Fresh
      <3>2. QED
        BY <1>10, <3>1
    <2>3. link'.open /\ ~link'.dictReady
      BY <1>6, Zenon DEF Fresh, Untouched
    <2>4. Degraded'
      BY <1>1, <1>8, <2>1, <2>2, <2>3 DEF Degraded, Work
    <2>5. QED
      BY <1>1, <2>3, <2>4 DEF Session
  <1>15. Abandoned'
    <2>1. ASSUME NEW m \in Dropped(link)
          PROVE  ~m.open /\ m.alive /\ m.toServer # <<>> /\ m.toClient = <<>> /\ Known(m)
      <3>1. Left(link, m) /\ Known(link)
        BY <1>7 DEF IInv, Abandoned
      <3>2. QED
        BY <3>1, Zenon DEF Left, Known
    <2>2. Known(link)'
      BY <1>13, Zenon DEF Known
    <2>3. QED
      BY <1>1, <2>1, <2>2, Zenon DEF IInv, Abandoned, Known
  <1>16. Keyless'
    <2>1. \A m \in Dropped(link) : m.authed <=> link.authed
      BY <1>7 DEF Left
    <2>2. link'.authed <=> ~config.psk
      BY <1>6, Zenon DEF Fresh
    <2>3. QED
      BY <1>1, <1>2, <2>1, <2>2, Zenon DEF IInv, Keyless
  <1>17. \A c : Executed(c)' <=> Executed(c)
    BY <1>2, Zenon DEF Executed
  <1>18. Outcomes'
    BY <1>1, <1>2, Zenon DEF IInv, Requested, Outcomes, Call
  <1>19. InLink'
    <2>1. \A c \in Nat : ~Waits(link, c)'
      BY <1>13, Zenon DEF Waits
    <2>2. Once(link)'
      BY <1>13, Zenon DEF Once
    <2>3. ~Executed(asked)'
      BY <1>1, <1>2, Zenon DEF IInv, Requested, InLink, Executed
    <2>4. \A k \in DOMAIN link'.toClient : link'.toClient[k].op \notin Replies
      <3>1. link'.toClient = <<>> \/ link'.toClient = <<Challenge>>
        BY <1>6, Zenon DEF Fresh
      <3>2. QED
        BY <1>10, <3>1 DEF Replies
    <2>5. QED
      BY <1>1, <2>1, <2>2, <2>3, <2>4, Zenon DEF InLink, Call
  <1>20. LeftBehind'
    <2>1. \A m \in Dropped(link) : /\ Once(link) => Once(m)
                                   /\ \A c \in Nat : Waits(m, c) <=> Waits(link, c)
      BY <1>7, Zenon DEF Left, Once, Waits
    <2>2. \A c \in Nat : Waits(link, c) => c \in Call /\ outcome[c] = "lost" /\ ~Executed(c)
      BY <1>1 DEF IInv, Requested, InLink, Outcomes
    <2>3. \A l \in abandoned, c \in Nat : Waits(l, c) =>
             c \in Call /\ outcome[c] = "lost" /\ ~Executed(c) /\ ~Waits(link, c)
      BY DEF IInv, Requested, LeftBehind
    <2>4. \A l, m \in abandoned', c \in Nat : Waits(l, c) /\ Waits(m, c) => l = m
      <3>1. \A l, m \in Dropped(link) : l = m
        BY <1>3, DroppedLink
      <3>2. QED
        BY <1>1, <2>1, <2>3, <3>1, Zenon DEF IInv, Requested, LeftBehind
    <2>5. \A l \in abandoned' : Once(l)
      BY <1>1, <2>1, Zenon DEF IInv, Requested, LeftBehind, InLink
    <2>6. \A l \in abandoned', c \in Nat : Waits(l, c) => c \in Call /\ outcome[c] = "lost" /\ ~Executed(c)
      BY <1>1, <2>1, <2>2, <2>3, Zenon
    <2>7. \A c \in Nat : ~Waits(link, c)'
      BY <1>13, Zenon DEF Waits
    <2>8. \A l \in abandoned' : Once(l) /\ \A c \in Nat : Waits(l, c) =>
             /\ c \in Call /\ outcome'[c] = "lost" /\ ~Executed(c)' /\ ~Waits(link, c)'
             /\ \A m \in abandoned' : Waits(m, c) => m = l
      BY <1>2, <1>17, <2>4, <2>5, <2>6, <2>7, Zenon
    <2>9. QED
      BY <2>8 DEF LeftBehind, Call
  <1>21. Undisturbed'
    <2>1. Compatible => disturbed
      BY <1>1, NotBroken
    <2>2. QED
      BY <1>2, <2>1, SameConfig, Zenon DEF Undisturbed
  <1>22. QED
    BY <1>11, <1>14, <1>15, <1>16, <1>18, <1>19, <1>20, <1>21 DEF IInv, Requested

----------------------------------------------------------------------------
(* The peer stops, or serves a frame.                                      *)

SameClient == config' = config /\ phase' = phase /\ client' = client /\ asked' = asked
LEMMA CloseSession ==
  ASSUME link \in Link, link' = Closed(link), SameClient
  PROVE  /\ Regular => Regular'
         /\ Degraded => Degraded'
  <1> DEFINE m == link'
  <1>1. /\ m \in Link /\ ~m.alive /\ m.toServer = <<>>
        /\ m.toClient = link.toClient /\ m.caps = link.caps /\ m.dict = link.dict
        /\ m.open <=> link.open
        /\ m.authed <=> link.authed
        /\ m.dictReady <=> link.dictReady
        /\ m.trained <=> link.trained
    BY ClosedLink
  <1> HIDE DEF m
  <1>2. /\ \A f : Arriving(f) => Arriving(f)'
        /\ \A f : Sending(f) => Gone'
        /\ Gone => Gone'
        /\ Quiet => Quiet'
    BY <1>1, Zenon DEF Arriving, Sending, Gone, Quiet, m
  <1>3. /\ G' = G /\ Settled' = Settled /\ SyncedDict' = SyncedDict /\ config' = config
        /\ \A d, C : Codecs(d, C)' = Codecs(d, C)
        /\ phase' = phase /\ client' = client /\ asked' = asked
    BY SameSettled DEF SameClient
  <1>4. Untouched(link) => Untouched(link)'
    BY <1>1, Zenon DEF Untouched, m
  <1>5. Introduced => Introduced'
    BY <1>1, <1>3, Zenon DEF Introduced, GrantedDict, m
  <1>6. \A f : Refused(f) => Refused(f)'
    BY <1>1, <1>3, Zenon DEF Refused, Challenge, m
  <1>7. AtChallenge => AtChallenge'
    <2>1. Challenge' = Challenge
      BY DEF Challenge
    <2>2. Arriving(Challenge) => Arriving(Challenge)'
      BY <1>1, Zenon DEF Arriving, Challenge, m
    <2>3. link'.authed <=> link.authed
      BY <1>1 DEF m
    <2>4. QED
      BY <1>2, <1>3, <1>4, <2>2, <2>3, Zenon DEF AtChallenge
  <1>8. AtAuth => AtAuth'
    <2>1. link'.authed <=> link.authed
      BY <1>1 DEF m
    <2>2. Sending(Response) => Gone'
      BY <1>2
    <2>3. Arriving(Plain("AUTH_OK", 0)) => Arriving(Plain("AUTH_OK", 0))'
      BY <1>1, Zenon DEF Arriving, Plain, Frame, m
    <2>4. QED
      BY <1>2, <1>3, <1>4, <2>1, <2>2, <2>3, Zenon DEF AtAuth
  <1>9. AtCaps => AtCaps'
    <2>1. (link'.authed <=> link.authed) /\ (link'.dictReady <=> link.dictReady)
      BY <1>1 DEF m
    <2>2. Sending(CapsFrame) => Gone'
      BY <1>2
    <2>3. Refused(CapsFrame) => Refused(CapsFrame)'
      BY <1>1, <1>3, Zenon DEF Refused, Challenge, CapsFrame, m
    <2>4. Arriving(Frame("CAPS_OK", 1, "plain", G)) => Arriving(Frame("CAPS_OK", 1, "plain", G))'
      BY <1>1, <1>3, Zenon DEF Arriving, Frame, m
    <2>5. QED
      BY <1>2, <1>3, <1>4, <1>5, <2>1, <2>2, <2>3, <2>4, Zenon DEF AtCaps
  <1>10. AtHello => AtHello'
    <2>1. link'.dictReady <=> link.dictReady
      BY <1>1 DEF m
    <2>2. \A codec : Sending(Frame("HELLO", 2, codec, {})) => Gone'
      BY <1>2
    <2>3. \A codec : Arriving(Frame("HELLO", 2, codec, {})) => Arriving(Frame("HELLO", 2, codec, {}))'
      BY <1>1, Zenon DEF Arriving, Frame, m
    <2>4. QED
      BY <1>2, <1>3, <1>5, <2>1, <2>2, <2>3, Zenon DEF AtHello
  <1>11. AtSync => AtSync'
    <2>1. /\ (link'.authed <=> link.authed) /\ (link'.dictReady <=> link.dictReady)
          /\ (link'.trained <=> link.trained) /\ link'.caps = link.caps /\ link'.dict = link.dict
      BY <1>1 DEF m
    <2>2. Sending(Plain("DICT_SYNC", 3)) => Gone'
      BY <1>2
    <2>3. Arriving(Plain("DICT_SYNC_OK", 3)) => Arriving(Plain("DICT_SYNC_OK", 3))'
      BY <1>1, Zenon DEF Arriving, Plain, Frame, m
    <2>4. QED
      BY <1>2, <1>3, <2>1, <2>2, <2>3, Zenon DEF AtSync
  <1>12. Established => Established'
    BY <1>1, <1>3, Zenon DEF Established, m
  <1>13. Unheard => Unheard'
    BY <1>1, <1>3, <1>4, Zenon DEF Unheard, Challenge, m
  <1>14. AtReady => AtReady'
    BY <1>1, <1>2, <1>12, <1>13, Zenon DEF AtReady, m
  <1>15. AtAnswer => AtAnswer'
    <2>1. Grantable => Grantable'
      BY <1>3 DEF Grantable
    <2>2. \A codec : Sending(Request1(codec)) => Gone'
      BY <1>2
    <2>3. \A codec : Arriving(Answer1(codec)) => Arriving(Answer1(codec))'
      BY <1>1, <1>3, Zenon DEF Arriving, Answer1, Frame, ReplyOf, m
    <2>4. Refused(Request1("plain")) => Refused(Request1("plain"))'
      BY <1>1, <1>3, Zenon DEF Refused, Challenge, Request1, Frame, m
    <2>5. QED
      BY <1>2, <1>3, <1>12, <1>13, <2>1, <2>2, <2>3, <2>4, Zenon DEF AtAnswer
  <1>16. Regular => Regular'
    <2>1. link'.open <=> link.open
      BY <1>1 DEF m
    <2>2. QED
      BY <1>2, <1>3, <1>7, <1>8, <1>9, <1>10, <1>11, <1>12, <1>14, <1>15, <2>1, Zenon DEF Regular
  <1>17. Degraded => Degraded'
    <2>1. DOMAIN link'.toServer = {}
      BY <1>1 DEF m
    <2>2. (link'.open <=> link.open) /\ (link'.dictReady <=> link.dictReady) /\ link'.toClient = link.toClient
      BY <1>1 DEF m
    <2>3. QED
      BY <1>3, <2>1, <2>2, Zenon DEF Degraded
  <1>18. QED
    BY <1>16, <1>17

LEMMA StopStep ==
  ASSUME IInv, Stop
  PROVE  IInv'
  <1>1. /\ stops < Stops /\ stops' = stops + 1 /\ disturbed' = TRUE /\ abandoned' = {}
        /\ link' = IF link.open THEN Closed(link) ELSE link
        /\ config' = config /\ phase' = phase /\ client' = client
        /\ asked' = asked /\ outcome' = outcome /\ executed' = executed
    BY DEF Stop, callVars
  <1>2. link \in Link /\ stops \in 0 .. Stops /\ Stops \in Nat
    BY LinkAssumption DEF IInv, Types
  <1>3. /\ link' \in Link /\ (link'.open <=> link.open) /\ (link'.authed <=> link.authed)
        /\ link'.toClient = link.toClient
        /\ link'.toServer = link.toServer \/ link'.toServer = <<>>
    <2>1. CASE link.open
      <3>1. link' = Closed(link)
        BY <1>1, <2>1
      <3>2. QED
        BY <1>2, <3>1, ClosedLink
    <2>2. CASE ~link.open
      BY <1>1, <1>2, <2>2
    <2>3. QED
      BY <2>1, <2>2
  <1>4. Types'
    <2>1. stops' \in 0 .. Stops
      BY <1>1, <1>2
    <2>2. QED
      BY <1>1, <1>3, <2>1, Zenon DEF IInv, Types, Call
  <1>5. Session'
    <2>1. CASE link.open
      <3>1. link' = Closed(link) /\ SameClient
        BY <1>1, <2>1 DEF SameClient
      <3>2. QED
        BY <1>1, <1>2, <1>3, <2>1, <3>1, CloseSession, Zenon DEF IInv, Session
    <2>2. CASE ~link.open
      BY <1>1, <2>2, Zenon DEF IInv, Session, Closed1
    <2>3. QED
      BY <2>1, <2>2
  <1>6. Abandoned' /\ Keyless'
    <2>1. Known(link)'
      <3>1. Known(link)
        BY DEF IInv, Abandoned
      <3>2. CASE link'.toServer = link.toServer
        BY <1>3, <3>1, <3>2, Zenon DEF Known
      <3>3. CASE link'.toServer = <<>>
        BY <3>3 DEF Known
      <3>4. QED
        BY <1>3, <3>2, <3>3
    <2>2. QED
      BY <1>1, <1>3, <2>1, Zenon DEF IInv, Abandoned, Keyless
  <1>7. Requested'
    <2>1. Fewer(link, link')
      <3>1. CASE link'.toServer = link.toServer
        BY <3>1, SameWaits
      <3>2. CASE link'.toServer = <<>>
        BY <3>2, NothingWaits
      <3>3. QED
        BY <1>3, <3>1, <3>2
    <2>2. \A c \in Nat : Waits(link, c)' => Waits(link, c)
      BY <2>1, Zenon DEF Fewer, Waits
    <2>3. Once(link)'
      BY <2>1, Zenon DEF Fewer, Once, IInv, Requested, InLink
    <2>4. \A c : Executed(c)' <=> Executed(c)
      BY <1>1, Zenon DEF Executed
    <2>5. InLink'
      <3>1. \A c \in Nat : Waits(link, c)' =>
               /\ c \in Call /\ outcome'[c] \in {"asked", "lost"} /\ ~Executed(c)'
               /\ c = asked' => phase' \in {"idle", "answer"}
        BY <1>1, <2>2, <2>4, Zenon DEF IInv, Requested, InLink
      <3>2. phase' \notin {"idle", "answer"} => ~Executed(asked)'
        BY <1>1, Zenon DEF IInv, Requested, InLink, Executed
      <3>3. \A k \in DOMAIN link'.toClient :
             link'.toClient[k].op \in Replies =>
                 \E j \in DOMAIN executed' : executed'[j] = link'.toClient[k].seq
        <4>1. \A k \in DOMAIN link.toClient :
                 link.toClient[k].op \in Replies =>
                     \E j \in DOMAIN executed : executed[j] = link.toClient[k].seq
          BY DEF IInv, Requested, InLink, Executed
        <4>2. link'.toClient = link.toClient /\ executed' = executed
          BY <1>1, <1>3
        <4>3. QED
          BY <4>1, <4>2
      <3>4. QED
        BY <2>3, <3>1, <3>2, <3>3, Zenon DEF InLink, Call, Executed
    <2>6. LeftBehind'
      BY <1>1 DEF LeftBehind
    <2>7. Outcomes'
      BY <1>1, Zenon DEF IInv, Requested, Outcomes, Call
    <2>8. QED
      BY <2>5, <2>6, <2>7 DEF Requested
  <1>8. Undisturbed'
    BY <1>1 DEF Undisturbed
  <1>9. QED
    BY <1>4, <1>5, <1>6, <1>7, <1>8 DEF IInv

\* One frame is on its way to the peer, and the reply on its way back.
Turned(f) == link'.toServer = <<>> /\ link'.toClient = <<f>>
LEMMA Turning ==
  ASSUME NEW f, NEW g, Sending(f), link.open,
         link'.toServer = Tail(link.toServer),
         link'.toClient = IF link.open THEN Append(link.toClient, g) ELSE link.toClient
  PROVE  Turned(g)
  BY DEF Sending, Turned

\* The frame a regular connection may have on its way to the peer.
OnItsWay ==
    \/ phase = "caps" /\ AtCaps /\ Untouched(link) /\ Sending(CapsFrame) /\ Next1(link) = CapsFrame
         /\ Next1(link).op = "CAPS"
    \/ phase = "hello" /\ AtHello /\ ~link.dictReady
         /\ \E codec \in Codecs("none", G) : Sending(Frame("HELLO", 2, codec, {}))
         /\ Next1(link).op = "HELLO" /\ Next1(link).seq = 2
    \/ phase = "sync" /\ AtSync /\ link.dict = "lz4_dict" /\ Sending(Plain("DICT_SYNC", 3))
         /\ Next1(link) = Plain("DICT_SYNC", 3) /\ Next1(link).op = "DICT_SYNC"
    \/ phase = "answer" /\ Established /\ Grantable /\ Next1(link).op \in Work
         /\ \E codec \in Codecs(Settled, G) : Sending(Request1(codec)) /\ Next1(link) = Request1(codec)
LEMMA OnItsWayLemma ==
  ASSUME IInv, Regular, link.toServer # <<>>, link.authed
  PROVE  OnItsWay
  <1>0. client \in Client /\ phase \in Phase
    BY DEF IInv, Types
  <1>1. \A f : Sending(f) => Next1(link) = f
    BY DEF Sending, Next1
  <1>2. \A f : ~Arriving(f) /\ ~Gone /\ ~Quiet
    BY DEF Arriving, Gone, Quiet
  <1>3. \A f : ~Refused(f)
    BY DEF Refused
  <1>4. phase \in {"caps", "hello", "sync", "answer"}
    <2>1. ~AtChallenge /\ ~AtAuth /\ ~AtReady
      BY <1>2 DEF AtChallenge, AtAuth, AtReady, Unheard
    <2>2. QED
      BY <1>0, <1>2, <2>1 DEF Regular, Phase, IInv, Session
  <1>5. CASE phase = "caps"
    <2>1. AtCaps
      BY <1>5 DEF Regular
    <2>2. Untouched(link) /\ Sending(CapsFrame)
      BY <1>2, <1>3, <2>1 DEF AtCaps
    <2>3. Next1(link) = CapsFrame /\ CapsFrame.op = "CAPS"
      BY <1>1, <2>2 DEF CapsFrame, Frame
    <2>4. Next1(link).op = "CAPS"
      BY <2>3
    <2>5. QED
      BY <1>5, <2>1, <2>2, <2>3, <2>4, Zenon DEF OnItsWay
  <1>6. CASE phase = "hello"
    <2>1. AtHello
      BY <1>6 DEF Regular
    <2>2. ~link.dictReady /\ \E codec \in Codecs("none", G) : Sending(Frame("HELLO", 2, codec, {}))
      BY <1>2, <2>1 DEF AtHello
    <2>3. Next1(link).op = "HELLO" /\ Next1(link).seq = 2
      BY <1>1, <2>2 DEF Frame
    <2>4. QED
      BY <1>6, <2>1, <2>2, <2>3, Zenon DEF OnItsWay
  <1>7. CASE phase = "sync"
    <2>1. AtSync
      BY <1>7 DEF Regular
    <2>2. link.dict = "lz4_dict" /\ Sending(Plain("DICT_SYNC", 3))
      BY <1>2, <2>1 DEF AtSync
    <2>3. Next1(link) = Plain("DICT_SYNC", 3)
      BY <1>1, <2>2
    <2>4. Next1(link).op = "DICT_SYNC"
      BY <2>3 DEF Plain, Frame
    <2>5. QED
      BY <1>7, <2>1, <2>2, <2>3, <2>4, Zenon DEF OnItsWay
  <1>8. CASE phase = "answer"
    <2>1. AtAnswer
      BY <1>8 DEF Regular
    <2>2. /\ Established /\ Grantable
          /\ \E codec \in Codecs(Settled, G) : Sending(Request1(codec)) /\ Next1(link) = Request1(codec)
      BY <1>1, <1>2, <1>3, <2>1 DEF AtAnswer
    <2>3. Next1(link).op = client.op /\ client.op \in Work
      BY <1>0, <2>2 DEF Request1, Frame, Client
    <2>4. QED
      <3>1. Next1(link).op \in Work
        BY <2>3
      <3>2. QED
        BY <1>8, <2>2, <3>1, Zenon DEF OnItsWay
  <1>9. QED
    BY <1>4, <1>5, <1>6, <1>7, <1>8

\* The thread of a regular connection answers what the client waits for, or
\* closes.
LEMMA ServeRegular ==
  ASSUME IInv, Regular, link.alive, link.toServer # <<>>, link' \in Handled(link), SameClient
  PROVE  Regular'
  <1>1. /\ link \in Link /\ link.open /\ Known(link) /\ client \in Client /\ Configured /\ phase \in Phase
    BY ConfigTyped DEF IInv, Types, Regular, Abandoned
  <1>2. /\ config' = config /\ phase' = phase /\ client' = client /\ asked' = asked
        /\ G' = G /\ Settled' = Settled /\ SyncedDict' = SyncedDict
        /\ \A d, C : Codecs(d, C)' = Codecs(d, C)
    BY SameSettled DEF SameClient
  <1>3. CASE Closes(link, link')
    BY <1>1, <1>3, CloseSession DEF Closes
  <1>4. CASE Authenticates(link, link')
    <2>1. AuthReplied(link, link')
      BY <1>1, <1>4, AuthHandling
    <2>2. Next1(link).op = "AUTH_RESPONSE" /\ ~link.authed /\ config.key = "right"
      BY <1>4 DEF Authenticates
    <2>3. \A f : Sending(f) => Next1(link) = f
      BY DEF Sending, Next1
    <2>4. \A f : Refused(f) => Next1(link) = f
      BY DEF Refused, Next1
    <2>5. phase = "auth" /\ Sending(Response) /\ config.psk /\ config.key # "none" /\ client = NoClient
          /\ Untouched(link)
      <3>1. Request1("plain").op \in Work /\ client.op \in Work
        BY <1>1 DEF Request1, Frame, Client
      <3>2. ~AtAnswer
        BY <2>2, <2>4, <3>1 DEF AtAnswer, Established, Work
      <3>3. ~AtCaps
        <4>1. CapsFrame.op = "CAPS"
          BY DEF CapsFrame, Frame
        <4>2. QED
          BY <2>2, <2>4, <4>1 DEF AtCaps, Introduced
      <3>4. ~AtReady /\ ~(Established /\ Quiet) /\ ~AtHello /\ ~AtSync /\ ~AtChallenge
        BY <2>2 DEF AtReady, Established, Quiet, AtHello, Introduced, AtSync, AtChallenge, Arriving
      <3>5. phase = "auth" /\ AtAuth
        BY <1>1, <3>2, <3>3, <3>4 DEF Regular, Phase, IInv, Session
      <3>6. QED
        BY <2>2, <3>5 DEF AtAuth, Gone, Quiet
    <2>6. Response.seq = 0 /\ Next1(link) = Response
      BY <2>3, <2>5 DEF Response, Plain, Frame
    <2>7. Turned(Plain("AUTH_OK", 0))
      <3>1. Next1(link).seq = 0
        BY <2>6
      <3>2. QED
        BY <1>1, <2>1, <2>5, <3>1, Turning DEF AuthReplied
    <2>8. Arriving(Plain("AUTH_OK", 0))'
      BY <2>7, Zenon DEF Turned, Arriving, Plain, Frame
    <2>9. Untouched(link)' /\ link'.authed
      BY <2>1, <2>5, Zenon DEF AuthReplied, Untouched
    <2>10. AtAuth'
      BY <1>2, <2>2, <2>5, <2>8, <2>9, Zenon DEF AtAuth
    <2>11. QED
      BY <1>1, <1>2, <2>1, <2>5, <2>10 DEF Regular, AuthReplied
  <1>5. link.authed => OnItsWay
    BY OnItsWayLemma
  <1>7. CASE Dispatches(link, "CAPS", CapsHandled(link), link')
    <2>1. CapsReplied(link, link') /\ link.authed /\ Next1(link).op = "CAPS"
      BY <1>1, <1>7, CapsHandling DEF Dispatches
    <2>2. phase = "caps" /\ AtCaps /\ Untouched(link) /\ Sending(CapsFrame) /\ Next1(link) = CapsFrame
      BY <1>5, <2>1 DEF OnItsWay, Work
    <2>3. Next1(link).caps = config.wanted /\ Next1(link).seq = 1 /\ Granted(Next1(link).caps) = G
      BY <2>2 DEF CapsFrame, Frame, G
    <2>4. /\ link'.open /\ link'.authed /\ link'.caps = G /\ link'.dict = GrantedDict(G, "none")
          /\ ~link'.dictReady /\ (link'.trained <=> "ZSTD_V" \in G)
          /\ link'.toServer = Tail(link.toServer)
          /\ link'.toClient = IF link.open THEN Append(link.toClient, Frame("CAPS_OK", 1, "plain", G))
                              ELSE link.toClient
      BY <1>1, <2>1, <2>2, <2>3, Zenon DEF CapsReplied, Untouched
    <2>5. Turned(Frame("CAPS_OK", 1, "plain", G))
      BY <1>1, <2>2, <2>4, Turning
    <2>6. Introduced'
      BY <1>2, <2>4, Zenon DEF Introduced, GrantedDict
    <2>7. Arriving(Frame("CAPS_OK", 1, "plain", G))'
      BY <1>2, <2>5, Zenon DEF Turned, Arriving, Frame
    <2>8. AtCaps'
      BY <1>2, <2>2, <2>4, <2>6, <2>7, Zenon DEF AtCaps
    <2>9. QED
      BY <1>2, <2>2, <2>4, <2>8 DEF Regular
  <1>8. CASE Dispatches(link, "HELLO", HelloHandled(link), link')
    <2>1. HelloReplied(link, link') /\ link.authed /\ Next1(link).op = "HELLO"
      BY <1>1, <1>8, HelloHandling DEF Dispatches
    <2>2. phase = "hello" /\ AtHello /\ Next1(link).seq = 2
          /\ \E codec \in Codecs("none", G) : Sending(Frame("HELLO", 2, codec, {}))
      BY <1>5, <2>1 DEF OnItsWay, Work
    <2>3. PICK codec \in Codecs("none", G) : Sending(Frame("HELLO", 2, codec, {}))
      BY <2>2
    <2>4. link.caps = G /\ link.dict = GrantedDict(G, "none") /\ Introduced /\ "DICT" \in G
      BY <2>2 DEF AtHello, Introduced
    <2>5. PICK answer \in Codecs("none", G) :
             link'.toClient = IF link.open THEN Append(link.toClient, Frame("HELLO", 2, answer, {}))
                              ELSE link.toClient
      BY <2>1, <2>2, <2>4, Zenon DEF HelloReplied
    <2>6. Turned(Frame("HELLO", 2, answer, {}))
      BY <1>1, <2>1, <2>3, <2>5, Turning DEF HelloReplied
    <2>7. link.dict # "none"
      BY <2>4 DEF GrantedDict
    <2>8. /\ link'.open /\ link'.authed /\ link'.caps = G /\ link'.dict = GrantedDict(G, "none")
          /\ link'.dictReady /\ (link'.trained <=> link.trained)
      BY <1>1, <2>1, <2>4, <2>7, Zenon DEF HelloReplied
    <2>9. Introduced'
      BY <1>2, <2>4, <2>8, Zenon DEF Introduced, GrantedDict
    <2>10. Arriving(Frame("HELLO", 2, answer, {}))'
      BY <2>6, Zenon DEF Turned, Arriving, Frame
    <2>11. \E c \in Codecs("none", G)' : Arriving(Frame("HELLO", 2, c, {}))'
      <3>1. Codecs("none", G)' = Codecs("none", G)
        BY <1>2, Zenon DEF Codecs
      <3>2. QED
        BY <2>5, <2>10, <3>1
    <2>12. AtHello'
      BY <1>2, <2>2, <2>8, <2>9, <2>11 DEF AtHello
    <2>13. QED
      BY <1>2, <2>2, <2>8, <2>12 DEF Regular
  <1>9. CASE Dispatches(link, "DICT_SYNC", DictSyncHandled(link), link')
    <2>1. link.authed /\ Next1(link).op = "DICT_SYNC" /\ link' \in DictSyncHandled(link)
      BY <1>9 DEF Dispatches
    <2>2. /\ phase = "sync" /\ AtSync /\ link.dict = "lz4_dict" /\ Sending(Plain("DICT_SYNC", 3))
          /\ Next1(link) = Plain("DICT_SYNC", 3)
      BY <1>5, <2>1 DEF OnItsWay, Work
    <2>3. SyncReplied(link, link')
      BY <1>1, <2>1, <2>2, SyncHandling DEF AtSync
    <2>4. Next1(link).seq = 3
      BY <2>2 DEF Plain, Frame
    <2>5. Turned(Plain("DICT_SYNC_OK", 3))
      BY <1>1, <2>2, <2>3, <2>4, Turning DEF SyncReplied
    <2>6. Arriving(Plain("DICT_SYNC_OK", 3))'
      BY <2>5, Zenon DEF Turned, Arriving, Plain, Frame
    <2>7. /\ link'.open /\ link'.authed /\ link'.caps = G /\ link'.trained /\ link'.dictReady
          /\ link'.dict = SyncedDict
      BY <1>1, <2>2, <2>3, Zenon DEF SyncReplied, AtSync, SyncedDict
    <2>8. AtSync'
      BY <1>2, <2>2, <2>6, <2>7, Zenon DEF AtSync
    <2>9. QED
      BY <1>2, <2>2, <2>7, <2>8 DEF Regular
  <1>10. CASE Works(link, link')
    <2>1. link.authed /\ Readable(link) /\ Next1(link).op \in Work
      BY <1>10 DEF Works
    <2>2. /\ phase = "answer" /\ Established /\ Grantable
          /\ \E codec \in Codecs(Settled, G) : Sending(Request1(codec)) /\ Next1(link) = Request1(codec)
      BY <1>5, <2>1 DEF OnItsWay, Work
    <2>3. PICK codec \in Codecs(Settled, G) : Sending(Request1(codec)) /\ Next1(link) = Request1(codec)
      BY <2>2
    <2>4. Next1(link).op = client.op /\ Next1(link).seq = asked
      BY <2>3 DEF Request1, Frame
    <2>5. Executes(link)
      <3>1. Served(link)
        BY <2>2, <2>4 DEF Served, Grantable, Established
      <3>2. QED
        BY <2>1, <3>1 DEF Executes
    <2>6. WorkReplied(link, link')
      BY <1>1, <1>10, <2>5, WorkHandling
    <2>7. ServerDict(link) = Settled /\ link.caps = G
      BY <2>2 DEF Established, ServerDict
    <2>8. PICK answer \in Codecs(Settled, G) :
             WithReply(link, Frame(ReplyOf(client.op), asked, answer, {}), link')
      BY <2>4, <2>6, <2>7, Zenon DEF WorkReplied
    <2>9. Turned(Answer1(answer))
      BY <1>1, <2>3, <2>8, Turning DEF WithReply, Answer1
    <2>10. Established'
      BY <1>2, <2>2, <2>8, Zenon DEF Established, WithReply, SameEnd
    <2>11. Grantable'
      BY <1>2, <2>2 DEF Grantable
    <2>12. Arriving(Answer1(answer))'
      BY <1>2, <2>9, Zenon DEF Turned, Arriving, Answer1, Frame, ReplyOf
    <2>13. answer \in Codecs(Settled, G)'
      BY <1>2, <2>8, Zenon DEF Codecs
    <2>14. AtAnswer'
      BY <2>10, <2>11, <2>12, <2>13 DEF AtAnswer
    <2>15. link'.open
      BY <1>1, <2>8 DEF WithReply, SameEnd
    <2>16. QED
      BY <1>2, <2>2, <2>14, <2>15 DEF Regular
  <1>11. QED
    BY <1>1, <1>3, <1>4, <1>7, <1>8, <1>9, <1>10, HandledCases, Zenon

LEMMA ServeDegraded ==
  ASSUME IInv, Degraded, link.toServer # <<>>, link' \in Handled(link), SameClient
  PROVE  Degraded'
  <1>1. link \in Link /\ link.open /\ Known(link)
    BY DEF IInv, Types, Degraded, Abandoned
  <1>2. config' = config /\ phase' = phase /\ client' = client
    BY DEF SameClient
  <1>3. Next1(link).op \in Work \cup {"CAPS"}
    <2>1. Next1(link) = link.toServer[1] /\ 1 \in DOMAIN link.toServer
      BY <1>1, NextKnown
    <2>2. QED
      BY <2>1 DEF Degraded
  <1>4. CASE Closes(link, link')
    BY <1>1, <1>4, CloseSession DEF Closes
  <1> DEFINE Plainly == /\ link'.open
                        /\ link'.dictReady <=> link.dictReady
                        /\ link'.toServer = Tail(link.toServer)
                        /\ \/ link'.toClient = link.toClient
                           \/ \E f : /\ f.codec \in {"plain", "lz4"}
                                     /\ link'.toClient = Append(link.toClient, f)
  <1>5. ASSUME Plainly
        PROVE  Degraded'
    <2>1. link.toServer \in Seq(Frames) /\ link.toClient \in Seq(Frames)
      BY <1>1 DEF Link
    <2>2. \A k \in DOMAIN link'.toServer :
             k + 1 \in DOMAIN link.toServer /\ link'.toServer[k] = link.toServer[k + 1]
      BY <1>5, <2>1
    <2>3. \A k \in DOMAIN link'.toServer :
             link'.toServer[k].op \in Work \cup {"CAPS"} /\ link'.toServer[k].codec = "plain"
      BY <2>2 DEF Degraded
    <2>4. \A k \in DOMAIN link'.toClient : link'.toClient[k].codec \in {"plain", "lz4"}
      <3>1. \A k \in DOMAIN link.toClient : link.toClient[k].codec \in {"plain", "lz4"}
        BY DEF Degraded
      <3>2. CASE link'.toClient = link.toClient
        BY <3>1, <3>2
      <3>3. CASE \E f : f.codec \in {"plain", "lz4"} /\ link'.toClient = Append(link.toClient, f)
        <4>1. PICK f : f.codec \in {"plain", "lz4"} /\ link'.toClient = Append(link.toClient, f)
          BY <3>3
        <4>2. \A k \in DOMAIN link'.toClient :
                 link'.toClient[k] = f \/ (k \in DOMAIN link.toClient /\ link'.toClient[k] = link.toClient[k])
          BY <2>1, <4>1
        <4>3. QED
          BY <3>1, <4>1, <4>2
      <3>4. QED
        BY <1>5, <3>2, <3>3
    <2>5. link'.open /\ ~link'.dictReady
      BY <1>5, Zenon DEF Degraded
    <2>6. QED
      BY <1>2, <2>3, <2>4, <2>5, Zenon DEF Degraded, Work
  <1>6. CASE Dispatches(link, "CAPS", CapsHandled(link), link')
    <2>1. CapsReplied(link, link')
      BY <1>1, <1>6, CapsHandling DEF Dispatches
    <2> DEFINE f == Frame("CAPS_OK", Next1(link).seq, "plain", Granted(Next1(link).caps))
    <2>2. f.codec \in {"plain", "lz4"}
      BY DEF Frame
    <2> HIDE DEF f
    <2>3. link'.toClient = Append(link.toClient, f)
      BY <1>1, <2>1, Zenon DEF CapsReplied, f
    <2>4. Plainly
      <3>1. \E x : x.codec \in {"plain", "lz4"} /\ link'.toClient = Append(link.toClient, x)
        BY <2>2, <2>3
      <3>2. link'.open /\ (link'.dictReady <=> link.dictReady) /\ link'.toServer = Tail(link.toServer)
        BY <1>1, <2>1, Zenon DEF CapsReplied
      <3>3. QED
        BY <3>1, <3>2, Zenon
    <2>5. QED
      BY <1>5, <2>4
  <1>7. CASE Works(link, link') /\ Executes(link)
    <2>1. WorkReplied(link, link')
      BY <1>1, <1>7, WorkHandling
    <2>2. ServerDict(link) = "none"
      BY DEF Degraded, ServerDict
    <2>3. PICK codec \in Codecs("none", link.caps) :
             WithReply(link, Frame(ReplyOf(Next1(link).op), Next1(link).seq, codec, {}), link')
      BY <2>1, <2>2, Zenon DEF WorkReplied
    <2> DEFINE f == Frame(ReplyOf(Next1(link).op), Next1(link).seq, codec, {})
    <2>4. f.codec \in {"plain", "lz4"}
      BY <2>3, SmallCodecs DEF Frame
    <2> HIDE DEF f
    <2>5. link'.toClient = Append(link.toClient, f)
      BY <1>1, <2>3, Zenon DEF WithReply, f
    <2>6. Plainly
      <3>1. \E x : x.codec \in {"plain", "lz4"} /\ link'.toClient = Append(link.toClient, x)
        BY <2>4, <2>5
      <3>2. link'.open /\ (link'.dictReady <=> link.dictReady) /\ link'.toServer = Tail(link.toServer)
        BY <1>1, <2>3, Zenon DEF WithReply, SameEnd
      <3>3. QED
        BY <3>1, <3>2, Zenon
    <2>7. QED
      BY <1>5, <2>6
  <1>8. CASE Works(link, link') /\ ~Executes(link)
    <2>1. SilentEnd(link, link')
      BY <1>1, <1>8, WorkHandling
    <2>2. Plainly
      BY <1>1, <2>1, Zenon DEF SilentEnd, SameEnd
    <2>3. QED
      BY <1>5, <2>2
  <1>9. ~Authenticates(link, link') /\ ~Dispatches(link, "HELLO", HelloHandled(link), link')
        /\ ~Dispatches(link, "DICT_SYNC", DictSyncHandled(link), link')
    BY <1>3 DEF Authenticates, Dispatches, Work
  <1> HIDE DEF Plainly
  <1>10. QED
    BY <1>1, <1>4, <1>6, <1>7, <1>8, <1>9, HandledCases, Zenon

LEMMA KnownTaken ==
  ASSUME NEW l \in Link, l.toServer # <<>>, Known(l), NEW m, Shape(l, m)
  PROVE  Known(m)
  <1>1. l.toServer \in Seq(Frames)
    BY DEF Link
  <1>2. CASE m.toServer = <<>>
    BY <1>2, KnownNone
  <1>3. CASE m.toServer = Tail(l.toServer)
    <2>1. ASSUME NEW k \in DOMAIN m.toServer
          PROVE  /\ m.toServer[k].op \in Work \cup {"AUTH_RESPONSE", "CAPS", "HELLO", "DICT_SYNC"}
                 /\ m.toServer[k].op # "AUTH_RESPONSE"
      <3>1. k + 1 \in DOMAIN l.toServer /\ m.toServer[k] = l.toServer[k + 1] /\ Len(l.toServer) # 1
        BY <1>1, <1>3, <2>1
      <3>2. QED
        BY <3>1 DEF Known
    <2>2. QED
      BY <2>1 DEF Known
  <1>4. QED
    BY <1>2, <1>3 DEF Shape, Taken

LEMMA Executing ==
  ASSUME NEW l, Execute(l), executed \in Seq(Call)
  PROVE  /\ \A c : Executed(c)' <=> Executed(c) \/ (Executes(l) /\ c = Next1(l).seq)
         /\ Executes(l) \/ executed' = executed
         /\ \A k \in DOMAIN executed' :
               \/ k \in DOMAIN executed /\ executed'[k] = executed[k]
               \/ Executes(l) /\ executed'[k] = Next1(l).seq
         /\ \A k \in DOMAIN executed : k \in DOMAIN executed' /\ executed'[k] = executed[k]
  <1>1. CASE ~Executes(l)
    <2>1. executed' = executed
      BY <1>1 DEF Execute
    <2>2. QED
      BY <1>1, <2>1 DEF Executed
  <1>2. CASE Executes(l)
    <2> DEFINE n == Next1(l).seq
    <2>1. executed' = Append(executed, n)
      BY <1>2 DEF Execute
    <2> HIDE DEF n
    <2>2. /\ \A k \in DOMAIN executed' : (k \in DOMAIN executed /\ executed'[k] = executed[k]) \/ executed'[k] = n
          /\ \A k \in DOMAIN executed : k \in DOMAIN executed' /\ executed'[k] = executed[k]
          /\ Len(executed) + 1 \in DOMAIN executed' /\ executed'[Len(executed) + 1] = n
      BY <2>1
    <2>3. \A c : (\E k \in DOMAIN executed' : executed'[k] = c) <=> (\E k \in DOMAIN executed : executed[k] = c) \/ c = n
      BY <2>2, Zenon
    <2>4. QED
      BY <1>2, <2>2, <2>3, Zenon DEF Executed, n
  <1>3. QED
    BY <1>1, <1>2

\* A frame that is read and allowed does not close the connection.
LEMMA StaysAlive ==
  ASSUME NEW l \in Link, l.toServer # <<>>, Known(l), NEW m \in Handled(l), l.alive,
         Readable(l), l.authed \/ Responds(l)
  PROVE  m.alive
  <1>1. ~Closes(l, m)
    BY DEF Closes
  <1>2. CASE Authenticates(l, m)
    BY <1>2, AuthHandling DEF AuthReplied
  <1>3. CASE Dispatches(l, "CAPS", CapsHandled(l), m)
    BY <1>3, CapsHandling DEF Dispatches, CapsReplied
  <1>4. CASE Dispatches(l, "HELLO", HelloHandled(l), m)
    BY <1>4, HelloHandling DEF Dispatches, HelloReplied
  <1>5. CASE Dispatches(l, "DICT_SYNC", DictSyncHandled(l), m)
    <2>1. CASE l.trained
      BY <1>5, <2>1, SyncHandling DEF Dispatches, SyncReplied
    <2>2. CASE ~l.trained
      <3>1. m = Silent(l)
        BY <1>5, <2>2, Zenon DEF Dispatches, DictSyncHandled
      <3>2. QED
        BY <3>1, SilentLink DEF SilentEnd, SameEnd
    <2>3. QED
      BY <2>1, <2>2
  <1>6. CASE Works(l, m)
    <2>1. CASE Executes(l)
      BY <1>6, <2>1, WorkHandling DEF WorkReplied, WithReply, SameEnd
    <2>2. CASE ~Executes(l)
      BY <1>6, <2>2, WorkHandling DEF SilentEnd, SameEnd
    <2>3. QED
      BY <2>1, <2>2
  <1>7. QED
    BY <1>1, <1>2, <1>3, <1>4, <1>5, <1>6, HandledCases

\* Between ends that fit every frame on its way to the peer is read and
\* allowed.
LEMMA FitsPeer ==
  ASSUME IInv, Regular, link.toServer # <<>>, Compatible
  PROVE  Readable(link) /\ (link.authed \/ Responds(link))
  <1>1. ~(config.psk /\ config.key = "none") /\ (config.psk => config.key = "right")
    BY DEF Compatible
  <1>2. \A f : Sending(f) => Next1(link) = f
    BY DEF Sending, Next1
  <1>3. \A codec, d : codec \in {"plain", "lz4"} => Decodable(codec, d)
    BY DEF Decodable
  <1>4. CASE link.authed
    <2>1. OnItsWay
      BY <1>4, OnItsWayLemma
    <2>2. CASE phase = "caps" /\ Next1(link) = CapsFrame
      BY <1>3, <1>4, <2>2 DEF CapsFrame, Frame, Readable
    <2>3. CASE \E codec \in Codecs("none", G) : Sending(Frame("HELLO", 2, codec, {}))
      <3>1. PICK codec \in Codecs("none", G) : Sending(Frame("HELLO", 2, codec, {}))
        BY <2>3
      <3>2. Next1(link).codec = codec /\ codec \in {"plain", "lz4"}
        BY <1>2, <3>1, SmallCodecs DEF Frame
      <3>3. QED
        BY <1>3, <1>4, <3>2 DEF Readable
    <2>4. CASE Next1(link) = Plain("DICT_SYNC", 3)
      BY <1>3, <1>4, <2>4 DEF Plain, Frame, Readable
    <2>5. CASE Established /\ \E codec \in Codecs(Settled, G) : Next1(link) = Request1(codec)
      <3>1. PICK codec \in Codecs(Settled, G) : Next1(link) = Request1(codec)
        BY <2>5
      <3>2. Next1(link).codec = codec
        BY <3>1 DEF Request1, Frame
      <3>3. Decodable(codec, Settled)
        BY <3>1, SettledFits
      <3>4. ServerDict(link) = Settled
        BY <2>5 DEF Established, ServerDict
      <3>5. QED
        BY <1>4, <3>2, <3>3, <3>4 DEF Readable
    <2>6. QED
      BY <1>4, <2>1, <2>2, <2>3, <2>4, <2>5 DEF OnItsWay
  <1>5. CASE ~link.authed
    <2>1. phase \in Phase /\ link.open
      BY DEF IInv, Types, Regular
    <2>2. ~AtChallenge /\ ~AtHello /\ ~AtSync /\ ~AtReady /\ ~(Established /\ Quiet) /\ ~AtAnswer
      BY <1>1, <1>5 DEF AtChallenge, AtHello, AtSync, AtReady, Established, AtAnswer, Introduced, Unheard,
                        Arriving, Quiet
    <2>3. ~AtCaps
      BY <1>1, <1>5 DEF AtCaps, Refused, Introduced
    <2>4. AtAuth
      BY <2>1, <2>2, <2>3 DEF Regular, Phase, IInv, Session
    <2>5. Sending(Response) /\ config.psk
      BY <1>5, <2>4 DEF AtAuth, Gone, Quiet
    <2>6. Next1(link) = Response
      BY <1>2, <2>5
    <2>7. Next1(link).op = "AUTH_RESPONSE" /\ Next1(link).codec = "plain"
      BY <2>6 DEF Response, Plain, Frame
    <2>8. QED
      BY <1>1, <1>3, <2>5, <2>7 DEF Readable, Responds
  <1>6. QED
    BY <1>4, <1>5

LEMMA ServeStep ==
  ASSUME IInv, Serve
  PROVE  IInv'
  <1>1. /\ link.alive /\ link.toServer # <<>> /\ link' \in Handled(link) /\ Execute(link)
        /\ abandoned' = abandoned /\ config' = config /\ phase' = phase /\ client' = client
        /\ asked' = asked /\ outcome' = outcome /\ stops' = stops /\ disturbed' = disturbed
    BY DEF Serve, ServerUnchanged, faultVars
  <1>2. link \in Link /\ Known(link) /\ Configured /\ executed \in Seq(Call)
    BY ConfigTyped DEF IInv, Types, Abandoned
  <1>3. link.open
    BY <1>1, NoLinkTyped DEF IInv, Session, Closed1
  <1>4. Shape(link, link')
    BY <1>1, <1>2, HandledShape
  <1>5. /\ link' \in Link /\ link'.open /\ (link'.authed => link.authed \/ config.key = "right")
    BY <1>3, <1>4 DEF Shape
  <1>6. Fewer(link, link') /\ (Once(link) /\ Executes(link) => ~Waits(link', Next1(link).seq))
    BY <1>1, <1>2, <1>4, TakenWaits DEF Shape
  <1>7. Once(link)
    BY DEF IInv, Requested, InLink
  <1> DEFINE n == Next1(link).seq
  <1>8. Executes(link) =>
           /\ Waits(link, n) /\ n \in Nat /\ n \in Call /\ outcome[n] \in {"asked", "lost"} /\ ~Executed(n)
           /\ n = asked => phase \in {"idle", "answer"}
    BY <1>1, <1>2, ExecutingWaits DEF IInv, Requested, InLink
  <1>9. /\ \A c : Executed(c)' <=> Executed(c) \/ (Executes(link) /\ c = n)
        /\ Executes(link) \/ executed' = executed
        /\ \A k \in DOMAIN executed' :
               \/ k \in DOMAIN executed /\ executed'[k] = executed[k]
               \/ Executes(link) /\ executed'[k] = n
        /\ \A k \in DOMAIN executed : k \in DOMAIN executed' /\ executed'[k] = executed[k]
    BY <1>1, <1>2, Executing
  <1>10. executed' \in Seq(Call)
    <2>1. CASE Executes(link)
      <3>1. executed' = Append(executed, n) /\ n \in Call
        BY <1>1, <1>8, <2>1 DEF Execute
      <3>2. QED
        BY <1>2, <3>1
    <2>2. CASE ~Executes(link)
      BY <1>2, <1>9, <2>2
    <2>3. QED
      BY <2>1, <2>2
  <1> HIDE DEF n
  <1>11. Types'
    BY <1>1, <1>5, <1>10, Zenon DEF IInv, Types, Call
  <1>12. Session'
    <2>1. SameClient
      BY <1>1 DEF SameClient
    <2>2. phase # "connect" /\ (Regular \/ Degraded)
      BY <1>3 DEF IInv, Session
    <2>3. Regular' \/ Degraded'
      BY <1>1, <2>1, <2>2, ServeRegular, ServeDegraded
    <2>4. QED
      BY <1>1, <1>5, <2>2, <2>3 DEF Session
  <1>13. Abandoned'
    <2>1. Known(link')
      BY <1>1, <1>2, <1>4, KnownTaken
    <2>2. Known(link)'
      BY <2>1, Zenon DEF Known
    <2>3. QED
      BY <1>1, <2>2, Zenon DEF IInv, Abandoned, Known
  <1>14. Keyless'
    <2>1. Executes(link) => link.authed
      BY DEF Executes
    <2>2. QED
      BY <1>1, <1>5, <1>9, <2>1, Zenon DEF IInv, Keyless
  <1>15. Outcomes'
    <2>1. \A k \in DOMAIN executed' : executed'[k] <= asked
      <3>1. \A k \in DOMAIN executed : executed[k] <= asked
        BY DEF IInv, Requested, Outcomes
      <3>2. Executes(link) => n <= asked
        <4>1. asked \in Nat
          BY LinkAssumption DEF IInv, Types
        <4>2. Executes(link) => ~(n > asked) /\ n \in Nat
          BY <1>8 DEF IInv, Requested, Outcomes
        <4>3. QED
          BY <4>1, <4>2
      <3>3. QED
        BY <1>9, <3>1, <3>2
    <2>2. QED
      BY <1>1, <2>1, Zenon DEF IInv, Requested, Outcomes, Call
  <1>16. InLink'
    <2>1. \A c \in Nat : Waits(link, c)' => Waits(link, c) /\ ~(Executes(link) /\ c = n)
      <3>1. \A c \in Nat : Waits(link', c) => Waits(link, c)
        BY <1>6 DEF Fewer
      <3>2. Executes(link) => ~Waits(link', n)
        BY <1>6, <1>7 DEF n
      <3>3. \A c \in Nat : Waits(link, c)' <=> Waits(link', c)
        BY Zenon DEF Waits
      <3>4. QED
        BY <3>1, <3>2, <3>3, Zenon
    <2>2. \A c \in Nat : Waits(link, c)' =>
             /\ c \in Call /\ outcome'[c] \in {"asked", "lost"} /\ ~Executed(c)'
             /\ c = asked' => phase' \in {"idle", "answer"}
      BY <1>1, <1>9, <2>1, Zenon DEF IInv, Requested, InLink
    <2>3. Once(link)'
      BY <1>6, <1>7, Zenon DEF Fewer, Once
    <2>4. phase' \notin {"idle", "answer"} => ~Executed(asked)'
      <3>1. phase \notin {"idle", "answer"} => ~Executed(asked)
        BY DEF IInv, Requested, InLink
      <3>2. phase \notin {"idle", "answer"} => ~(Executes(link) /\ asked = n)
        BY <1>8 DEF n
      <3>3. phase \notin {"idle", "answer"} => ~(\E k \in DOMAIN executed' : executed'[k] = asked)
        BY <1>9, <3>1, <3>2, Zenon DEF Executed
      <3>4. QED
        BY <1>1, <3>3, Zenon DEF Executed
    <2>5. \A k \in DOMAIN link'.toClient :
             link'.toClient[k].op \in Replies =>
                 \E j \in DOMAIN executed' : executed'[j] = link'.toClient[k].seq
      <3>1. \A k \in DOMAIN link.toClient :
               link.toClient[k].op \in Replies =>
                   \E j \in DOMAIN executed : executed[j] = link.toClient[k].seq
        BY DEF IInv, Requested, InLink, Executed
      <3>2. \A c : (\E j \in DOMAIN executed : executed[j] = c) => \E j \in DOMAIN executed' : executed'[j] = c
        BY <1>9, Zenon
      <3>3. \A k \in DOMAIN link.toClient :
               link.toClient[k].op \in Replies =>
                   \E j \in DOMAIN executed' : executed'[j] = link.toClient[k].seq
        BY <3>1, <3>2, Zenon
      <3>4. CASE link'.toClient = link.toClient
        BY <3>3, <3>4
      <3>5. ASSUME NEW f \in Frames, link'.toClient = Append(link.toClient, f),
                   f.op \in Replies => Executes(link) /\ f.seq = n
            PROVE  \A k \in DOMAIN link'.toClient :
                       link'.toClient[k].op \in Replies =>
                           \E j \in DOMAIN executed' : executed'[j] = link'.toClient[k].seq
        <4>1. link.toClient \in Seq(Frames)
          BY <1>2 DEF Link
        <4>2. \A k \in DOMAIN link'.toClient :
                 \/ k \in DOMAIN link.toClient /\ link'.toClient[k] = link.toClient[k]
                 \/ link'.toClient[k] = f
          BY <3>5, <4>1
        <4>3. f.op \in Replies => \E j \in DOMAIN executed' : executed'[j] = f.seq
          <5>1. Executes(link) => \E j \in DOMAIN executed' : executed'[j] = n
            BY <1>9, Zenon DEF Executed
          <5>2. QED
            BY <3>5, <5>1, Zenon
        <4>4. QED
          BY <3>3, <4>2, <4>3, Zenon
      <3>6. QED
        BY <1>4, <3>4, <3>5, Zenon DEF Shape, Answered, n
    <2>6. QED
      BY <2>2, <2>3, <2>4, <2>5, Zenon DEF InLink, Call, Executed
  <1>17. LeftBehind'
    <2>1. \A l \in abandoned : Once(l) /\ \A c \in Nat : Waits(l, c) =>
             /\ c \in Call /\ outcome[c] = "lost" /\ ~Executed(c) /\ ~Waits(link, c)
             /\ \A m \in abandoned : Waits(m, c) => m = l
      BY DEF IInv, Requested, LeftBehind
    <2>2. \A c \in Nat : ~Waits(link, c) => ~Waits(link, c)' /\ ~(Executes(link) /\ c = n)
      <3>1. \A c \in Nat : Waits(link, c)' => Waits(link, c)
        BY <1>6, Zenon DEF Fewer, Waits
      <3>2. \A c \in Nat : (Executes(link) /\ c = n) => Waits(link, c)
        BY <1>8 DEF n
      <3>3. QED
        BY <3>1, <3>2, Zenon
    <2>3. \A l \in abandoned' : Once(l) /\ \A c \in Nat : Waits(l, c) =>
             /\ c \in Call /\ outcome'[c] = "lost" /\ ~Executed(c)' /\ ~Waits(link, c)'
             /\ \A m \in abandoned' : Waits(m, c) => m = l
      BY <1>1, <1>9, <2>1, <2>2, Zenon
    <2>4. QED
      BY <2>3 DEF LeftBehind, Call
  <1>18. Undisturbed'
    <2>1. ASSUME Compatible, ~disturbed
          PROVE  link'.alive
      <3>1. ~client.degraded
        BY <1>3, <2>1, Zenon DEF IInv, Undisturbed
      <3>2. Regular
        BY <1>3, <3>1, Zenon DEF IInv, Session, Degraded
      <3>3. Readable(link) /\ (link.authed \/ Responds(link))
        BY <1>1, <2>1, <3>2, FitsPeer
      <3>4. QED
        BY <1>1, <1>2, <3>3, StaysAlive
    <2>2. QED
      BY <1>1, <2>1, SameConfig, Zenon DEF IInv, Undisturbed, Call
  <1>19. QED
    BY <1>11, <1>12, <1>13, <1>14, <1>15, <1>16, <1>17, <1>18 DEF IInv, Requested

\* What the predicates about a connection depend on.
LEMMA SameRegular ==
  ASSUME link' = link, config' = config, phase' = phase, client' = client, asked' = asked
  PROVE  Regular => Regular'
  <1>1. /\ G' = G /\ Settled' = Settled /\ SyncedDict' = SyncedDict
        /\ \A d, C : Codecs(d, C)' = Codecs(d, C)
    BY SameSettled
  <1>2. /\ AtChallenge => AtChallenge'
        /\ AtAuth => AtAuth'
    BY Zenon DEF AtChallenge, AtAuth, Untouched, Arriving, Sending, Gone, Quiet, Challenge, Response, Plain, Frame
  <1>3. AtCaps => AtCaps'
    BY <1>1, Zenon DEF AtCaps, Untouched, Introduced, GrantedDict, Refused, Challenge, CapsFrame, Sending,
                       Gone, Quiet, Arriving, Frame, Plain
  <1>4. AtHello => AtHello'
    <2>1. Introduced => Introduced'
      BY <1>1, Zenon DEF Introduced, GrantedDict
    <2>2. \A codec : /\ Sending(Frame("HELLO", 2, codec, {})) => Sending(Frame("HELLO", 2, codec, {}))'
                     /\ Arriving(Frame("HELLO", 2, codec, {})) => Arriving(Frame("HELLO", 2, codec, {}))'
      BY Zenon DEF Sending, Arriving, Frame
    <2>3. Gone => Gone'
      BY Zenon DEF Gone, Quiet
    <2>4. QED
      BY <1>1, <2>1, <2>2, <2>3, Zenon DEF AtHello
  <1>5. AtSync => AtSync'
    BY <1>1, Zenon DEF AtSync, Sending, Gone, Quiet, Arriving, Plain, Frame
  <1>6. Established => Established'
    BY <1>1, Zenon DEF Established
  <1>7. Unheard => Unheard'
    BY Zenon DEF Unheard, Untouched, Challenge
  <1>8. Quiet => Quiet'
    BY Zenon DEF Quiet
  <1>9. AtReady => AtReady'
    BY <1>6, <1>7, <1>8, Zenon DEF AtReady
  <1>10. AtAnswer => AtAnswer'
    <2>1. Grantable => Grantable'
      BY <1>1, Zenon DEF Grantable
    <2>2. \A codec : /\ Sending(Request1(codec)) => Sending(Request1(codec))'
                     /\ Arriving(Answer1(codec)) => Arriving(Answer1(codec))'
                     /\ Refused(Request1(codec)) => Refused(Request1(codec))'
      BY Zenon DEF Sending, Arriving, Refused, Challenge, Request1, Answer1, Frame, ReplyOf
    <2>3. Gone => Gone'
      BY Zenon DEF Gone, Quiet
    <2>4. QED
      BY <1>1, <1>6, <1>7, <2>1, <2>2, <2>3, Zenon DEF AtAnswer
  <1>11. QED
    BY <1>2, <1>3, <1>4, <1>5, <1>6, <1>8, <1>9, <1>10, Zenon DEF Regular

LEMMA ServeAbandonedStep ==
  ASSUME IInv, ServeAbandoned
  PROVE  IInv'
  <1>1. /\ link' = link /\ config' = config /\ phase' = phase /\ client' = client
        /\ asked' = asked /\ outcome' = outcome /\ stops' = stops /\ disturbed' = disturbed
    BY DEF ServeAbandoned, ServerUnchanged, faultVars
  <1>2. PICK l \in abandoned :
           /\ \E m \in Handled(l) :
                 abandoned' = (abandoned \ {l})
                              \cup (IF m.alive /\ m.toServer # <<>> THEN {m} ELSE {})
           /\ Execute(l)
    BY DEF ServeAbandoned
  <1>3. PICK m \in Handled(l) :
           abandoned' = (abandoned \ {l}) \cup (IF m.alive /\ m.toServer # <<>> THEN {m} ELSE {})
    BY <1>2
  <1>4. /\ l \in Link /\ ~l.open /\ l.alive /\ l.toServer # <<>> /\ l.toClient = <<>> /\ Known(l)
        /\ abandoned \subseteq Link /\ executed \in Seq(Call)
    BY <1>2 DEF IInv, Types, Abandoned
  <1>5. Shape(l, m)
    BY <1>3, <1>4, HandledShape
  <1>6. /\ m \in Link /\ ~m.open /\ m.toClient = <<>> /\ (m.authed => l.authed \/ config.key = "right")
    BY <1>4, <1>5, Zenon DEF Shape, Answered
  <1>7. Known(m)
    BY <1>4, <1>5, KnownTaken
  <1>8. Fewer(l, m) /\ (Once(l) /\ Executes(l) => ~Waits(m, Next1(l).seq))
    BY <1>4, <1>5, TakenWaits DEF Shape
  <1> DEFINE n == Next1(l).seq
  <1>9. \A k \in abandoned : Once(k) /\ \A c \in Nat : Waits(k, c) =>
             /\ c \in Call /\ outcome[c] = "lost" /\ ~Executed(c) /\ ~Waits(link, c)
             /\ \A j \in abandoned : Waits(j, c) => j = k
    BY DEF IInv, Requested, LeftBehind
  <1>10. Executes(l) => /\ Waits(l, n) /\ n \in Nat /\ n \in Call /\ outcome[n] = "lost" /\ ~Executed(n)
                        /\ ~Waits(link, n) /\ \A j \in abandoned : Waits(j, n) => j = l
    BY <1>2, <1>4, <1>9, ExecutingWaits
  <1>11. /\ \A c : Executed(c)' <=> Executed(c) \/ (Executes(l) /\ c = n)
         /\ Executes(l) \/ executed' = executed
         /\ \A k \in DOMAIN executed' :
               \/ k \in DOMAIN executed /\ executed'[k] = executed[k]
               \/ Executes(l) /\ executed'[k] = n
         /\ \A k \in DOMAIN executed : k \in DOMAIN executed' /\ executed'[k] = executed[k]
    BY <1>2, <1>4, Executing
  <1>12. executed' \in Seq(Call)
    <2>1. CASE Executes(l)
      <3>1. executed' = Append(executed, n) /\ n \in Call
        BY <1>2, <1>10, <2>1 DEF Execute
      <3>2. QED
        BY <1>4, <3>1
    <2>2. CASE ~Executes(l)
      BY <1>4, <1>11, <2>2
    <2>3. QED
      BY <2>1, <2>2
  <1> HIDE DEF n
  <1>13. Types'
    <2>1. abandoned' \subseteq Link
      BY <1>3, <1>4, <1>6
    <2>2. QED
      BY <1>1, <1>12, <2>1, Zenon DEF IInv, Types, Call
  <1>14. Session'
    <2>1. CASE ~link.open
      BY <1>1, <2>1, Zenon DEF IInv, Session, Closed1
    <2>2. CASE link.open
      <3>1. Regular => Regular'
        BY <1>1, SameRegular
      <3>2. Degraded => Degraded'
        BY <1>1, Zenon DEF Degraded
      <3>3. QED
        BY <1>1, <2>2, <3>1, <3>2 DEF IInv, Session
    <2>3. QED
      BY <2>1, <2>2
  <1>15. Abandoned'
    <2>1. Known(link)'
      BY <1>1, Zenon DEF IInv, Abandoned, Known
    <2>2. \A k \in abandoned' : k \in abandoned \/ (k = m /\ m.alive /\ m.toServer # <<>>)
      BY <1>3
    <2>3. \A k \in abandoned' : ~k.open /\ k.alive /\ k.toServer # <<>> /\ k.toClient = <<>> /\ Known(k)
      BY <1>6, <1>7, <2>2, Zenon DEF IInv, Abandoned
    <2>4. QED
      BY <2>1, <2>3 DEF Abandoned
  <1>16. Keyless'
    <2>1. Executes(l) => l.authed
      BY DEF Executes
    <2>2. \A k \in abandoned' : k \in abandoned \/ k = m
      BY <1>3
    <2>3. QED
      BY <1>1, <1>2, <1>6, <1>11, <2>1, <2>2, Zenon DEF IInv, Keyless
  <1>17. Outcomes'
    <2>1. \A k \in DOMAIN executed' : executed'[k] <= asked
      <3>1. \A k \in DOMAIN executed : executed[k] <= asked
        BY DEF IInv, Requested, Outcomes
      <3>2. Executes(l) => n <= asked
        <4>1. asked \in Nat
          BY LinkAssumption DEF IInv, Types
        <4>2. Executes(l) => ~(n > asked) /\ n \in Nat
          BY <1>10 DEF IInv, Requested, Outcomes
        <4>3. QED
          BY <4>1, <4>2
      <3>3. QED
        BY <1>11, <3>1, <3>2
    <2>2. QED
      BY <1>1, <2>1, Zenon DEF IInv, Requested, Outcomes, Call
  <1>18. InLink'
    <2>1. \A c \in Nat : Waits(link, c)' => Waits(link, c) /\ ~(Executes(l) /\ c = n)
      BY <1>1, <1>10, Zenon DEF Waits
    <2>2. \A c \in Nat : Waits(link, c)' =>
             /\ c \in Call /\ outcome'[c] \in {"asked", "lost"} /\ ~Executed(c)'
             /\ c = asked' => phase' \in {"idle", "answer"}
      BY <1>1, <1>11, <2>1, Zenon DEF IInv, Requested, InLink
    <2>3. Once(link)'
      BY <1>1, Zenon DEF IInv, Requested, InLink, Once
    <2>4. phase' \notin {"idle", "answer"} => ~Executed(asked)'
      <3>1. phase \notin {"idle", "answer"} => ~Executed(asked)
        BY DEF IInv, Requested, InLink
      <3>2. phase \notin {"idle", "answer"} => ~(Executes(l) /\ asked = n)
        <4>1. \A c \in Call : outcome[c] = "asked" <=> c = asked /\ phase # "idle"
          BY DEF IInv, Requested, Outcomes
        <4>2. QED
          BY <1>10, <4>1
      <3>3. phase \notin {"idle", "answer"} => ~(\E k \in DOMAIN executed' : executed'[k] = asked)
        BY <1>11, <3>1, <3>2, Zenon DEF Executed
      <3>4. QED
        BY <1>1, <3>3, Zenon DEF Executed
    <2>5. \A k \in DOMAIN link'.toClient :
             link'.toClient[k].op \in Replies =>
                 \E j \in DOMAIN executed' : executed'[j] = link'.toClient[k].seq
      <3>1. \A k \in DOMAIN link.toClient :
               link.toClient[k].op \in Replies =>
                   \E j \in DOMAIN executed : executed[j] = link.toClient[k].seq
        BY DEF IInv, Requested, InLink, Executed
      <3>2. \A c : (\E j \in DOMAIN executed : executed[j] = c) => \E j \in DOMAIN executed' : executed'[j] = c
        BY <1>11, Zenon
      <3>3. QED
        BY <1>1, <3>1, <3>2, Zenon
    <2>6. QED
      BY <2>2, <2>3, <2>4, <2>5, Zenon DEF InLink, Call, Executed
  <1>19. LeftBehind'
    <2>1. \A k \in abandoned' : (k \in abandoned /\ k # l) \/ k = m
      BY <1>3
    <2>2. \A c \in Nat : Waits(m, c) => Waits(l, c) /\ ~(Executes(l) /\ c = n)
      <3>1. Once(l)
        BY <1>2, <1>9
      <3>2. Executes(l) => ~Waits(m, n)
        BY <1>8, <3>1 DEF n
      <3>3. QED
        BY <1>8, <3>2 DEF Fewer
    <2>3. Once(m)
      BY <1>2, <1>8, <1>9 DEF Fewer
    <2>4. \A k \in abandoned, c \in Nat : k # l /\ Waits(k, c) => ~(Executes(l) /\ c = n) /\ ~Waits(l, c)
      <3>1. \A k \in abandoned, c \in Nat : Waits(k, c) /\ Waits(l, c) => k = l
        BY <1>2, <1>9, Zenon
      <3>2. Executes(l) => \A k \in abandoned : Waits(k, n) => k = l
        BY <1>10
      <3>3. QED
        BY <3>1, <3>2, Zenon
    <2>5. \A k \in abandoned', c \in Nat : Waits(k, c) =>
             c \in Call /\ outcome[c] = "lost" /\ ~Executed(c) /\ ~Waits(link, c) /\ ~(Executes(l) /\ c = n)
      <3>1. \A k \in abandoned, c \in Nat : Waits(k, c) =>
               c \in Call /\ outcome[c] = "lost" /\ ~Executed(c) /\ ~Waits(link, c)
        BY <1>9, Zenon
      <3>2. QED
        BY <1>2, <2>1, <2>2, <2>4, <3>1, Zenon
    <2>6. \A k, j \in abandoned', c \in Nat : Waits(k, c) /\ Waits(j, c) => j = k
      <3>1. \A k, j \in abandoned, c \in Nat : Waits(k, c) /\ Waits(j, c) => j = k
        BY <1>9, Zenon
      <3>2. QED
        BY <2>1, <2>2, <2>4, <3>1, Zenon
    <2>7. \A k \in abandoned' : Once(k)
      BY <1>9, <2>1, <2>3, Zenon
    <2>8. \A c \in Nat : Waits(link, c)' <=> Waits(link, c)
      BY <1>1, Zenon DEF Waits
    <2>9. \A k \in abandoned' : Once(k) /\ \A c \in Nat : Waits(k, c) =>
             /\ c \in Call /\ outcome'[c] = "lost" /\ ~Executed(c)' /\ ~Waits(link, c)'
             /\ \A j \in abandoned' : Waits(j, c) => j = k
      BY <1>1, <1>11, <2>5, <2>6, <2>7, <2>8, Zenon
    <2>10. QED
      BY <2>9 DEF LeftBehind, Call
  <1>20. Undisturbed'
    BY <1>1, SameConfig, Zenon DEF IInv, Undisturbed, Call
  <1>21. QED
    BY <1>13, <1>14, <1>15, <1>16, <1>17, <1>18, <1>19, <1>20 DEF IInv, Requested

----------------------------------------------------------------------------
(* The invariant.                                                          *)

LEMMA InitHolds ==
  ASSUME Init
  PROVE  IInv
  <1>1. /\ config \in Configs /\ link = NoLink /\ abandoned = {} /\ phase = "idle" /\ client = NoClient
        /\ asked = 0 /\ outcome = [c \in Call |-> "new"] /\ executed = <<>> /\ stops = 0 /\ disturbed = FALSE
    BY DEF Init
  <1>2. Calls \in Nat /\ Stops \in Nat
    BY LinkAssumption
  <1>3. \A c \in Call : outcome[c] = "new" /\ c > 0
    BY <1>1, <1>2 DEF Call
  <1>4. Types
    <2>1. outcome \in [Call -> Outcome]
      BY <1>1 DEF Outcome
    <2>2. executed \in Seq(Call) /\ abandoned \subseteq Link
      BY <1>1
    <2>3. asked \in 0 .. Calls /\ stops \in 0 .. Stops
      BY <1>1, <1>2
    <2>4. phase \in Phase /\ disturbed \in BOOLEAN
      BY <1>1 DEF Phase
    <2>5. QED
      BY <1>1, <2>1, <2>2, <2>3, <2>4, NoLinkTyped, ClientTyped, Zenon DEF Types
  <1>5. Session
    BY <1>1, NoLinkTyped, Zenon DEF Session, Closed1
  <1>6. Abandoned
    BY <1>1, NoLinkTyped, KnownNone DEF Abandoned
  <1>7. Keyless
    BY <1>1, NoLinkTyped, Zenon DEF Keyless
  <1>8. Requested
    <2>1. \A c \in Nat : ~Waits(link, c)
      BY <1>1, NoLinkTyped, NothingWaits
    <2>2. Once(link) /\ DOMAIN link.toClient = {} /\ DOMAIN executed = {}
      BY <1>1, NoLinkTyped DEF Once
    <2>3. Outcomes
      BY <1>1, <1>3, <2>2 DEF Outcomes
    <2>4. InLink
      BY <1>1, <2>1, <2>2, Zenon DEF InLink
    <2>5. LeftBehind
      BY <1>1, Zenon DEF LeftBehind
    <2>6. QED
      BY <2>3, <2>4, <2>5 DEF Requested
  <1>9. Undisturbed
    <2>1. ~link.open /\ ~client.degraded
      BY <1>1, NoLinkTyped, ClientTyped
    <2>2. QED
      BY <1>3, <2>1 DEF Undisturbed
  <1>10. QED
    BY <1>4, <1>5, <1>6, <1>7, <1>8, <1>9 DEF IInv

LEMMA StutterHolds ==
  ASSUME IInv, UNCHANGED vars
  PROVE  IInv'
  <1>1. /\ config' = config /\ link' = link /\ abandoned' = abandoned /\ phase' = phase /\ client' = client
        /\ asked' = asked /\ outcome' = outcome /\ executed' = executed /\ stops' = stops
        /\ disturbed' = disturbed
    BY DEF vars
  <1>2. Types' /\ Abandoned' /\ Keyless'
    BY <1>1, Zenon DEF IInv, Types, Call, Abandoned, Known, Keyless
  <1>3. Session'
    <2>1. Regular => Regular'
      BY <1>1, SameRegular
    <2>2. (Degraded => Degraded') /\ (Closed1 => Closed1')
      BY <1>1, Zenon DEF Degraded, Closed1
    <2>3. QED
      BY <1>1, <2>1, <2>2 DEF IInv, Session
  <1>4. Requested'
    <2>1. \A l, c : /\ Waits(l, c)' <=> Waits(l, c)
                    /\ Waits(link, c)' <=> Waits(link, c)
                    /\ Once(l)' <=> Once(l)
                    /\ Once(link)' <=> Once(link)
                    /\ Executed(c)' <=> Executed(c)
      BY <1>1, Zenon DEF Waits, Once, Executed
    <2>2. Outcomes'
      BY <1>1, Zenon DEF IInv, Requested, Outcomes, Call
    <2>3. InLink'
      <3>1. \A k \in DOMAIN link'.toClient :
             link'.toClient[k].op \in Replies =>
                 \E j \in DOMAIN executed' : executed'[j] = link'.toClient[k].seq
        BY <1>1, Zenon DEF IInv, Requested, InLink, Executed
      <3>2. \A c \in Nat : Waits(link, c)' =>
             /\ c \in Call /\ outcome'[c] \in {"asked", "lost"} /\ ~Executed(c)'
             /\ c = asked' => phase' \in {"idle", "answer"}
        BY <1>1, <2>1, Zenon DEF IInv, Requested, InLink
      <3>3. Once(link)' /\ (phase' \notin {"idle", "answer"} => ~Executed(asked)')
        BY <1>1, Zenon DEF IInv, Requested, InLink, Once, Executed
      <3>4. QED
        BY <3>1, <3>2, <3>3, Zenon DEF InLink, Call, Executed
    <2>4. LeftBehind'
      <3>1. \A k \in abandoned' : Once(k) /\ \A c \in Nat : Waits(k, c) =>
             /\ c \in Call /\ outcome'[c] = "lost" /\ ~Executed(c)' /\ ~Waits(link, c)'
             /\ \A j \in abandoned' : Waits(j, c) => j = k
        BY <1>1, <2>1, Zenon DEF IInv, Requested, LeftBehind
      <3>2. QED
        BY <3>1 DEF LeftBehind, Call
    <2>5. QED
      BY <2>2, <2>3, <2>4 DEF Requested
  <1>5. Undisturbed'
    BY <1>1, SameConfig, Zenon DEF IInv, Undisturbed, Call
  <1>6. QED
    BY <1>2, <1>3, <1>4, <1>5 DEF IInv

\* The inductive invariant holds for every set of configurations, number of
\* requests and of stops.
THEOREM InvariantHolds == Spec => []IInv
  <1>1. Init => IInv
    BY InitHolds
  <1>2. IInv /\ [Next]_vars => IInv'
    <2> SUFFICES ASSUME IInv, [Next]_vars
                 PROVE  IInv'
      OBVIOUS
    <2>1. CASE Ask \/ Connect \/ ConnectFails
      BY <2>1, AskStep, ConnectStep, ConnectFailsStep
    <2>2. CASE TakeChallenge \/ TakeAuthOk \/ TakeCapsOk \/ TakeHello \/ TakeDictSyncOk
      BY <2>2, TakeChallengeStep, TakeAuthOkStep, TakeCapsOkStep, TakeHelloStep, TakeDictSyncOkStep
    <2>3. CASE Request \/ TakeAnswer \/ TakeWrongBody
      BY <2>3, RequestStep, TakeAnswerStep, TakeWrongBodyStep
    <2>4. CASE Timeout \/ Fail \/ Degrade \/ DegradeFails
      BY <2>4, FailingSteps, DegradeStep
    <2>5. CASE Serve \/ ServeAbandoned \/ Stop
      BY <2>5, ServeStep, ServeAbandonedStep, StopStep
    <2>6. CASE UNCHANGED vars
      BY <2>6, StutterHolds
    <2>7. QED
      BY <2>1, <2>2, <2>3, <2>4, <2>5, <2>6 DEF Next
  <1>3. QED
    BY <1>1, <1>2, PTL DEF Spec

----------------------------------------------------------------------------
(* What it says of the link.                                               *)

LEMMA OneFrame ==
  ASSUME IInv
  PROVE  client.degraded \/ Len(link.toServer) <= 1
  <1>0. link.toServer = <<>> \/ (\E f : link.toServer = <<f>>) => Len(link.toServer) <= 1
    <2>1. link.toServer = <<>> => Len(link.toServer) <= 1
      OBVIOUS
    <2>2. ASSUME NEW f, link.toServer = <<f>>
          PROVE  Len(link.toServer) <= 1
      BY <2>2
    <2>3. QED
      BY <2>1, <2>2
  <1> SUFFICES ASSUME ~client.degraded
               PROVE  link.toServer = <<>> \/ \E f : link.toServer = <<f>>
    BY <1>0
  <1>1. CASE ~link.open
    BY <1>1, NoLinkTyped DEF IInv, Session, Closed1
  <1>2. CASE link.open
    <2>1. Regular /\ phase \in Phase /\ phase # "connect"
      BY <1>2, Zenon DEF IInv, Session, Degraded, Types
    <2>2. \A f : Sending(f) \/ Arriving(f) \/ Gone \/ Quiet \/ Refused(f) =>
                 link.toServer = <<>> \/ \E g : link.toServer = <<g>>
      BY DEF Sending, Arriving, Gone, Quiet, Refused
    <2>3. AtChallenge \/ AtAuth \/ AtCaps =>
                 link.toServer = <<>> \/ \E g : link.toServer = <<g>>
      BY <2>2, Zenon DEF AtChallenge, AtAuth, AtCaps
    <2>4. AtHello \/ AtSync \/ AtReady \/ (Established /\ Quiet) \/ AtAnswer =>
                 link.toServer = <<>> \/ \E g : link.toServer = <<g>>
      BY <2>2, Zenon DEF AtHello, AtSync, AtReady, AtAnswer
    <2>5. QED
      BY <2>1, <2>3, <2>4 DEF Regular, Phase
  <1>3. QED
    BY <1>1, <1>2

\* Every state has the types of the model, and a client that negotiated never
\* has two frames on their way to the peer.
THEOREM TypeCorrect == Spec => []TypeOK
  <1>1. IInv => TypeOK
    BY OneFrame DEF IInv, Types, Client, TypeOK
  <1>2. QED
    BY <1>1, InvariantHolds, PTL

\* A peer that asks for a key carries out nothing for a client without it,
\* on no connection of any behaviour, the degraded ones included.
THEOREM KeylessIsNeverServed == Spec => []KeylessNeverServed
  <1>1. IInv => KeylessNeverServed
    BY DEF IInv, Keyless, KeylessNeverServed
  <1>2. QED
    BY <1>1, InvariantHolds, PTL

\* Between ends that fit, undisturbed, no request fails, no connection is
\* degraded and the client never waits for a frame that is not coming.
THEOREM HandshakeHolds == Spec => []HandshakeNeverFails
  <1>1. IInv => HandshakeNeverFails
    <2> SUFFICES ASSUME IInv, Compatible, ~disturbed
                 PROVE  /\ \A c \in Call : outcome[c] # "lost"
                        /\ ~client.degraded
                        /\ Waiting => link.toServer # <<>> \/ link.toClient # <<>>
      BY DEF HandshakeNeverFails
    <2>1. (\A c \in Call : outcome[c] # "lost") /\ ~client.degraded
      BY DEF IInv, Undisturbed
    <2>2. Waiting => link.toServer # <<>> \/ link.toClient # <<>>
      BY NoBreak DEF Progressing
    <2>3. QED
      BY <2>1, <2>2
  <1>2. QED
    BY <1>1, InvariantHolds, PTL

(***************************************************************************)
(* Both ends hold the same of a connection.                                *)
(***************************************************************************)
LEMMA GrantsHold ==
  ASSUME IInv
  PROVE  GrantsAgree
  <1> SUFFICES ASSUME Negotiated
               PROVE  /\ client.caps = link.caps
                      /\ client.caps \subseteq config.wanted \cap config.announced
                      /\ client.caps \cap {"ZSTD", "ZSTD_V"} # {} => config.peerTrains
    BY DEF GrantsAgree
  <1>1. link.open /\ ~client.degraded /\ phase \in {"idle", "ready", "answer"} /\ Configured
    BY ConfigTyped DEF Negotiated, IInv, Types
  <1>2. Regular
    BY <1>1, Zenon DEF IInv, Session, Degraded
  <1>3. Established \/ Unheard
    BY <1>1, <1>2 DEF Regular, AtReady, AtAnswer
  <1>4. CASE Established
    BY <1>1, <1>4, GrantedTyped DEF Established, G, Configured, Config
  <1>5. CASE Unheard
    BY <1>5 DEF Unheard, Untouched
  <1>6. QED
    BY <1>3, <1>4, <1>5

LEMMA InStepHolds ==
  ASSUME IInv
  PROVE  InStep
  <1> SUFFICES ASSUME link.open, link.authed, ~client.degraded, phase \in {"idle", "ready"}
               PROVE  link.toServer = <<>> /\ link.toClient = <<>>
    BY DEF InStep
  <1>1. Regular
    BY Zenon DEF IInv, Session, Degraded
  <1>2. Quiet
    BY <1>1 DEF Regular, AtReady, Unheard
  <1>3. QED
    BY <1>2 DEF Quiet

Unproved(frame) == frame.codec = "zstd_dict" /\ ~config.sameZstd
LEMMA PeerReads ==
  ASSUME IInv, link.alive, link.toServer # <<>>
  PROVE  Readable(link) \/ Unproved(Next1(link))
  <1>1. link.open /\ link \in Link /\ phase \in Phase
    BY NoLinkTyped DEF IInv, Session, Closed1, Types
  <1>2. \A f : Sending(f) => Next1(link) = f
    BY DEF Sending, Next1
  <1>3. \A codec, d : codec \in {"plain", "lz4"} => Decodable(codec, d)
    BY DEF Decodable
  <1>4. CASE Degraded
    <2>1. 1 \in DOMAIN link.toServer /\ Next1(link) = link.toServer[1]
      BY <1>1 DEF Link, Next1
    <2>2. Next1(link).codec = "plain"
      BY <1>4, <2>1 DEF Degraded
    <2>3. QED
      BY <1>3, <2>2 DEF Readable
  <1>5. CASE Regular /\ link.authed
    <2>1. OnItsWay
      BY <1>5, OnItsWayLemma
    <2>2. CASE Next1(link) = CapsFrame \/ Next1(link) = Plain("DICT_SYNC", 3)
      BY <1>3, <2>2 DEF CapsFrame, Plain, Frame, Readable
    <2>3. CASE \E codec \in Codecs("none", G) : Sending(Frame("HELLO", 2, codec, {}))
      <3>1. PICK codec \in Codecs("none", G) : Sending(Frame("HELLO", 2, codec, {}))
        BY <2>3
      <3>2. Next1(link).codec = codec /\ codec \in {"plain", "lz4"}
        BY <1>2, <3>1, SmallCodecs DEF Frame
      <3>3. QED
        BY <1>3, <3>2 DEF Readable
    <2>4. CASE Established /\ \E codec \in Codecs(Settled, G) : Next1(link) = Request1(codec)
      <3>1. PICK codec \in Codecs(Settled, G) : Next1(link) = Request1(codec)
        BY <2>4
      <3>2. Next1(link).codec = codec
        BY <3>1 DEF Request1, Frame
      <3>3. Decodable(codec, Settled) \/ (codec = "zstd_dict" /\ ~config.sameZstd)
        BY <3>1, SettledDecodable
      <3>4. ServerDict(link) = Settled
        BY <2>4 DEF Established, ServerDict
      <3>5. QED
        BY <3>2, <3>3, <3>4 DEF Readable, Unproved
    <2>5. QED
      BY <2>1, <2>2, <2>3, <2>4 DEF OnItsWay
  <1>6. CASE Regular /\ ~link.authed
    <2>1. ~AtChallenge /\ ~AtHello /\ ~AtSync /\ ~AtReady /\ ~(Established /\ Quiet)
      BY <1>6 DEF AtChallenge, AtHello, AtSync, AtReady, Established, Introduced, Unheard, Arriving, Quiet
    <2>2. \A f : Refused(f) => Next1(link) = f
      BY DEF Refused, Next1
    <2>3. Next1(link) = Response \/ Next1(link) = CapsFrame \/ Next1(link) = Request1("plain")
      <3>1. AtAuth => Next1(link) = Response
        BY <1>2, <1>6 DEF AtAuth, Gone, Quiet
      <3>2. AtCaps => Next1(link) = CapsFrame
        BY <1>6, <2>2 DEF AtCaps, Introduced
      <3>3. AtAnswer => Next1(link) = Request1("plain")
        BY <1>6, <2>2 DEF AtAnswer, Established
      <3>4. QED
        BY <1>1, <1>6, <2>1, <3>1, <3>2, <3>3 DEF Regular, Phase, IInv, Session
    <2>4. Next1(link).codec = "plain"
      BY <2>3 DEF Response, CapsFrame, Request1, Plain, Frame
    <2>5. QED
      BY <1>3, <2>4 DEF Readable
  <1>7. QED
    BY <1>1, <1>4, <1>5, <1>6 DEF IInv, Session

LEMMA ClientReads ==
  ASSUME IInv, link.toClient # <<>>
  PROVE  Decodable(Head(link.toClient).codec, client.dict) \/ Unproved(Head(link.toClient))
  <1>1. link.open /\ link \in Link /\ phase \in Phase
    BY NoLinkTyped DEF IInv, Session, Closed1, Types
  <1>2. \A f : Arriving(f) => Head(link.toClient) = f
    BY DEF Arriving
  <1>3. \A f : Refused(f) => Head(link.toClient) = Challenge
    BY DEF Refused
  <1>4. \A codec, d : codec \in {"plain", "lz4"} => Decodable(codec, d)
    BY DEF Decodable
  <1>5. \A f : ~Sending(f) /\ ~Gone /\ ~Quiet
    BY DEF Sending, Gone, Quiet
  <1>6. CASE Degraded
    <2>1. 1 \in DOMAIN link.toClient /\ Head(link.toClient) = link.toClient[1]
      BY <1>1 DEF Link
    <2>2. Head(link.toClient).codec \in {"plain", "lz4"}
      BY <1>6, <2>1 DEF Degraded
    <2>3. QED
      BY <1>4, <2>2
  <1>7. CASE Regular
    <2>1. Challenge.codec = "plain" /\ \A op, n, C : Frame(op, n, "plain", C).codec = "plain"
      BY DEF Challenge, Plain, Frame
    <2> DEFINE codec1 == Head(link.toClient).codec
    <2>2. AtChallenge => codec1 = "plain"
      BY <1>2, <1>5, <2>1 DEF AtChallenge
    <2>3. AtAuth => codec1 = "plain"
      BY <1>2, <1>5, <2>1 DEF AtAuth, Plain
    <2>4. AtCaps => codec1 = "plain"
      BY <1>2, <1>3, <1>5, <2>1 DEF AtCaps
    <2>5. AtHello => codec1 \in {"plain", "lz4"}
      <3>1. SUFFICES ASSUME AtHello
                     PROVE  codec1 \in {"plain", "lz4"}
        OBVIOUS
      <3>2. PICK codec \in Codecs("none", G) : Arriving(Frame("HELLO", 2, codec, {}))
        BY <1>5, <3>1 DEF AtHello
      <3>3. QED
        BY <1>2, <3>2, SmallCodecs DEF Frame
    <2>6. AtSync => codec1 = "plain"
      BY <1>2, <1>5, <2>1 DEF AtSync, Plain
    <2>7. AtReady => codec1 = "plain"
      BY <1>5, <2>1 DEF AtReady, Unheard
    <2>8. ASSUME AtAnswer
          PROVE  Decodable(codec1, client.dict) \/ (codec1 = "zstd_dict" /\ ~config.sameZstd)
      <3>1. CASE \E f : Refused(f)
        BY <1>3, <1>4, <2>1, <3>1
      <3>2. CASE Established /\ \E codec \in Codecs(Settled, G) : Arriving(Answer1(codec))
        <4>1. PICK codec \in Codecs(Settled, G) : Arriving(Answer1(codec))
          BY <3>2
        <4>2. codec1 = codec
          BY <1>2, <4>1 DEF Answer1, Frame
        <4>3. QED
          BY <3>2, <4>1, <4>2, SettledDecodable DEF Established
      <3>3. QED
        BY <1>5, <2>8, <3>1, <3>2 DEF AtAnswer
    <2> HIDE DEF codec1
    <2>9. phase # "connect" /\ ~(phase = "idle")
      BY <1>1, <1>5, <1>7 DEF Regular, IInv, Session
    <2>10. codec1 \in {"plain", "lz4"} \/ AtAnswer
      BY <1>1, <1>7, <2>2, <2>3, <2>4, <2>5, <2>6, <2>7, <2>9 DEF Regular, Phase
    <2>11. QED
      BY <1>4, <2>8, <2>10 DEF codec1, Unproved
  <1>8. QED
    BY <1>1, <1>6, <1>7 DEF IInv, Session

\* Both ends hold the same capabilities, each reads the frame that is next for
\* it unless trained bytes were never verified, and a connection that is kept
\* has no late frame on it.
THEOREM EndsAlwaysAgree == Spec => []EndsAgree
  <1>1. IInv => EndsAgree
    <2> SUFFICES ASSUME IInv
                 PROVE  EndsAgree
      OBVIOUS
    <2>1. GrantsAgree /\ InStep
      BY GrantsHold, InStepHolds
    <2>2. CodecsAgree
      BY PeerReads, ClientReads DEF CodecsAgree, Unproved
    <2>3. QED
      BY <2>1, <2>2 DEF EndsAgree
  <1>2. QED
    BY <1>1, InvariantHolds, PTL

(***************************************************************************)
(* The link implements RemoteCall: the client's and the peer's steps map   *)
(* to its actions, every other step leaves outcomes and executions alone.  *)
(***************************************************************************)
LEMMA AskBegins ==
  ASSUME IInv, Ask
  PROVE  asked + 1 \in Call /\ Remote!Begin(asked + 1)
  <1>1. /\ phase = "idle" /\ asked < Calls /\ executed' = executed
        /\ outcome' = [outcome EXCEPT ![asked + 1] = "asked"]
    BY DEF Ask
  <1>2. asked \in 0 .. Calls /\ Calls \in Nat
    BY LinkAssumption DEF IInv, Types
  <1>3. asked + 1 \in Call /\ \A d \in Call : d > asked <=> ~(d < asked + 1)
    BY <1>1, <1>2 DEF Call
  <1>4. /\ \A d \in Call : outcome[d] = "new" <=> d > asked
        /\ \A d \in Call : outcome[d] # "asked"
    BY <1>1 DEF IInv, Requested, Outcomes
  <1>5. asked + 1 > asked
    BY <1>2
  <1>6. /\ outcome[asked + 1] = "new"
        /\ \A d \in Call : outcome[d] # "asked" /\ (d < asked + 1 => outcome[d] # "new")
    BY <1>3, <1>4, <1>5
  <1>7. QED
    BY <1>1, <1>3, <1>6 DEF Remote!Begin, Remote!Call, Call

LEMMA LosingGivesUp ==
  ASSUME IInv, phase # "idle", Settle("lost")
  PROVE  asked \in Call /\ Remote!GiveUp(asked)
  <1>1. asked \in Call /\ outcome[asked] = "asked"
    BY Settling
  <1>2. QED
    BY <1>1 DEF Settle, Remote!GiveUp

LEMMA AnswerAnswers ==
  ASSUME IInv, TakeAnswer
  PROVE  asked \in Call /\ Remote!Answer(asked)
  <1>1. phase = "answer" /\ Expected /\ Arrived /\ Settle("answered")
    BY DEF TakeAnswer, Await, Expected
  <1>2. link \in Link /\ client \in Client
    BY <1>1, InAnswer
  <1>3. /\ link.toClient # <<>> /\ Head(link.toClient).op = ReplyOf(client.op)
        /\ Head(link.toClient).seq = asked
    BY <1>1 DEF Expected, Arrived, Correlated, ExpectedOp, ExpectedSeq
  <1>4. Executed(asked)
    <2>1. ReplyOf(client.op) \in Replies
      BY <1>2 DEF Client, Work, ReplyOf, Replies
    <2>2. link.toClient \in Seq(Frames)
      BY <1>2 DEF Link
    <2>3. 1 \in DOMAIN link.toClient /\ link.toClient[1] = Head(link.toClient)
      BY <1>3, <2>2
    <2>4. QED
      BY <1>3, <2>1, <2>3 DEF IInv, Requested, InLink
  <1>5. asked \in Call /\ outcome[asked] = "asked"
    BY <1>1, Settling
  <1>6. QED
    BY <1>1, <1>4, <1>5 DEF Settle, Remote!Answer, Remote!Executed, Executed

LEMMA ExecutingExecutes ==
  ASSUME IInv, Serve \/ ServeAbandoned
  PROVE  (\E c \in Call : Remote!Execute(c)) \/ UNCHANGED <<outcome, executed>>
  <1>1. outcome' = outcome
    BY DEF Serve, ServeAbandoned, ServerUnchanged
  <1>2. \A l \in abandoned : l \in Link /\ l.toServer # <<>>
    BY DEF IInv, Types, Abandoned
  <1>3. PICK l : /\ l = link \/ l \in abandoned
                 /\ l \in Link /\ l.toServer # <<>> /\ Execute(l)
    BY <1>2 DEF Serve, ServeAbandoned, IInv, Types
  <1>4. CASE Executes(l)
    <2>1. Waits(l, Next1(l).seq) /\ Next1(l).seq \in Nat
      BY <1>3, <1>4, ExecutingWaits
    <2>2. /\ Next1(l).seq \in Call /\ outcome[Next1(l).seq] \in {"asked", "lost"}
          /\ ~Executed(Next1(l).seq)
      BY <1>3, <2>1 DEF IInv, Requested, InLink, LeftBehind
    <2>3. executed' = Append(executed, Next1(l).seq)
      BY <1>3, <1>4 DEF Execute
    <2>4. QED
      BY <1>1, <2>2, <2>3 DEF Remote!Execute, Remote!Executed, Executed
  <1>5. CASE ~Executes(l)
    BY <1>1, <1>3, <1>5 DEF Execute
  <1>6. QED
    BY <1>4, <1>5

\* Each request is carried out at most once and before it is answered, on
\* whatever connections it travels and however often the peer stops.
THEOREM LinkImplementsRemoteCall == Spec => ImplementsRemoteCall
  <1>1. Init => Remote!Init
    BY DEF Init, Remote!Init, Call, Remote!Call
  <1>2. IInv /\ [Next]_vars => [Remote!Next]_(Remote!call)
    <2> SUFFICES ASSUME IInv, [Next]_vars
                 PROVE  Remote!Next \/ UNCHANGED <<outcome, executed>>
      BY DEF Remote!call
    <2>0. Call = Remote!Call
      BY DEF Call, Remote!Call
    <2>1. CASE Ask
      BY <2>0, <2>1, AskBegins DEF Remote!Next
    <2>2. CASE TakeAnswer
      BY <2>0, <2>2, AnswerAnswers DEF Remote!Next
    <2>3. CASE ConnectFails \/ TakeWrongBody \/ Timeout \/ Fail \/ DegradeFails
      <3>1. phase # "idle" /\ Settle("lost")
        BY <2>3 DEF ConnectFails, TakeWrongBody, Timeout, Fail, DegradeFails, Broken, Waiting
      <3>2. QED
        BY <2>0, <3>1, LosingGivesUp DEF Remote!Next
    <2>4. CASE TakeHello
      <3>1. phase = "hello"
        BY <2>4 DEF TakeHello, Await
      <3>2. Settle("lost") \/ UNCHANGED <<outcome, executed>>
        BY <2>4, Zenon DEF TakeHello, Install, callVars
      <3>3. QED
        BY <2>0, <3>1, <3>2, LosingGivesUp DEF Remote!Next
    <2>5. CASE Serve \/ ServeAbandoned
      BY <2>0, <2>5, ExecutingExecutes DEF Remote!Next
    <2>6. CASE Connect \/ TakeChallenge \/ TakeAuthOk \/ TakeCapsOk \/ Request \/ Degrade \/ Stop
      BY <2>6 DEF Connect, TakeChallenge, TakeAuthOk, TakeCapsOk, Request, Degrade, Stop, callVars
    <2>7. CASE TakeDictSyncOk
      BY <2>7 DEF TakeDictSyncOk, Install, callVars
    <2>8. CASE UNCHANGED vars
      BY <2>8 DEF vars
    <2>9. QED
      BY <2>1, <2>2, <2>3, <2>4, <2>5, <2>6, <2>7, <2>8 DEF Next
  <1>3. QED
    BY <1>1, <1>2, InvariantHolds, PTL DEF Spec, ImplementsRemoteCall, Remote!Spec
=============
