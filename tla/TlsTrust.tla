------------------------------ MODULE TlsTrust ------------------------------
(***************************************************************************)
(* Whom the bus trusts over TLS (vbl-fxp tls.rs, bus.rs) and how a peer    *)
(* remembers its sessions (sessoes.rs).                                    *)
(*                                                                         *)
(*   Connect --> Resume --(session not known)--> Full --> Finish           *)
(*                                   first use --> OpenTmp, Write, Rename  *)
(*                                                                         *)
(* Clients are processes with a TOFU store of their own over one file.     *)
(* Persisting goes step by step, since a process may be killed in it and   *)
(* every process writes the same temporary file.  Cryptography is ideal,   *)
(* and rustls (which offers a ticket once, and verifies a certificate only *)
(* in a full handshake) is modelled from how the code uses it, with one    *)
(* ticket for each connection where it sends a few.                        *)
(***************************************************************************)
EXTENDS Integers, Sequences, FiniteSets

CONSTANTS
    Client,     \* processes that connect
    Target,     \* "host:port" of the peers, all of one host
    Cert,       \* fingerprints of certificates
    Endpoints,  \* the trust the endpoints may declare: set of [Target -> TrustKind]
    Pins,       \* [Target -> SUBSET Cert]: the pins of a "pin" endpoint
    Known,      \* [Target -> SUBSET Cert]: the store at the beginning
    Shown,      \* [Target -> Cert]: what the peers show at the beginning
    Torn,       \* a file half written
    NoFile,     \* no file
    Closed,     \* a store not opened yet
    Teto,       \* capacity of a session store
    IdadeMax,   \* IDADE_MAX_SECS
    Sessions,   \* bound: sessions issued
    Restarts,   \* bound: restarts of clients and of peers
    Rotations,  \* bound: pins added or removed
    End         \* bound: the last instant

TrustKind == {"pin", "tofu", "estrito"}
NoLink == [target |-> "none", cert |-> "none"]
Entries == [Target -> SUBSET Cert]
Id == 1 .. Sessions

ASSUME TrustAssumption ==
    /\ Endpoints \subseteq [Target -> TrustKind]
    /\ Pins \in Entries /\ Known \in Entries /\ Shown \in [Target -> Cert]
    /\ {Teto, IdadeMax, Sessions, Restarts, Rotations, End} \subseteq Nat
    /\ Teto > 0
    /\ "none" \notin Target \cup Cert
    /\ Torn # NoFile /\ {Torn, NoFile, Closed} \cap Entries = {}

VARIABLES
    declared,   \* [Target -> TrustKind], which the endpoint of each peer declares
    now,        \* clock of the peers
    file, tmp,  \* the TOFU store on disk and the temporary file beside it
    fd,         \* [Client -> the name its open file has now: "tmp" or "file"]
    store,      \* [Client -> Entries or Closed]: entradas
    verifier,   \* [Client -> keys of cache_configs -> the target of its verifier]
    ticket,     \* [Client -> keys -> Id or 0]: the ticket in the config
    pc, job,    \* [Client -> ...]: the handshake or rotation under way
    cert,       \* [Target -> Cert]: what the peer shows
    sessions,   \* [Target -> SUBSET [id, at]]: the session store in memory
    saved,      \* [Target -> ...]: the session store on disk
    issued,     \* Seq of [target, cert, at]: history of every session
    presented,  \* history: the sessions a ClientHello has named
    taken,      \* history, [Id -> Nat]: how often a session was resumed
    verified,   \* history, [Client -> SUBSET (Target \X Cert)]
    learned,    \* history, [Target -> SUBSET Cert]: first uses accepted and recorded
    link,       \* [Client -> the connection established in this step, or NoLink]
    budget      \* [restarts, rotations] left

disk == <<file, tmp, fd>>
trust == <<store, verifier, verified, learned>>
client == <<pc, job, ticket, link>>
server == <<cert, sessions, saved, issued, presented, taken>>
vars == <<declared, now, disk, trust, client, server, budget>>

Job == [target : Target \cup {"none"}, cert : Cert \cup {"none"},
        offered : Id \cup {0}, why : {"none", "learn", "rotate"}]
Issued == [target : Target, cert : Cert, at : 0 .. End]
NoJob == [target |-> "none", cert |-> "none", offered |-> 0, why |-> "none"]

\* ChaveConfianca: one ClientConfig, with its tickets, for each key.
KeyWithoutPort(t) == <<declared[t], Pins[t], "host">>                       \* mutant
Key(t) == <<declared[t], Pins[t], IF declared[t] = "pin" THEN "any" ELSE t>>
Keys == {Key(t) : t \in Target}

Init ==
    /\ declared \in Endpoints
    /\ now = 0
    /\ file = Known /\ tmp = NoFile /\ fd = [c \in Client |-> "none"]
    /\ store = [c \in Client |-> Closed]
    /\ verifier = [c \in Client |-> [k \in Keys |-> "none"]]
    /\ ticket = [c \in Client |-> [k \in Keys |-> 0]]
    /\ pc = [c \in Client |-> "idle"] /\ job = [c \in Client |-> NoJob]
    /\ cert = Shown
    /\ sessions = [t \in Target |-> {}] /\ saved = sessions
    /\ issued = <<>> /\ presented = {} /\ taken = [i \in Id |-> 0]
    /\ verified = [c \in Client |-> {}] /\ learned = [t \in Target |-> {}]
    /\ link = [c \in Client |-> NoLink]
    /\ budget = [restarts |-> Restarts, rotations |-> Rotations]

----------------------------------------------------------------------------
(* The client: confianca_cliente, client_config_cached, client_stream.     *)

NoLinks == [c \in Client |-> NoLink]
Goto(c, l) == pc' = [pc EXCEPT ![c] = l]
Idle(c) == Goto(c, "idle") /\ job' = [job EXCEPT ![c] = NoJob]
Refuse(c) == Idle(c) /\ link' = NoLinks

\* The store is opened for the first @tofu connection; one that cannot be read
\* fails it.  The config of the key is built once and lives with the process.
Connect(c, t) ==
    LET k == Key(t)
    IN  /\ pc[c] = "idle" /\ Len(issued) < Sessions
        /\ declared[t] # "pin" /\ store[c] = Closed => file # Torn
        /\ store' = IF declared[t] # "pin" /\ store[c] = Closed
                    THEN [store EXCEPT ![c] = file] ELSE store
        /\ verifier' = IF verifier[c][k] = "none" THEN [verifier EXCEPT ![c][k] = t] ELSE verifier
        /\ Goto(c, "hello")
        /\ job' = [job EXCEPT ![c] = [NoJob EXCEPT !.target = t, !.offered = ticket[c][k]]]
        /\ ticket' = [ticket EXCEPT ![c][k] = 0]
        /\ presented' = presented \cup ({ticket[c][k]} \ {0})
        /\ link' = NoLinks
        /\ UNCHANGED <<declared, now, disk, verified, learned, cert, sessions, saved, issued, taken, budget>>

\* VerificadorPin, VerificadorTofu: u is the target its verifier was built for.
Accepts(c, u, f) == IF declared[u] = "pin" THEN f \in Pins[u] ELSE f \in store[c][u]
FirstUseRelearns(c, u) == declared[u] = "tofu"                              \* mutant
FirstUse(c, u) == declared[u] = "tofu" /\ store[c][u] = {}

\* What the policy of t itself says of f, once the store is s.
Legitimate(t, f, s) == IF declared[t] = "pin" THEN f \in Pins[t] ELSE s # Closed /\ f \in s[t]

\* The peer does not resume the session: its certificate is verified.  A first
\* use enters the store in memory, and only then is it persisted.
Full(c) ==
    LET t == job[c].target   f == cert[t]   u == verifier[c][Key(t)]
    IN  /\ pc[c] = "hello" /\ \A s \in sessions[t] : s.id # job[c].offered
        /\ job' = [job EXCEPT ![c].cert = f, ![c].why = "learn"]
        /\ \/ Accepts(c, u, f) /\ Goto(c, "finish") /\ UNCHANGED store
           \/ ~Accepts(c, u, f) /\ FirstUse(c, u)
              /\ store' = [store EXCEPT ![c][u] = @ \cup {f}] /\ Goto(c, "open")
        /\ verified' = [verified EXCEPT ![c] =
               @ \cup {x \in {<<t, f>>} : Legitimate(t, f, store'[c])}]
        /\ link' = NoLinks
        /\ UNCHANGED <<declared, now, disk, verifier, learned, ticket, server, budget>>

FullRefused(c) ==
    LET t == job[c].target   u == verifier[c][Key(t)]
    IN  /\ pc[c] = "hello" /\ \A s \in sessions[t] : s.id # job[c].offered
        /\ ~Accepts(c, u, cert[t]) /\ ~FirstUse(c, u)
        /\ Refuse(c)
        /\ UNCHANGED <<declared, now, disk, trust, ticket, server, budget>>

Broken(c) ==
    /\ pc[c] \in {"hello", "finish"} /\ Refuse(c)
    /\ UNCHANGED <<declared, now, disk, trust, ticket, server, budget>>

----------------------------------------------------------------------------
(* TofuStore::persistir: write the temporary file, rename it over.         *)

Others(c, n) == {d \in Client \ {c} : fd[d] = n}

OpenTmp(c) ==
    /\ pc[c] = "open" /\ Goto(c, "write")
    /\ tmp' = Torn /\ fd' = [fd EXCEPT ![c] = "tmp"]
    /\ link' = NoLinks
    /\ UNCHANGED <<declared, now, file, trust, job, ticket, server, budget>>

\* serializar: always the whole map.
SerializarNew(c) ==                                                      \* mutant
    [t \in Target |-> IF t = job[c].target THEN store[c][t] ELSE {}]
Serializar(c) == store[c]

\* Another process may have renamed the file under this one's descriptor.
WriteTmp(c) ==
    /\ pc[c] = "write" /\ Goto(c, "rename")
    /\ \E text \in {Serializar(c)} \cup (IF Others(c, fd[c]) = {} THEN {} ELSE {Torn}) :
          IF fd[c] = "tmp" THEN tmp' = text /\ UNCHANGED file
                           ELSE file' = text /\ UNCHANGED tmp
    /\ link' = NoLinks
    /\ UNCHANGED <<declared, now, fd, trust, job, ticket, server, budget>>

\* A first use is accepted once it is recorded; a rotation is done.
Rename(c) ==
    /\ pc[c] = "rename" /\ tmp # NoFile
    /\ file' = tmp /\ tmp' = NoFile
    /\ fd' = [d \in Client |-> IF d = c THEN "none" ELSE IF fd[d] = "tmp" THEN "file" ELSE fd[d]]
    /\ IF job[c].why = "learn"
       THEN /\ learned' = [learned EXCEPT ![job[c].target] = @ \cup {job[c].cert}]
            /\ Goto(c, "finish") /\ UNCHANGED job
       ELSE Idle(c) /\ UNCHANGED learned
    /\ link' = NoLinks
    /\ UNCHANGED <<declared, now, store, verifier, verified, ticket, server, budget>>

\* A failing write refuses the connection; what memory holds stays.
PersistFails(c) ==
    /\ pc[c] \in {"open", "write", "rename"}
    /\ fd' = [fd EXCEPT ![c] = "none"]
    /\ Refuse(c)
    /\ UNCHANGED <<declared, now, file, tmp, trust, ticket, server, budget>>

\* adicionar_pin, remover_pin: the store in memory changes, then the file.
Rotate(c, t, pins) ==
    /\ pc[c] = "idle" /\ store[c] # Closed /\ budget.rotations > 0
    /\ store' = [store EXCEPT ![c][t] = pins]
    /\ Goto(c, "open") /\ job' = [job EXCEPT ![c] = [NoJob EXCEPT !.target = t, !.why = "rotate"]]
    /\ budget' = [budget EXCEPT !.rotations = @ - 1]
    /\ learned' = [learned EXCEPT ![t] = @ \cap pins]
    /\ link' = NoLinks
    /\ UNCHANGED <<declared, now, disk, verifier, verified, ticket, server>>

AdicionarPin(c, t, f) == store[c] # Closed /\ f \notin store[c][t] /\ Rotate(c, t, store[c][t] \cup {f})
RemoverPin(c, t, f) == store[c] # Closed /\ f \in store[c][t] /\ Rotate(c, t, store[c][t] \ {f})

----------------------------------------------------------------------------
(* CacheSessoesDisco: every operation persists under the mutex.            *)

Young(S) == {s \in S : now - s.at < IdadeMax}

\* podar: the old go, then the oldest while there are more than teto.
PodarNewest(S, kept) ==                                                  \* mutant
    /\ kept \subseteq Young(S)
    /\ Cardinality(kept) = IF Cardinality(Young(S)) > Teto THEN Teto ELSE Cardinality(Young(S))
    /\ \A s \in kept, r \in Young(S) \ kept : r.at >= s.at
PodarLoose(S, kept) ==                                                   \* mutant
    /\ kept \subseteq Young(S)
    /\ Cardinality(kept) = IF Cardinality(Young(S)) > Teto + 1 THEN Teto ELSE Cardinality(Young(S))
    /\ \A s \in kept, r \in Young(S) \ kept : r.at <= s.at
Podar(S, kept) ==
    /\ kept \subseteq Young(S)
    /\ Cardinality(kept) = IF Cardinality(Young(S)) > Teto THEN Teto ELSE Cardinality(Young(S))
    /\ \A s \in kept, r \in Young(S) \ kept : r.at <= s.at

Without(t, id) == {s \in sessions[t] : s.id # id}

\* take: gone from memory in any case, given only if the file agrees.
TakeUnpersisted(t, id, given) ==                                         \* mutant
    /\ sessions' = [sessions EXCEPT ![t] = Without(t, id)]
    /\ given /\ taken' = [taken EXCEPT ![id] = @ + 1]
    /\ UNCHANGED saved
Take(t, id, given) ==
    /\ sessions' = [sessions EXCEPT ![t] = Without(t, id)]
    /\ IF given THEN /\ saved' = [saved EXCEPT ![t] = Without(t, id)]
                     /\ taken' = [taken EXCEPT ![id] = @ + 1]
                ELSE UNCHANGED <<saved, taken>>

\* The session the ClientHello names is known: resumed without a certificate,
\* or, when its removal cannot be persisted, left for a full handshake.
Resume(c, given) ==
    LET t == job[c].target   id == job[c].offered
    IN  /\ pc[c] = "hello" /\ \E s \in sessions[t] : s.id = id
        /\ Take(t, id, given)
        /\ IF given THEN Goto(c, "finish") /\ job' = [job EXCEPT ![c].cert = issued[id].cert]
                    ELSE UNCHANGED <<pc, job>>
        /\ link' = NoLinks
        /\ UNCHANGED <<declared, now, disk, trust, ticket, cert, issued, presented, budget>>

\* A ClientHello that arrives a second time.
Replay(t, id, given) ==
    /\ id \in presented /\ \E s \in sessions[t] : s.id = id
    /\ Take(t, id, given)
    /\ link' = NoLinks
    /\ UNCHANGED <<declared, now, disk, trust, pc, job, ticket, cert, issued, presented, budget>>

\* The handshake ends; the peer stores a session and hands out its ticket,
\* unless the file could not be written.
Finish(c, put) ==
    LET t == job[c].target   id == Len(issued) + 1
    IN  /\ pc[c] = "finish" /\ id \in Id
        /\ link' = [NoLinks EXCEPT ![c] = [target |-> t, cert |-> job[c].cert]]
        /\ Idle(c)
        /\ issued' = Append(issued, [target |-> t, cert |-> job[c].cert, at |-> now])
        /\ \E kept \in SUBSET (sessions[t] \cup {[id |-> id, at |-> now]}) :
              /\ Podar(sessions[t] \cup {[id |-> id, at |-> now]}, kept)
              /\ sessions' = [sessions EXCEPT ![t] = kept]
              /\ saved' = IF put THEN [saved EXCEPT ![t] = kept] ELSE saved
        /\ ticket' = IF put THEN [ticket EXCEPT ![c][Key(t)] = id] ELSE ticket
        /\ UNCHANGED <<declared, now, disk, trust, cert, presented, taken, budget>>

----------------------------------------------------------------------------
\* A killed process leaves its files as they are.
ClientRestart(c) ==
    /\ budget.restarts > 0 /\ budget' = [budget EXCEPT !.restarts = @ - 1]
    /\ store' = [store EXCEPT ![c] = Closed]
    /\ verifier' = [verifier EXCEPT ![c] = [k \in Keys |-> "none"]]
    /\ ticket' = [ticket EXCEPT ![c] = [k \in Keys |-> 0]]
    /\ verified' = [verified EXCEPT ![c] = {}]
    /\ fd' = [fd EXCEPT ![c] = "none"]
    /\ Refuse(c)
    /\ UNCHANGED <<declared, now, file, tmp, learned, server>>

\* server_config opens the session file again; the certificate may be new.
ServerRestart(t) ==
    /\ budget.restarts > 0 /\ budget' = [budget EXCEPT !.restarts = @ - 1]
    /\ \E f \in Cert : cert' = [cert EXCEPT ![t] = f]
    /\ sessions' = [sessions EXCEPT ![t] = saved[t]]
    /\ LET cut == {c \in Client : job[c].target = t /\ pc[c] \in {"hello", "finish"}}
       IN  /\ pc' = [c \in Client |-> IF c \in cut THEN "idle" ELSE pc[c]]
           /\ job' = [c \in Client |-> IF c \in cut THEN NoJob ELSE job[c]]
    /\ link' = NoLinks
    /\ UNCHANGED <<declared, now, disk, trust, ticket, saved, issued, presented, taken>>

\* Only the age of a session is ever looked at.
Advance ==
    /\ now < End /\ issued # <<>> /\ now' = now + 1 /\ link' = NoLinks
    /\ UNCHANGED <<declared, disk, trust, pc, job, ticket, server, budget>>

Next ==
    \/ \E c \in Client :
          \/ \E t \in Target : Connect(c, t)
          \/ Full(c) \/ FullRefused(c) \/ Broken(c)
          \/ OpenTmp(c) \/ WriteTmp(c) \/ Rename(c) \/ PersistFails(c)
          \/ \E t \in Target, f \in Cert : AdicionarPin(c, t, f) \/ RemoverPin(c, t, f)
          \/ \E ok \in BOOLEAN : Resume(c, ok) \/ Finish(c, ok)
          \/ ClientRestart(c)
    \/ \E t \in Target : \/ \E id \in Id, given \in BOOLEAN : Replay(t, id, given)
                         \/ ServerRestart(t)
    \/ Advance

Spec == Init /\ [][Next]_vars

----------------------------------------------------------------------------
Ids(S) == {s.id : s \in S}

\* Types, and neither session store ever exceeds its capacity.
TypeOK ==
    /\ declared \in Endpoints /\ now \in 0 .. End
    /\ file \in Entries \cup {Torn} /\ tmp \in Entries \cup {Torn, NoFile}
    /\ fd \in [Client -> {"none", "tmp", "file"}]
    /\ store \in [Client -> Entries \cup {Closed}]
    /\ verifier \in [Client -> [Keys -> Target \cup {"none"}]]
    /\ ticket \in [Client -> [Keys -> Id \cup {0}]]
    /\ pc \in [Client -> {"idle", "hello", "open", "write", "rename", "finish"}]
    /\ job \in [Client -> Job]
    /\ cert \in [Target -> Cert]
    /\ issued \in Seq(Issued) /\ Len(issued) <= Sessions
    /\ {sessions, saved} \subseteq [Target -> SUBSET [id : 1 .. Len(issued), at : 0 .. End]]
    /\ \A t \in Target : Cardinality(sessions[t]) <= Teto /\ Cardinality(saved[t]) <= Teto
    /\ presented \subseteq Id /\ taken \in [Id -> Nat]
    /\ learned \in Entries
    /\ verified \in [Client -> SUBSET (Target \X Cert)]

\* No link without trust: the certificate behind every connection, also of one
\* resumed without showing it, was verified by this process against the policy
\* of that very endpoint, although configs and their tickets are shared.
EveryLinkVerified ==
    \A c \in Client : link[c] # NoLink => <<link[c].target, link[c].cert>> \in verified[c]

\* A peer known by its first use keeps one identity across restarts, failing
\* writes and rotations of other pins, and a first use that was accepted and
\* recorded stays in the file until a rotation removes it; the file can be read
\* at any point a process may be killed.
OneIdentity == \A t \in Target : Cardinality(learned[t]) <= 1
LearnedIsKept ==
    OneIdentity /\ file # Torn /\ \A t \in Target : learned[t] \subseteq file[t]

\* A session is resumed at most once, whatever is repeated, fails or restarts.
SingleUse == \A i \in Id : taken[i] <= 1

\* The ticket a client holds can be resumed, by a peer that restarted too,
\* until the session's term is over or Teto others were stored since.
TicketsLast ==
    \A c \in Client, k \in Keys :
        LET id == ticket[c][k]
            since == {j \in DOMAIN issued : /\ j # id /\ issued[j].target = issued[id].target
                                            /\ issued[j].at >= issued[id].at}
        IN  id # 0 => \/ id \in Ids(sessions[issued[id].target]) \cap Ids(saved[issued[id].target])
                      \/ now - issued[id].at >= IdadeMax
                      \/ Cardinality(since) >= Teto

\* Tickets are worth one connection, and that they are worth.
TicketsHonoured == SingleUse /\ TicketsLast

\* TofuFalha::Io of the project: no connection whose first use is not recorded.
AcceptedIsRecorded ==
    \A c \in Client : link[c] # NoLink /\ declared[link[c].target] = "tofu" =>
        file # Torn /\ link[c].cert \in file[link[c].target]
=============================================================================
