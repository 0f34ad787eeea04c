--------------------------- MODULE TlsTrustProofs ---------------------------
(***************************************************************************)
(* Proofs about TlsTrust, for every set of processes, peers, certificates, *)
(* policies and pins, every capacity and term of the session stores and    *)
(* every number of restarts and rotations: the types and the capacity of   *)
(* the stores, that no link is without trust, that a session is resumed at *)
(* most once, and how long a ticket lasts; for one process, also that what *)
(* was learned is kept.                                                    *)
(***************************************************************************)
EXTENDS TlsTrust, FiniteSetTheorems, TLAPS

(***************************************************************************)
(* The inductive invariant.                                                *)
(***************************************************************************)

ClientTypes ==
    /\ declared \in Endpoints
    /\ file \in Entries \cup {Torn} /\ tmp \in Entries \cup {Torn, NoFile}
    /\ fd \in [Client -> {"none", "tmp", "file"}]
    /\ store \in [Client -> Entries \cup {Closed}]
    /\ verifier \in [Client -> [Keys -> Target \cup {"none"}]]
    /\ ticket \in [Client -> [Keys -> Id \cup {0}]]
    /\ pc \in [Client -> {"idle", "hello", "open", "write", "rename", "finish"}]
    /\ job \in [Client -> Job]
    /\ learned \in Entries
    /\ verified \in [Client -> SUBSET (Target \X Cert)]

Stored == [id : 1 .. Len(issued), at : 0 .. End]

ServerTypes ==
    /\ now \in 0 .. End /\ cert \in [Target -> Cert]
    /\ issued \in Seq(Issued) /\ Len(issued) <= Sessions
    /\ sessions \in [Target -> SUBSET Stored] /\ saved \in [Target -> SUBSET Stored]
    /\ \A t \in Target : Cardinality(sessions[t]) <= Teto /\ Cardinality(saved[t]) <= Teto
    /\ presented \subseteq Id /\ taken \in [Id -> Nat]

\* What the process c has verified itself, of the session id.
Proven(c, id) ==
    id \in DOMAIN issued /\ <<issued[id].target, issued[id].cert>> \in verified[c]

\* A handshake under way knows its peer, has a verifier of its policy, offers
\* a session whose certificate was verified, and ends with one that was.
Handshake(c) ==
    /\ pc[c] # "idle" => job[c].target \in Target
    /\ pc[c] = "hello" =>
          /\ verifier[c][Key(job[c].target)] # "none"
          /\ declared[job[c].target] # "pin" => store[c] # Closed
          /\ job[c].offered # 0 => Proven(c, job[c].offered)
    /\ pc[c] = "finish" \/ (pc[c] \in {"open", "write", "rename"} /\ job[c].why = "learn") =>
          job[c].cert \in Cert /\ <<job[c].target, job[c].cert>> \in verified[c]
    /\ pc[c] \in {"open", "write", "rename"} => store[c] # Closed

\* The shared configs: the verifier of a key was built for a target of that
\* key, and the ticket in it is of a session whose certificate was verified.
Config(c) ==
    \A k \in Keys : /\ verifier[c][k] # "none" => Key(verifier[c][k]) = k
                    /\ ticket[c][k] # 0 => Proven(c, ticket[c][k])

Clients == \A c \in Client : Handshake(c) /\ Config(c)

\* A stored session is one that was issued by its peer and not yet resumed.
Stores ==
    /\ \A t \in Target :
          /\ IsFiniteSet(sessions[t]) /\ IsFiniteSet(saved[t])
          /\ \A s \in sessions[t] \cup saved[t] :
                issued[s.id].target = t /\ issued[s.id].at = s.at /\ taken[s.id] = 0
    /\ \A i \in Id : taken[i] <= 1 /\ (taken[i] # 0 => i <= Len(issued))

\* A session is named by one ticket at most, and by none once it was offered.
Offered ==
    /\ presented \subseteq DOMAIN issued
    /\ \A c \in Client : pc[c] = "hello" => job[c].offered \in presented \cup {0}
    /\ \A c, d \in Client : \A k, l \in Keys :
          ticket[c][k] # 0 /\ <<c, k>> # <<d, l>> => ticket[c][k] # ticket[d][l]
    /\ \A c \in Client : \A k \in Keys : ticket[c][k] \notin presented

IInv ==
    /\ ClientTypes /\ ServerTypes
    /\ Clients /\ Stores /\ Offered
    /\ EveryLinkVerified /\ TicketsLast

(***************************************************************************)
(* Types.                                                                  *)
(***************************************************************************)

LEMMA TypesMeet == TypeOK <=> ClientTypes /\ ServerTypes
BY DEF TypeOK, ClientTypes, ServerTypes, Stored

LEMMA TypesMeetNext == TypeOK' <=> ClientTypes' /\ ServerTypes'
BY DEF TypeOK, ClientTypes, ServerTypes, Stored

LEMMA Constants ==
    /\ Endpoints \subseteq [Target -> TrustKind] /\ Pins \in Entries /\ Known \in Entries
    /\ Shown \in [Target -> Cert]
    /\ Teto \in Nat /\ Teto > 0 /\ IdadeMax \in Nat /\ Sessions \in Nat /\ End \in Nat
    /\ "none" \notin Target /\ "none" \notin Cert
    /\ Torn # NoFile /\ Torn \notin Entries /\ NoFile \notin Entries /\ Closed \notin Entries
BY TrustAssumption

LEMMA JobMade ==
    ASSUME NEW t \in Target \cup {"none"}, NEW x \in Cert \cup {"none"}, NEW o \in Id \cup {0},
           NEW w \in {"none", "learn", "rotate"}
    PROVE  [target |-> t, cert |-> x, offered |-> o, why |-> w] \in Job
BY DEF Job

\* The jobs as the steps write them.
LEMMA NewJobs ==
    ASSUME NEW t, NEW o, NEW w
    PROVE  /\ [NoJob EXCEPT !.target = t, !.offered = o]
                = [target |-> t, cert |-> "none", offered |-> o, why |-> "none"]
           /\ [NoJob EXCEPT !.target = t, !.why = w]
                = [target |-> t, cert |-> "none", offered |-> 0, why |-> w]
<1>1. [NoJob EXCEPT !.target = t] = [target |-> t, cert |-> "none", offered |-> 0, why |-> "none"]
  BY DEF NoJob
<1>2. /\ [NoJob EXCEPT !.target = t, !.offered = o] = [[NoJob EXCEPT !.target = t] EXCEPT !.offered = o]
      /\ [NoJob EXCEPT !.target = t, !.why = w] = [[NoJob EXCEPT !.target = t] EXCEPT !.why = w]
  OBVIOUS
<1>3. /\ [[target |-> t, cert |-> "none", offered |-> 0, why |-> "none"] EXCEPT !.offered = o]
           = [target |-> t, cert |-> "none", offered |-> o, why |-> "none"]
      /\ [[target |-> t, cert |-> "none", offered |-> 0, why |-> "none"] EXCEPT !.why = w]
           = [target |-> t, cert |-> "none", offered |-> 0, why |-> w]
  OBVIOUS
<1>4. QED
  BY <1>1, <1>2, <1>3, Zenon

LEMMA NoJobMade == NoJob \in Job
<1>1. NoJob = [target |-> "none", cert |-> "none", offered |-> 0, why |-> "none"]
  BY DEF NoJob
<1>2. QED
  BY <1>1, JobMade

LEMMA JobParts ==
    ASSUME NEW j \in Job
    PROVE  /\ j.target \in Target \cup {"none"} /\ j.cert \in Cert \cup {"none"}
           /\ j.offered \in Id \cup {0} /\ j.why \in {"none", "learn", "rotate"}
           /\ j = [target |-> j.target, cert |-> j.cert, offered |-> j.offered, why |-> j.why]
BY DEF Job

LEMMA KeyIsKey ==
    ASSUME NEW t \in Target
    PROVE  Key(t) \in Keys
BY DEF Keys

\* A config is shared by the endpoints of one policy, and but for pins by
\* one endpoint only.
LEMMA KeyTells ==
    ASSUME NEW t, NEW u, Key(u) = Key(t)
    PROVE  /\ declared[u] = declared[t] /\ Pins[u] = Pins[t]
           /\ declared[t] # "pin" => u = t
BY DEF Key

\* Nothing but the endpoints declares the keys.
LEMMA SameKeys ==
    ASSUME declared' = declared
    PROVE  /\ Keys' = Keys
           /\ \A t : Key(t)' = Key(t)
BY DEF Keys, Key

(***************************************************************************)
(* What the steps do to the job of their client.                           *)
(***************************************************************************)

LEMMA ConnectJob ==
    ASSUME ClientTypes, NEW c \in Client, NEW t \in Target, Connect(c, t)
    PROVE  /\ ticket[c][Key(t)] \in Id \cup {0}
           /\ job' = [job EXCEPT ![c] = [target |-> t, cert |-> "none",
                                         offered |-> ticket[c][Key(t)], why |-> "none"]]
           /\ job' \in [Client -> Job]
<1>1. ticket[c][Key(t)] \in Id \cup {0} /\ job \in [Client -> Job]
  BY KeyIsKey DEF ClientTypes
<1>2. [NoJob EXCEPT !.target = t, !.offered = ticket[c][Key(t)]]
        = [target |-> t, cert |-> "none", offered |-> ticket[c][Key(t)], why |-> "none"]
  BY NewJobs
<1>3. job' = [job EXCEPT ![c] = [target |-> t, cert |-> "none",
                                 offered |-> ticket[c][Key(t)], why |-> "none"]]
  BY <1>2 DEF Connect
<1>4. [target |-> t, cert |-> "none", offered |-> ticket[c][Key(t)], why |-> "none"] \in Job
  BY <1>1, JobMade
<1>5. QED
  BY <1>1, <1>3, <1>4

LEMMA FullJob ==
    ASSUME ClientTypes, ServerTypes, NEW c \in Client, Full(c), job[c].target \in Target
    PROVE  /\ cert[job[c].target] \in Cert
           /\ job' = [job EXCEPT ![c] = [target |-> job[c].target, cert |-> cert[job[c].target],
                                         offered |-> job[c].offered, why |-> "learn"]]
           /\ job' \in [Client -> Job]
<1> DEFINE j == job[c]
           r == [target |-> j.target, cert |-> cert[j.target], offered |-> j.offered, why |-> "learn"]
<1>1. job \in [Client -> Job] /\ j \in Job /\ cert[j.target] \in Cert
  BY DEF ClientTypes, ServerTypes
<1>2. /\ j.offered \in Id \cup {0}
      /\ j = [target |-> j.target, cert |-> j.cert, offered |-> j.offered, why |-> j.why]
  BY <1>1, JobParts
<1>3. r \in Job
  BY <1>1, <1>2, JobMade
<1>4. job' = [job EXCEPT ![c].cert = cert[j.target], ![c].why = "learn"]
  BY DEF Full
<1>5. [[j EXCEPT !.cert = cert[j.target]] EXCEPT !.why = "learn"] = r
  <2>1. [j EXCEPT !.cert = cert[j.target]]
          = [target |-> j.target, cert |-> cert[j.target], offered |-> j.offered, why |-> j.why]
    BY <1>2
  <2>2. [[target |-> j.target, cert |-> cert[j.target], offered |-> j.offered, why |-> j.why]
            EXCEPT !.why = "learn"] = r
    OBVIOUS
  <2>3. QED
    BY <2>1, <2>2, Zenon
<1>6. [job EXCEPT ![c].cert = cert[j.target], ![c].why = "learn"]
        = [job EXCEPT ![c] = [[j EXCEPT !.cert = cert[j.target]] EXCEPT !.why = "learn"]]
  BY <1>1
<1>7. job' = [job EXCEPT ![c] = r]
  BY <1>4, <1>5, <1>6
<1>8. QED
  BY <1>1, <1>3, <1>7

LEMMA RotateJob ==
    ASSUME ClientTypes, NEW c \in Client, NEW t \in Target, NEW pins, Rotate(c, t, pins)
    PROVE  /\ job' = [job EXCEPT ![c] = [target |-> t, cert |-> "none", offered |-> 0, why |-> "rotate"]]
           /\ job' \in [Client -> Job]
<1>1. [NoJob EXCEPT !.target = t, !.why = "rotate"]
        = [target |-> t, cert |-> "none", offered |-> 0, why |-> "rotate"]
  BY NewJobs
<1>2. job' = [job EXCEPT ![c] = [target |-> t, cert |-> "none", offered |-> 0, why |-> "rotate"]]
  BY <1>1 DEF Rotate
<1>3. [target |-> t, cert |-> "none", offered |-> 0, why |-> "rotate"] \in Job
  BY JobMade, Constants DEF Id
<1>4. QED
  BY <1>2, <1>3 DEF ClientTypes

LEMMA ResumeJob ==
    ASSUME ClientTypes, NEW c \in Client, NEW x \in Cert \cup {"none"},
           job' = [job EXCEPT ![c].cert = x]
    PROVE  /\ job' = [job EXCEPT ![c] = [target |-> job[c].target, cert |-> x,
                                         offered |-> job[c].offered, why |-> job[c].why]]
           /\ job' \in [Client -> Job]
<1> DEFINE j == job[c]
           r == [target |-> j.target, cert |-> x, offered |-> j.offered, why |-> j.why]
<1>1. job \in [Client -> Job] /\ j \in Job
  BY DEF ClientTypes
<1>2. /\ j.target \in Target \cup {"none"} /\ j.offered \in Id \cup {0}
      /\ j.why \in {"none", "learn", "rotate"}
      /\ j = [target |-> j.target, cert |-> j.cert, offered |-> j.offered, why |-> j.why]
  BY <1>1, JobParts
<1>3. r \in Job
  BY <1>2, JobMade
<1>4. [j EXCEPT !.cert = x] = r
  BY <1>2
<1>5. job' = [job EXCEPT ![c] = r]
  BY <1>1, <1>4
<1>6. QED
  BY <1>1, <1>3, <1>5

(***************************************************************************)
(* The types of the clients.                                               *)
(***************************************************************************)

LEMMA EntriesChange ==
    ASSUME NEW e \in Entries, NEW t \in Target, NEW x \in SUBSET Cert
    PROVE  [e EXCEPT ![t] = x] \in Entries
BY DEF Entries

StorePut(c, t, x) == store' = [store EXCEPT ![c][t] = x]

LEMMA StoreChange ==
    ASSUME ClientTypes, NEW c \in Client, store[c] # Closed, NEW t \in Target, NEW x \in SUBSET Cert,
           StorePut(c, t, x)
    PROVE  /\ store[c] \in Entries /\ store'[c] \in Entries /\ store'[c] # Closed
           /\ store' \in [Client -> Entries \cup {Closed}]
           /\ \A u \in Target : store'[c][u] = IF u = t THEN x ELSE store[c][u]
           /\ \A d \in Client : d # c => store'[d] = store[d]
<1>1. store \in [Client -> Entries \cup {Closed}] /\ store[c] \in Entries
  BY DEF ClientTypes
<1>2. [store[c] EXCEPT ![t] = x] \in Entries
  BY <1>1, EntriesChange
<1>3. store' = [store EXCEPT ![c] = [store[c] EXCEPT ![t] = x]]
  BY <1>1 DEF StorePut
<1>4. store'[c] = [store[c] EXCEPT ![t] = x]
  BY <1>1, <1>3
<1>5. \A u \in Target : store'[c][u] = IF u = t THEN x ELSE store[c][u]
  BY <1>1, <1>4 DEF Entries
<1>6. QED
  BY <1>1, <1>2, <1>3, <1>4, <1>5, Constants

LEMMA InitTypes == Init => ClientTypes /\ ServerTypes
<1> SUFFICES ASSUME Init
             PROVE  ClientTypes /\ ServerTypes
  OBVIOUS
<1>1. ClientTypes
  BY Constants, NoJobMade DEF Init, ClientTypes, Id, Entries
<1>2. issued = <<>> /\ Len(issued) = 0 /\ issued \in Seq(Issued)
  BY DEF Init
<1>3. \A t \in Target : sessions[t] = {} /\ saved[t] = {}
  BY DEF Init
<1>4. sessions \in [Target -> SUBSET Stored] /\ saved \in [Target -> SUBSET Stored]
  BY DEF Init
<1>5. \A t \in Target : Cardinality(sessions[t]) <= Teto /\ Cardinality(saved[t]) <= Teto
  <2>1. Cardinality({}) = 0
    BY FS_EmptySet
  <2>2. ASSUME NEW t \in Target
        PROVE  Cardinality(sessions[t]) = 0 /\ Cardinality(saved[t]) = 0
    BY <1>3, <2>1, Zenon
  <2>3. QED
    BY <2>2, Constants
<1>6. now \in 0 .. End /\ cert \in [Target -> Cert] /\ presented \subseteq Id /\ taken \in [Id -> Nat]
  BY Constants DEF Init
<1>7. QED
  BY <1>1, <1>2, <1>4, <1>5, <1>6, Constants DEF ServerTypes

(***************************************************************************)
(* The steps, by what they leave alone.                                    *)
(***************************************************************************)

\* The steps of a client that no peer takes part in.
Local(c) ==
    \/ Full(c) \/ FullRefused(c) \/ Broken(c)
    \/ OpenTmp(c) \/ WriteTmp(c) \/ Rename(c) \/ PersistFails(c)
    \/ \E t \in Target, pins \in SUBSET Cert : Rotate(c, t, pins)

LEMMA NextSplits ==
    ASSUME ClientTypes, Next
    PROVE  \/ \E c \in Client, t \in Target : Connect(c, t)
           \/ \E c \in Client : Local(c) \/ ClientRestart(c)
           \/ \E c \in Client, ok \in BOOLEAN : Resume(c, ok) \/ Finish(c, ok)
           \/ \E t \in Target, id \in Id, ok \in BOOLEAN : Replay(t, id, ok)
           \/ \E t \in Target : ServerRestart(t)
           \/ Advance
<1>1. ASSUME NEW c \in Client, NEW t \in Target, NEW f \in Cert,
             AdicionarPin(c, t, f) \/ RemoverPin(c, t, f)
      PROVE  Local(c)
  <2>1. store[c] \in Entries /\ store[c][t] \in SUBSET Cert
    BY <1>1 DEF ClientTypes, AdicionarPin, RemoverPin, Entries
  <2>2. store[c][t] \cup {f} \in SUBSET Cert /\ store[c][t] \ {f} \in SUBSET Cert
    BY <2>1
  <2>3. QED
    BY <1>1, <2>2 DEF AdicionarPin, RemoverPin, Local
<1>2. QED
  BY <1>1 DEF Next, Local

LEMMA LocalLeaves ==
    ASSUME ClientTypes, NEW c \in Client, Local(c)
    PROVE  /\ UNCHANGED <<declared, now, ticket, server, verifier>>
           /\ link' = NoLinks
           /\ pc' \in [Client -> {"idle", "open", "write", "rename", "finish", "hello"}]
           /\ pc'[c] # "hello"
           /\ \A d \in Client : d # c => /\ pc'[d] = pc[d] /\ job'[d] = job[d]
                                         /\ store'[d] = store[d] /\ verified'[d] = verified[d]
<1> USE DEF ClientTypes, Goto, Idle, Refuse, disk, trust, client, server
<1>1. CASE Full(c)
  <2>1. pc' = [pc EXCEPT ![c] = "finish"] \/ pc' = [pc EXCEPT ![c] = "open"]
    BY <1>1 DEF Full
  <2>2. \A d \in Client : d # c => job'[d] = job[d] /\ store'[d] = store[d] /\ verified'[d] = verified[d]
    BY <1>1 DEF Full
  <2>3. UNCHANGED <<declared, now, ticket, server, verifier>> /\ link' = NoLinks
    BY <1>1 DEF Full
  <2>4. QED
    BY <2>1, <2>2, <2>3
<1>2. CASE FullRefused(c) \/ Broken(c)
  BY <1>2 DEF FullRefused, Broken
<1>3. CASE OpenTmp(c)
  BY <1>3 DEF OpenTmp
<1>8. CASE WriteTmp(c)
  <2>1. /\ pc' = [pc EXCEPT ![c] = "rename"] /\ link' = NoLinks
        /\ UNCHANGED <<declared, now, trust, job, ticket, server>>
    BY <1>8 DEF WriteTmp
  <2>2. QED
    BY <2>1
<1>4. CASE Rename(c)
  BY <1>4 DEF Rename
<1>5. CASE PersistFails(c)
  BY <1>5 DEF PersistFails
<1>6. ASSUME NEW t \in Target, NEW pins \in SUBSET Cert, Rotate(c, t, pins)
      PROVE  /\ UNCHANGED <<declared, now, ticket, server, verifier>>
             /\ link' = NoLinks
             /\ pc' \in [Client -> {"idle", "open", "write", "rename", "finish", "hello"}]
             /\ pc'[c] # "hello"
             /\ \A d \in Client : d # c => /\ pc'[d] = pc[d] /\ job'[d] = job[d]
                                           /\ store'[d] = store[d] /\ verified'[d] = verified[d]
  BY <1>6 DEF Rotate
<1>7. QED
  BY <1>1, <1>2, <1>3, <1>4, <1>5, <1>6, <1>8 DEF Local

(***************************************************************************)
(* Every step keeps the types of the clients.                              *)
(***************************************************************************)

LEMMA IdleJob ==
    ASSUME ClientTypes, NEW c \in Client, Idle(c)
    PROVE  /\ job' \in [Client -> Job]
           /\ pc' \in [Client -> {"idle", "hello", "open", "write", "rename", "finish"}]
BY NoJobMade DEF ClientTypes, Idle, Goto

\* The handshake under way, with what its step needs to know of it.
LEMMA HelloParts ==
    ASSUME ClientTypes, Clients, NEW c \in Client, pc[c] = "hello",
           NEW t, t = job[c].target, NEW u, u = verifier[c][Key(t)]
    PROVE  /\ t \in Target /\ u \in Target /\ Key(u) = Key(t)
           /\ declared[u] = declared[t] /\ Pins[u] = Pins[t]
           /\ declared[t] # "pin" => u = t /\ store[c] \in Entries
<1>1. t \in Target /\ u # "none" /\ (declared[t] # "pin" => store[c] # Closed)
  BY DEF Clients, Handshake
<1>2. Key(t) \in Keys
  BY <1>1, KeyIsKey
<1>3. u \in Target /\ Key(u) = Key(t)
  BY <1>1, <1>2 DEF ClientTypes, Clients, Config
<1>4. declared[t] # "pin" => store[c] \in Entries
  BY <1>1 DEF ClientTypes
<1>5. QED
  BY <1>1, <1>3, <1>4, KeyTells

\* A full handshake that goes on: the certificate is verified, in memory.
LearnsAs(c, t, f) ==
    /\ t \in Target /\ f \in Cert
    /\ \/ store' = store /\ pc' = [pc EXCEPT ![c] = "finish"]
       \/ /\ declared[t] = "tofu" /\ store[c] \in Entries /\ store[c][t] = {}
          /\ store' = [store EXCEPT ![c][t] = {f}]
          /\ store'[c] \in Entries /\ f \in store'[c][t]
          /\ pc' = [pc EXCEPT ![c] = "open"]
    /\ store' \in [Client -> Entries \cup {Closed}]
    /\ verified'[c] = verified[c] \cup {<<t, f>>}

LEMMA FullEffect ==
    ASSUME ClientTypes, ServerTypes, Clients, NEW c \in Client, Full(c),
           NEW t, t = job[c].target, NEW f, f = cert[t]
    PROVE  LearnsAs(c, t, f)
<1> DEFINE u == verifier[c][Key(t)]
<1>1. pc[c] = "hello"
  BY DEF Full
<1>2. /\ t \in Target /\ u \in Target
      /\ declared[u] = declared[t] /\ Pins[u] = Pins[t]
      /\ declared[t] # "pin" => u = t /\ store[c] \in Entries
  BY <1>1, HelloParts
<1>3. f \in Cert
  BY <1>2 DEF ServerTypes
<1>4. verified'[c] = verified[c] \cup {x \in {<<t, f>>} : Legitimate(t, f, store'[c])}
  BY DEF Full, ClientTypes
<1>5. CASE Accepts(c, u, f) /\ Goto(c, "finish") /\ UNCHANGED store
  <2>1. Legitimate(t, f, store'[c])
    BY <1>2, <1>5, Constants DEF Accepts, Legitimate
  <2>2. verified'[c] = verified[c] \cup {<<t, f>>}
    BY <1>4, <2>1
  <2>3. store' = store /\ pc' = [pc EXCEPT ![c] = "finish"] /\ store \in [Client -> Entries \cup {Closed}]
    BY <1>5 DEF Goto, ClientTypes
  <2>4. QED
    BY <1>2, <1>3, <2>2, <2>3 DEF LearnsAs
<1>6. CASE /\ FirstUse(c, u)
           /\ store' = [store EXCEPT ![c][u] = @ \cup {f}] /\ Goto(c, "open")
  <2>1. declared[t] = "tofu" /\ u = t /\ store[c] \in Entries /\ store[c][t] = {}
    BY <1>2, <1>6 DEF FirstUse
  <2>2. store' = [store EXCEPT ![c][t] = {f}]
    <3>1. store[c][t] \cup {f} = {f}
      BY <2>1
    <3>2. store' = [store EXCEPT ![c][t] = store[c][t] \cup {f}]
      BY <1>2, <1>6, <2>1 DEF ClientTypes
    <3>3. QED
      BY <3>1, <3>2, Zenon
  <2>3. store[c] # Closed
    BY <2>1, Constants
  <2>4. /\ store'[c] \in Entries /\ store' \in [Client -> Entries \cup {Closed}]
        /\ store'[c][t] = {f} /\ store'[c] # Closed
    <3>1. {f} \in SUBSET Cert /\ StorePut(c, t, {f})
      BY <1>3, <2>2 DEF StorePut
    <3>2. QED
      BY <1>2, <2>3, <3>1, StoreChange
  <2>5. Legitimate(t, f, store'[c])
    BY <2>1, <2>4 DEF Legitimate
  <2>6. verified'[c] = verified[c] \cup {<<t, f>>}
    BY <1>4, <2>5
  <2>7. QED
    BY <1>2, <1>3, <1>6, <2>1, <2>2, <2>4, <2>6 DEF Goto, LearnsAs
<1>7. \/ Accepts(c, u, f) /\ Goto(c, "finish") /\ UNCHANGED store
      \/ FirstUse(c, u) /\ store' = [store EXCEPT ![c][u] = @ \cup {f}] /\ Goto(c, "open")
  BY DEF Full
<1>8. QED
  BY <1>5, <1>6, <1>7

\* The parts of ClientTypes that a step of one kind may change, in any state.
LEMMA ClientTypesNext ==
    ASSUME ClientTypes, declared' = declared,
           file' \in Entries \cup {Torn}, tmp' \in Entries \cup {Torn, NoFile},
           fd' \in [Client -> {"none", "tmp", "file"}],
           store' \in [Client -> Entries \cup {Closed}],
           verifier' \in [Client -> [Keys -> Target \cup {"none"}]],
           ticket' \in [Client -> [Keys -> Id \cup {0}]],
           pc' \in [Client -> {"idle", "hello", "open", "write", "rename", "finish"}],
           job' \in [Client -> Job], learned' \in Entries,
           verified' \in [Client -> SUBSET (Target \X Cert)]
    PROVE  ClientTypes'
BY SameKeys DEF ClientTypes

LEMMA LearnedChange ==
    ASSUME learned \in Entries, NEW t \in Target, NEW x, x \cap Cert = x,
           learned' = [learned EXCEPT ![t] = x]
    PROVE  learned' \in Entries
BY DEF Entries

LEMMA WriteTmpTypes ==
    ASSUME ClientTypes, Clients, NEW c \in Client, WriteTmp(c)
    PROVE  /\ file' \in Entries \cup {Torn} /\ tmp' \in Entries \cup {Torn, NoFile}
           /\ pc' = [pc EXCEPT ![c] = "rename"]
<1>1. store[c] \in Entries
  BY DEF WriteTmp, Clients, Handshake, ClientTypes
<1>2. PICK text \in {Serializar(c)} \cup (IF Others(c, fd[c]) = {} THEN {} ELSE {Torn}) :
          IF fd[c] = "tmp" THEN tmp' = text /\ UNCHANGED file
                           ELSE file' = text /\ UNCHANGED tmp
  BY DEF WriteTmp
<1>3. text \in Entries \cup {Torn}
  BY <1>1, <1>2 DEF Serializar
<1>4. QED
  BY <1>2, <1>3 DEF ClientTypes, WriteTmp, Goto

LEMMA RenameTypes ==
    ASSUME ClientTypes, Clients, NEW c \in Client, Rename(c)
    PROVE  /\ file' \in Entries \cup {Torn} /\ tmp' \in Entries \cup {Torn, NoFile}
           /\ fd' \in [Client -> {"none", "tmp", "file"}]
           /\ pc' \in [Client -> {"idle", "hello", "open", "write", "rename", "finish"}]
           /\ job' \in [Client -> Job] /\ learned' \in Entries
<1>1. /\ file' = tmp /\ tmp' = NoFile /\ tmp # NoFile
      /\ fd' = [d \in Client |-> IF d = c THEN "none" ELSE IF fd[d] = "tmp" THEN "file" ELSE fd[d]]
  BY DEF Rename
<1>2. fd' \in [Client -> {"none", "tmp", "file"}]
  BY <1>1 DEF ClientTypes
<1>3. CASE job[c].why = "learn"
  <2>1. job[c].target \in Target /\ job[c].cert \in Cert
    BY <1>3 DEF Clients, Handshake, Rename
  <2>2. learned[job[c].target] \cup {job[c].cert} \in SUBSET Cert
    BY <2>1 DEF ClientTypes, Entries
  <2>3. learned' = [learned EXCEPT ![job[c].target] = learned[job[c].target] \cup {job[c].cert}]
    BY <1>3, <2>1 DEF Rename, ClientTypes, Entries
  <2>4. learned' \in Entries
    BY <2>1, <2>2, <2>3 DEF ClientTypes, Entries
  <2>5. job' = job /\ pc' = [pc EXCEPT ![c] = "finish"]
    BY <1>3 DEF Rename, Goto
  <2>6. QED
    BY <1>1, <1>2, <2>4, <2>5 DEF ClientTypes
<1>4. CASE job[c].why # "learn"
  <2>1. Idle(c) /\ learned' = learned
    BY <1>4 DEF Rename
  <2>2. QED
    BY <1>1, <1>2, <2>1, IdleJob DEF ClientTypes
<1>5. QED
  BY <1>3, <1>4

LEMMA RotateTypes ==
    ASSUME ClientTypes, NEW c \in Client, NEW t \in Target, NEW pins \in SUBSET Cert,
           Rotate(c, t, pins)
    PROVE  /\ store[c] \in Entries /\ store'[c] \in Entries
           /\ store' \in [Client -> Entries \cup {Closed}] /\ learned' \in Entries
           /\ pc' = [pc EXCEPT ![c] = "open"]
           /\ \A u \in Target : store'[c][u] = IF u = t THEN pins ELSE store[c][u]
           /\ \A u \in Target : learned'[u] = IF u = t THEN learned[u] \cap pins ELSE learned[u]
<1>1. store[c] # Closed /\ StorePut(c, t, pins)
  BY DEF Rotate, StorePut
<1>2. learned \in [Target -> SUBSET Cert] /\ learned' = [learned EXCEPT ![t] = learned[t] \cap pins]
  BY DEF Rotate, ClientTypes, Entries
<1>3. \A u \in Target : learned'[u] = IF u = t THEN learned[u] \cap pins ELSE learned[u]
  BY <1>2
<1>4. learned' \in Entries
  BY <1>2 DEF Entries
<1>5. pc' = [pc EXCEPT ![c] = "open"]
  BY DEF Rotate, Goto
<1>6. QED
  BY <1>1, <1>3, <1>4, <1>5, StoreChange

LEMMA LocalTypes ==
    ASSUME ClientTypes, ServerTypes, Clients, NEW c \in Client, Local(c)
    PROVE  ClientTypes'
<1> SUFFICES /\ file' \in Entries \cup {Torn} /\ tmp' \in Entries \cup {Torn, NoFile}
             /\ fd' \in [Client -> {"none", "tmp", "file"}]
             /\ store' \in [Client -> Entries \cup {Closed}]
             /\ job' \in [Client -> Job] /\ learned' \in Entries
             /\ verified' \in [Client -> SUBSET (Target \X Cert)]
  <2>1. /\ UNCHANGED <<declared, ticket, verifier>>
        /\ pc' \in [Client -> {"idle", "hello", "open", "write", "rename", "finish"}]
    BY LocalLeaves
  <2>2. /\ ticket' \in [Client -> [Keys -> Id \cup {0}]]
        /\ verifier' \in [Client -> [Keys -> Target \cup {"none"}]]
    BY <2>1 DEF ClientTypes
  <2>3. QED
    BY <2>1, <2>2, ClientTypesNext
<1>1. CASE Full(c)
  <2>1. pc[c] = "hello" /\ job[c].target \in Target
    BY <1>1 DEF Full, Clients, Handshake
  <2>2. /\ cert[job[c].target] \in Cert
        /\ store' \in [Client -> Entries \cup {Closed}]
        /\ verified'[c] = verified[c] \cup {<<job[c].target, cert[job[c].target]>>}
    <3>1. LearnsAs(c, job[c].target, cert[job[c].target])
      BY <1>1, FullEffect
    <3>2. QED
      BY <3>1 DEF LearnsAs
  <2>3. job' \in [Client -> Job]
    BY <1>1, <2>1, FullJob
  <2>4. verified' = [verified EXCEPT ![c] = verified'[c]]
    BY <1>1 DEF Full, ClientTypes
  <2>5. verified'[c] \in SUBSET (Target \X Cert)
    BY <2>1, <2>2 DEF ClientTypes
  <2>6. verified' \in [Client -> SUBSET (Target \X Cert)]
    BY <2>4, <2>5 DEF ClientTypes
  <2>7. QED
    BY <1>1, <2>2, <2>3, <2>6 DEF Full, ClientTypes, disk
<1>2. CASE FullRefused(c) \/ Broken(c)
  BY <1>2, IdleJob DEF FullRefused, Broken, Refuse, ClientTypes, disk, trust
<1>3. CASE OpenTmp(c)
  BY <1>3 DEF OpenTmp, ClientTypes, trust
<1>4. CASE WriteTmp(c)
  BY <1>4, WriteTmpTypes DEF WriteTmp, ClientTypes, trust
<1>5. CASE Rename(c)
  BY <1>5, RenameTypes DEF Rename, ClientTypes
<1>6. CASE PersistFails(c)
  BY <1>6, IdleJob DEF PersistFails, Refuse, ClientTypes, trust
<1>7. ASSUME NEW t \in Target, NEW pins \in SUBSET Cert, Rotate(c, t, pins)
      PROVE  /\ file' \in Entries \cup {Torn} /\ tmp' \in Entries \cup {Torn, NoFile}
             /\ fd' \in [Client -> {"none", "tmp", "file"}]
             /\ store' \in [Client -> Entries \cup {Closed}]
             /\ job' \in [Client -> Job] /\ learned' \in Entries
             /\ verified' \in [Client -> SUBSET (Target \X Cert)]
  <2>1. job' \in [Client -> Job]
    BY <1>7, RotateJob
  <2>2. store' \in [Client -> Entries \cup {Closed}] /\ learned' \in Entries
    BY <1>7, RotateTypes
  <2>3. QED
    BY <1>7, <2>1, <2>2 DEF Rotate, ClientTypes, disk
<1>8. QED
  BY <1>1, <1>2, <1>3, <1>4, <1>5, <1>6, <1>7 DEF Local

LEMMA ConnectTypes ==
    ASSUME ClientTypes, NEW c \in Client, NEW t \in Target, Connect(c, t)
    PROVE  ClientTypes'
<1> DEFINE k == Key(t)
<1>1. k \in Keys
  BY KeyIsKey
<1>2. job' \in [Client -> Job]
  BY ConnectJob
<1>3. store' \in [Client -> Entries \cup {Closed}]
  <2>1. CASE declared[t] # "pin" /\ store[c] = Closed
    <3>1. store' = [store EXCEPT ![c] = file] /\ file # Torn
      BY <2>1 DEF Connect
    <3>2. QED
      BY <3>1 DEF ClientTypes
  <2>2. CASE ~(declared[t] # "pin" /\ store[c] = Closed)
    BY <2>2 DEF Connect, ClientTypes
  <2>3. QED
    BY <2>1, <2>2
<1>4. verifier' \in [Client -> [Keys -> Target \cup {"none"}]]
  <2>1. verifier' = IF verifier[c][k] = "none" THEN [verifier EXCEPT ![c][k] = t] ELSE verifier
    BY DEF Connect
  <2>2. QED
    BY <2>1 DEF ClientTypes
<1>5. ticket' \in [Client -> [Keys -> Id \cup {0}]]
  <2>1. ticket' = [ticket EXCEPT ![c][k] = 0]
    BY DEF Connect
  <2>2. QED
    BY <2>1 DEF ClientTypes
<1>6. pc' \in [Client -> {"idle", "hello", "open", "write", "rename", "finish"}]
  BY DEF Connect, Goto, ClientTypes
<1>7. UNCHANGED <<declared, file, tmp, fd, learned, verified>>
  BY DEF Connect, disk
<1>8. /\ file' \in Entries \cup {Torn} /\ tmp' \in Entries \cup {Torn, NoFile}
      /\ fd' \in [Client -> {"none", "tmp", "file"}] /\ learned' \in Entries
      /\ verified' \in [Client -> SUBSET (Target \X Cert)]
  BY <1>7 DEF ClientTypes
<1>9. QED
  BY <1>2, <1>3, <1>4, <1>5, <1>6, <1>7, <1>8, ClientTypesNext

\* The steps that leave the files, the stores and the verifiers alone.
LEMMA SimpleTypes ==
    ASSUME ClientTypes, UNCHANGED <<declared, disk, trust>>,
           ticket' \in [Client -> [Keys -> Id \cup {0}]],
           pc' \in [Client -> {"idle", "hello", "open", "write", "rename", "finish"}],
           job' \in [Client -> Job]
    PROVE  ClientTypes'
<1>1. UNCHANGED <<declared, file, tmp, fd, store, verifier, verified, learned>>
  BY DEF disk, trust
<1>2. /\ file' \in Entries \cup {Torn} /\ tmp' \in Entries \cup {Torn, NoFile}
      /\ fd' \in [Client -> {"none", "tmp", "file"}] /\ learned' \in Entries
      /\ store' \in [Client -> Entries \cup {Closed}]
      /\ verifier' \in [Client -> [Keys -> Target \cup {"none"}]]
      /\ verified' \in [Client -> SUBSET (Target \X Cert)]
  BY <1>1 DEF ClientTypes
<1>3. QED
  BY <1>1, <1>2, ClientTypesNext

LEMMA KnownCert ==
    ASSUME ServerTypes, NEW id \in DOMAIN issued
    PROVE  /\ issued[id] \in Issued
           /\ issued[id].target \in Target /\ issued[id].cert \in Cert /\ issued[id].at \in 0 .. End
<1>1. issued[id] \in Issued
  BY DEF ServerTypes
<1>2. QED
  BY <1>1 DEF Issued

\* The session a ClientHello names is of the peer that knows it.
LEMMA ResumedCert ==
    ASSUME ClientTypes, ServerTypes, Clients, Stores, NEW c \in Client, NEW ok \in BOOLEAN, Resume(c, ok)
    PROVE  /\ pc[c] = "hello" /\ job[c].target \in Target /\ job[c].offered \in DOMAIN issued
           /\ issued[job[c].offered].cert \in Cert
           /\ <<job[c].target, issued[job[c].offered].cert>> \in verified[c]
<1> DEFINE t == job[c].target
           id == job[c].offered
<1>1. pc[c] = "hello" /\ t \in Target
  BY DEF Resume, Clients, Handshake
<1>2. PICK s \in sessions[t] : s.id = id
  BY DEF Resume
<1>3. s \in Stored
  BY <1>1, <1>2 DEF ServerTypes
<1>4. id \in DOMAIN issued /\ id # 0
  BY <1>2, <1>3 DEF Stored, ServerTypes
<1>5. issued[id].target = t
  BY <1>1, <1>2 DEF Stores
<1>6. <<issued[id].target, issued[id].cert>> \in verified[c]
  BY <1>1, <1>4 DEF Clients, Handshake, Proven
<1>7. QED
  BY <1>1, <1>4, <1>5, <1>6, KnownCert

LEMMA ServerRestartJobs ==
    ASSUME ClientTypes, NEW t \in Target, ServerRestart(t)
    PROVE  /\ pc' \in [Client -> {"idle", "hello", "open", "write", "rename", "finish"}]
           /\ job' \in [Client -> Job]
           /\ \A c \in Client : \/ pc'[c] = pc[c] /\ job'[c] = job[c]
                                \/ pc'[c] = "idle" /\ job'[c] = NoJob
<1> DEFINE cut == {c \in Client : job[c].target = t /\ pc[c] \in {"hello", "finish"}}
<1>1. /\ pc' = [c \in Client |-> IF c \in cut THEN "idle" ELSE pc[c]]
      /\ job' = [c \in Client |-> IF c \in cut THEN NoJob ELSE job[c]]
  BY DEF ServerRestart
<1> HIDE DEF cut
<1>2. QED
  BY <1>1, NoJobMade DEF ClientTypes

LEMMA ClientTypesStep ==
    ASSUME ClientTypes, ServerTypes, Clients, Stores, [Next]_vars
    PROVE  ClientTypes'
<1>1. ASSUME NEW c \in Client, NEW t \in Target, Connect(c, t)
      PROVE  ClientTypes'
  BY <1>1, ConnectTypes
<1>2. ASSUME NEW c \in Client, Local(c)
      PROVE  ClientTypes'
  BY <1>2, LocalTypes
<1>3. ASSUME NEW c \in Client, ClientRestart(c)
      PROVE  ClientTypes'
  <2>1. pc' \in [Client -> {"idle", "hello", "open", "write", "rename", "finish"}] /\ job' \in [Client -> Job]
    BY <1>3, IdleJob DEF ClientRestart, Refuse
  <2>2. /\ UNCHANGED <<declared, file, tmp, learned>>
        /\ store' = [store EXCEPT ![c] = Closed]
        /\ verifier' = [verifier EXCEPT ![c] = [k \in Keys |-> "none"]]
        /\ ticket' = [ticket EXCEPT ![c] = [k \in Keys |-> 0]]
        /\ verified' = [verified EXCEPT ![c] = {}] /\ fd' = [fd EXCEPT ![c] = "none"]
    BY <1>3 DEF ClientRestart
  <2>3. /\ store' \in [Client -> Entries \cup {Closed}]
        /\ verified' \in [Client -> SUBSET (Target \X Cert)]
        /\ fd' \in [Client -> {"none", "tmp", "file"}]
    BY <2>2 DEF ClientTypes
  <2>4. /\ verifier' \in [Client -> [Keys -> Target \cup {"none"}]]
        /\ ticket' \in [Client -> [Keys -> Id \cup {0}]]
    BY <2>2 DEF ClientTypes
  <2>5. /\ file' \in Entries \cup {Torn} /\ tmp' \in Entries \cup {Torn, NoFile} /\ learned' \in Entries
    BY <2>2 DEF ClientTypes
  <2>6. QED
    BY <2>1, <2>2, <2>3, <2>4, <2>5, ClientTypesNext
<1>4. ASSUME NEW c \in Client, NEW ok \in BOOLEAN, Resume(c, ok)
      PROVE  ClientTypes'
  <2>1. UNCHANGED <<declared, disk, trust, ticket>>
    BY <1>4 DEF Resume
  <2>2. pc' \in [Client -> {"idle", "hello", "open", "write", "rename", "finish"}]
    BY <1>4 DEF Resume, Goto, ClientTypes
  <2>3. job' \in [Client -> Job]
    <3>1. CASE ok
      <4>1. issued[job[c].offered].cert \in Cert
        BY <1>4, ResumedCert
      <4>2. job' = [job EXCEPT ![c].cert = issued[job[c].offered].cert]
        BY <1>4, <3>1 DEF Resume
      <4>3. PICK x \in Cert : x = issued[job[c].offered].cert
        BY <4>1
      <4>4. job' = [job EXCEPT ![c].cert = x]
        BY <4>2, <4>3
      <4>5. QED
        BY <4>4, ResumeJob
    <3>2. CASE ~ok
      BY <1>4, <3>2 DEF Resume, ClientTypes
    <3>3. QED
      BY <3>1, <3>2
  <2>4. ticket' \in [Client -> [Keys -> Id \cup {0}]]
    BY <2>1 DEF ClientTypes
  <2>5. QED
    BY <2>1, <2>2, <2>3, <2>4, SimpleTypes
<1>5. ASSUME NEW c \in Client, NEW ok \in BOOLEAN, Finish(c, ok)
      PROVE  ClientTypes'
  <2>1. UNCHANGED <<declared, disk, trust>> /\ Len(issued) + 1 \in Id
    BY <1>5 DEF Finish
  <2>2. pc' \in [Client -> {"idle", "hello", "open", "write", "rename", "finish"}] /\ job' \in [Client -> Job]
    BY <1>5, IdleJob DEF Finish
  <2>3. job[c].target \in Target
    BY <1>5 DEF Finish, Clients, Handshake
  <2>4. Key(job[c].target) \in Keys
    BY <2>3, KeyIsKey
  <2>5. ticket' = ticket \/ ticket' = [ticket EXCEPT ![c][Key(job[c].target)] = Len(issued) + 1]
    BY <1>5 DEF Finish
  <2>6. ticket' \in [Client -> [Keys -> Id \cup {0}]]
    <3>1. PICK n \in Id : n = Len(issued) + 1
      BY <2>1
    <3>2. PICK k \in Keys : k = Key(job[c].target)
      BY <2>4
    <3>3. ticket' = ticket \/ ticket' = [ticket EXCEPT ![c][k] = n]
      BY <2>5, <3>1, <3>2
    <3>4. CASE ticket' = ticket
      BY <3>4 DEF ClientTypes
    <3>5. CASE ticket' = [ticket EXCEPT ![c][k] = n]
      <4>1. PICK i \in Id \cup {0} : i = n
        OBVIOUS
      <4>2. ticket' = [ticket EXCEPT ![c][k] = i]
        BY <3>5, <4>1
      <4>3. QED
        BY <4>2 DEF ClientTypes
    <3>6. QED
      BY <3>3, <3>4, <3>5
  <2>7. QED
    BY <2>1, <2>2, <2>6, SimpleTypes
<1>6. ASSUME NEW t \in Target, NEW id \in Id, NEW ok \in BOOLEAN, Replay(t, id, ok)
      PROVE  ClientTypes'
  <2>1. UNCHANGED <<declared, disk, trust, ticket, pc, job>>
    BY <1>6 DEF Replay
  <2>2. QED
    BY <2>1, SimpleTypes DEF ClientTypes
<1>7. ASSUME NEW t \in Target, ServerRestart(t)
      PROVE  ClientTypes'
  <2>1. UNCHANGED <<declared, disk, trust, ticket>>
    BY <1>7 DEF ServerRestart
  <2>2. ticket' \in [Client -> [Keys -> Id \cup {0}]]
    BY <2>1 DEF ClientTypes
  <2>3. QED
    BY <1>7, <2>1, <2>2, ServerRestartJobs, SimpleTypes
<1>8. CASE Advance
  <2>1. UNCHANGED <<declared, disk, trust, ticket, pc, job>>
    BY <1>8 DEF Advance
  <2>2. QED
    BY <2>1, SimpleTypes DEF ClientTypes
<1>9. CASE UNCHANGED vars
  <2>1. UNCHANGED <<declared, disk, trust, ticket, pc, job>>
    BY <1>9 DEF vars, client
  <2>2. QED
    BY <2>1, SimpleTypes DEF ClientTypes
<1>10. QED
  BY <1>1, <1>2, <1>3, <1>4, <1>5, <1>6, <1>7, <1>8, <1>9, NextSplits

(***************************************************************************)
(* Every step keeps the types of the peers.                                *)
(***************************************************************************)

\* The history of sessions only grows.
Grows ==
    /\ issued' \in Seq(Issued) /\ Len(issued) <= Len(issued')
    /\ \A i \in DOMAIN issued : issued'[i] = issued[i]

LEMMA StoredGrows ==
    ASSUME ServerTypes, Grows
    PROVE  /\ Stored \subseteq Stored' /\ DOMAIN issued \subseteq DOMAIN issued'
           /\ DOMAIN issued = 1 .. Len(issued) /\ DOMAIN issued' = 1 .. Len(issued')
<1>1. Len(issued) \in Nat /\ Len(issued') \in Nat
  BY DEF ServerTypes, Grows
<1>2. DOMAIN issued = 1 .. Len(issued) /\ DOMAIN issued' = 1 .. Len(issued')
  BY DEF ServerTypes, Grows
<1>3. 1 .. Len(issued) \subseteq 1 .. Len(issued')
  BY <1>1 DEF Grows
<1>4. QED
  BY <1>2, <1>3 DEF Stored

LEMMA IssuedIds ==
    ASSUME ServerTypes
    PROVE  /\ DOMAIN issued = 1 .. Len(issued) /\ Len(issued) \in Nat /\ DOMAIN issued \subseteq Id
           /\ \A s \in Stored : s.id \in DOMAIN issued /\ s.id \in Id /\ s.at \in 0 .. End
<1>1. DOMAIN issued = 1 .. Len(issued) /\ Len(issued) \in Nat
  BY DEF ServerTypes
<1>2. 1 .. Len(issued) \subseteq Id
  BY <1>1, Constants DEF Id, ServerTypes
<1>3. QED
  BY <1>1, <1>2 DEF Stored

LEMMA StaysGrown ==
    ASSUME ServerTypes, issued' = issued
    PROVE  Grows /\ Stored' = Stored
BY DEF ServerTypes, Grows, Stored

\* What the peer t is left with when its sessions or its file lose some.
LEMMA Smaller ==
    ASSUME ServerTypes, NEW t \in Target, IsFiniteSet(sessions[t]), NEW id
    PROVE  /\ Without(t, id) \subseteq sessions[t] /\ Without(t, id) \subseteq Stored
           /\ IsFiniteSet(Without(t, id)) /\ Cardinality(Without(t, id)) <= Teto
<1>1. Without(t, id) \subseteq sessions[t] /\ sessions[t] \subseteq Stored
  BY DEF Without, ServerTypes
<1>2. /\ IsFiniteSet(Without(t, id)) /\ Cardinality(Without(t, id)) <= Cardinality(sessions[t])
      /\ Cardinality(sessions[t]) \in Nat /\ Cardinality(Without(t, id)) \in Nat
  BY <1>1, FS_Subset, FS_CardinalityType
<1>3. Cardinality(sessions[t]) <= Teto
  BY DEF ServerTypes
<1>4. QED
  BY <1>1, <1>2, <1>3, Constants

LEMMA TakeLeaves ==
    ASSUME ServerTypes, NEW t \in Target, NEW id \in Id, NEW ok \in BOOLEAN, Take(t, id, ok)
    PROVE  /\ sessions' = [sessions EXCEPT ![t] = Without(t, id)]
           /\ saved' = saved \/ saved' = [saved EXCEPT ![t] = Without(t, id)]
           /\ \/ taken' = taken
              \/ /\ saved' = [saved EXCEPT ![t] = Without(t, id)]
                 /\ taken' = [taken EXCEPT ![id] = taken[id] + 1]
BY DEF Take, ServerTypes

LEMMA TakeTypes ==
    ASSUME ServerTypes, Stores, NEW t \in Target, NEW id \in Id, NEW ok \in BOOLEAN, Take(t, id, ok),
           UNCHANGED <<now, cert, issued, presented>>
    PROVE  ServerTypes'
<1>1. IsFiniteSet(sessions[t])
  BY DEF Stores
<1>2. Without(t, id) \subseteq Stored /\ Cardinality(Without(t, id)) <= Teto
  BY <1>1, Smaller
<1>3. Stored' = Stored
  BY StaysGrown
<1>4. sessions' = [sessions EXCEPT ![t] = Without(t, id)]
  BY TakeLeaves
<1>5. saved' = saved \/ saved' = [saved EXCEPT ![t] = Without(t, id)]
  BY TakeLeaves
<1>6. taken' \in [Id -> Nat]
  <2>1. taken \in [Id -> Nat] /\ taken[id] + 1 \in Nat
    BY DEF ServerTypes
  <2>2. taken' = taken \/ taken' = [taken EXCEPT ![id] = taken[id] + 1]
    BY TakeLeaves
  <2>3. QED
    BY <2>1, <2>2
<1>7. /\ sessions' \in [Target -> SUBSET Stored]
      /\ \A u \in Target : Cardinality(sessions'[u]) <= Teto
  BY <1>2, <1>4 DEF ServerTypes
<1>8. /\ saved' \in [Target -> SUBSET Stored]
      /\ \A u \in Target : Cardinality(saved'[u]) <= Teto
  BY <1>2, <1>5 DEF ServerTypes
<1>9. QED
  BY <1>3, <1>6, <1>7, <1>8 DEF ServerTypes

\* podar keeps at most Teto.
LEMMA PodarFits ==
    ASSUME NEW S, IsFiniteSet(S), NEW kept, Podar(S, kept)
    PROVE  /\ kept \subseteq S /\ IsFiniteSet(kept) /\ Cardinality(kept) <= Teto
           /\ IsFiniteSet(Young(S)) /\ Young(S) \subseteq S
<1>1. kept \subseteq Young(S) /\ Young(S) \subseteq S
  BY DEF Podar, Young
<1>2. IsFiniteSet(Young(S)) /\ IsFiniteSet(kept) /\ Cardinality(Young(S)) \in Nat
  BY <1>1, FS_Subset, FS_CardinalityType
<1>3. Cardinality(kept) = IF Cardinality(Young(S)) > Teto THEN Teto ELSE Cardinality(Young(S))
  BY DEF Podar
<1>4. QED
  BY <1>1, <1>2, <1>3, Constants

\* The sessions of t with the one that was just issued.
Added(t) == sessions[t] \cup {[id |-> Len(issued) + 1, at |-> now]}

Finishing(c, ok, t, n) == Finish(c, ok) /\ t = job[c].target /\ n = Len(issued) + 1

\* The history gets the session.
IssuesAs(c, t, n) ==
    /\ t \in Target /\ n \in Id /\ Grows
    /\ job[c].cert \in Cert /\ <<t, job[c].cert>> \in verified[c]
    /\ Len(issued') = n
    /\ issued'[n].target = t /\ issued'[n].cert = job[c].cert /\ issued'[n].at = now
    /\ DOMAIN issued' = DOMAIN issued \cup {n} /\ n \notin DOMAIN issued

LEMMA FinishIssues ==
    ASSUME ClientTypes, ServerTypes, Clients, NEW c \in Client, NEW ok \in BOOLEAN,
           NEW t, NEW n, Finishing(c, ok, t, n)
    PROVE  IssuesAs(c, t, n)
<1> USE DEF Finishing
<1>1. /\ pc[c] = "finish" /\ n \in Id
      /\ issued' = Append(issued, [target |-> t, cert |-> job[c].cert, at |-> now])
  BY DEF Finish
<1>2. t \in Target /\ job[c].cert \in Cert /\ <<t, job[c].cert>> \in verified[c]
  BY <1>1 DEF Clients, Handshake
<1>3. [target |-> t, cert |-> job[c].cert, at |-> now] \in Issued
  BY <1>2 DEF Issued, ServerTypes
<1>4. Grows /\ Len(issued') = n
  BY <1>1, <1>3 DEF ServerTypes, Grows
<1>5. issued'[n] = [target |-> t, cert |-> job[c].cert, at |-> now]
  BY <1>1, <1>3 DEF ServerTypes
<1>6. DOMAIN issued' = DOMAIN issued \cup {n} /\ n \notin DOMAIN issued
  BY <1>4, StoredGrows DEF ServerTypes
<1>7. QED
  BY <1>1, <1>2, <1>4, <1>5, <1>6 DEF IssuesAs

\* The peer stores it, and podar makes room.
LEMMA FinishStores ==
    ASSUME ClientTypes, ServerTypes, Clients, Stores, NEW c \in Client, NEW ok \in BOOLEAN,
           NEW t, NEW n, Finishing(c, ok, t, n)
    PROVE  /\ IsFiniteSet(Added(t)) /\ Added(t) \subseteq Stored'
           /\ \E kept : /\ Podar(Added(t), kept)
                        /\ sessions' = [sessions EXCEPT ![t] = kept]
                        /\ saved' = IF ok THEN [saved EXCEPT ![t] = kept] ELSE saved
<1>1. t \in Target /\ Grows /\ n = Len(issued) + 1 /\ Len(issued') = n
  <2>1. IssuesAs(c, t, n)
    BY FinishIssues
  <2>2. QED
    BY <2>1 DEF IssuesAs, Finishing
<1>2. IsFiniteSet(Added(t))
  <2>1. IsFiniteSet(sessions[t])
    BY <1>1 DEF Stores
  <2>2. IsFiniteSet(sessions[t] \cup {[id |-> Len(issued) + 1, at |-> now]})
    BY <2>1, FS_AddElement
  <2>3. QED
    BY <2>2 DEF Added
<1>3. [id |-> Len(issued) + 1, at |-> now] \in Stored'
  BY <1>1 DEF Stored, ServerTypes
<1>4. Added(t) \subseteq Stored'
  <2>1. sessions[t] \subseteq Stored /\ Stored \subseteq Stored'
    BY <1>1, StoredGrows DEF ServerTypes
  <2>2. QED
    BY <1>3, <2>1 DEF Added
<1>5. \E kept : /\ Podar(Added(t), kept)
                /\ sessions' = [sessions EXCEPT ![t] = kept]
                /\ saved' = IF ok THEN [saved EXCEPT ![t] = kept] ELSE saved
  BY DEF Finishing, Finish, Added
<1>6. QED
  BY <1>2, <1>4, <1>5

\* The steps that leave the session stores alone.
LEMMA StoresSame ==
    ASSUME ServerTypes, Stores, UNCHANGED <<issued, sessions, saved, taken>>,
           now' \in 0 .. End, cert' \in [Target -> Cert], presented' \subseteq Id
    PROVE  ServerTypes' /\ Stores'
<1>1. Stored' = Stored
  BY StaysGrown
<1>2. ServerTypes'
  BY <1>1 DEF ServerTypes
<1>3. Stores'
  BY DEF Stores
<1>4. QED
  BY <1>2, <1>3

LEMMA TakeStores ==
    ASSUME ServerTypes, Stores, NEW t \in Target, NEW id \in Id, NEW ok \in BOOLEAN, Take(t, id, ok),
           \E s \in sessions[t] : s.id = id, issued' = issued
    PROVE  Stores'
<1>1. PICK r \in sessions[t] : r.id = id
  OBVIOUS
<1>2. issued[id].target = t /\ taken[id] = 0 /\ id <= Len(issued)
  <2>1. r \in Stored
    BY DEF ServerTypes
  <2>2. QED
    BY <1>1, <2>1 DEF Stores, Stored, ServerTypes
<1>3. sessions' = [sessions EXCEPT ![t] = Without(t, id)]
  BY TakeLeaves
<1>4. saved' = saved \/ saved' = [saved EXCEPT ![t] = Without(t, id)]
  BY TakeLeaves
<1>5. \/ taken' = taken
      \/ /\ saved' = [saved EXCEPT ![t] = Without(t, id)]
         /\ taken' = [taken EXCEPT ![id] = taken[id] + 1]
  BY TakeLeaves
<1>6. Without(t, id) \subseteq sessions[t] /\ IsFiniteSet(Without(t, id))
  BY Smaller DEF Stores
<1>7. \A s \in Without(t, id) : s.id # id
  BY DEF Without
<1>8. ASSUME NEW u \in Target
      PROVE  /\ IsFiniteSet(sessions'[u]) /\ IsFiniteSet(saved'[u])
             /\ sessions'[u] \cup saved'[u] \subseteq sessions[u] \cup saved[u]
             /\ taken' # taken /\ u = t => sessions'[u] \cup saved'[u] = Without(t, id)
  BY <1>3, <1>4, <1>5, <1>6 DEF ServerTypes, Stores
<1>9. \A u \in Target : IsFiniteSet(sessions'[u]) /\ IsFiniteSet(saved'[u])
  BY <1>8
<1>10. ASSUME NEW u \in Target, NEW s \in sessions'[u] \cup saved'[u]
       PROVE  issued'[s.id].target = u /\ issued'[s.id].at = s.at /\ taken'[s.id] = 0
  <2>1. issued[s.id].target = u /\ issued[s.id].at = s.at /\ taken[s.id] = 0
    BY <1>8, <1>10 DEF Stores
  <2>2. CASE taken' = taken
    BY <2>1, <2>2
  <2>3. CASE taken' # taken
    <3>1. s.id # id
      BY <1>2, <1>7, <1>8, <2>1, <2>3
    <3>2. s \in Stored
      BY <1>8, <1>10 DEF ServerTypes
    <3>3. s.id \in Id
      BY <3>2, IssuedIds
    <3>4. taken'[s.id] = taken[s.id]
      BY <1>5, <2>3, <3>1, <3>3 DEF ServerTypes
    <3>5. QED
      BY <2>1, <3>4
  <2>4. QED
    BY <2>2, <2>3
<1>11. \A i \in Id : taken'[i] <= 1 /\ (taken'[i] # 0 => i <= Len(issued'))
  BY <1>2, <1>5 DEF Stores, ServerTypes
<1>12. QED
  BY <1>9, <1>10, <1>11 DEF Stores

LEMMA FinishTypes ==
    ASSUME ClientTypes, ServerTypes, Clients, Stores, NEW c \in Client, NEW ok \in BOOLEAN, Finish(c, ok)
    PROVE  ServerTypes' /\ Stores'
<1>1. PICK t, n : Finishing(c, ok, t, n)
  BY DEF Finishing
<1>19. n = Len(issued) + 1
  BY <1>1 DEF Finishing
<1>2. /\ t \in Target /\ n \in Id /\ Grows /\ Len(issued') = n
      /\ issued'[n].target = t /\ issued'[n].at = now
  <2>1. IssuesAs(c, t, n)
    BY <1>1, FinishIssues
  <2>2. QED
    BY <2>1 DEF IssuesAs
<1>20. IsFiniteSet(Added(t)) /\ Added(t) \subseteq Stored'
  BY <1>1, FinishStores
<1>3. PICK kept : /\ Podar(Added(t), kept)
                  /\ sessions' = [sessions EXCEPT ![t] = kept]
                  /\ saved' = IF ok THEN [saved EXCEPT ![t] = kept] ELSE saved
  BY <1>1, FinishStores
<1>4. kept \subseteq Added(t) /\ IsFiniteSet(kept) /\ Cardinality(kept) <= Teto
  BY <1>3, <1>20, PodarFits
<1>5. kept \in SUBSET (Stored')
  BY <1>4, <1>20
<1>6. Stored \subseteq Stored' /\ DOMAIN issued = 1 .. Len(issued)
  BY <1>2, StoredGrows
<1>7. UNCHANGED <<now, cert, presented, taken>>
  BY DEF Finish
<1>8. sessions' \in [Target -> SUBSET (Stored')] /\ saved' \in [Target -> SUBSET (Stored')]
  <2>1. sessions \in [Target -> SUBSET (Stored')] /\ saved \in [Target -> SUBSET (Stored')]
    BY <1>6 DEF ServerTypes
  <2>2. QED
    BY <1>3, <1>5, <2>1
<1>9. ASSUME NEW u \in Target
      PROVE  /\ (sessions'[u] = kept /\ u = t) \/ sessions'[u] = sessions[u]
             /\ (saved'[u] = kept /\ u = t) \/ saved'[u] = saved[u]
  BY <1>3 DEF ServerTypes
<1>10. \A u \in Target : Cardinality(sessions'[u]) <= Teto /\ Cardinality(saved'[u]) <= Teto
  BY <1>4, <1>9 DEF ServerTypes
<1>11. ServerTypes'
  <2>1. issued' \in Seq(Issued) /\ Len(issued') <= Sessions
    BY <1>2 DEF Grows, Id
  <2>2. QED
    BY <1>7, <1>8, <1>10, <2>1 DEF ServerTypes
<1>12. \A u \in Target : IsFiniteSet(sessions'[u]) /\ IsFiniteSet(saved'[u])
  BY <1>4, <1>9 DEF Stores
<1>13. ASSUME NEW u \in Target, NEW s \in sessions[u] \cup saved[u]
       PROVE  issued'[s.id].target = u /\ issued'[s.id].at = s.at /\ taken'[s.id] = 0
  <2>1. s \in Stored
    BY <1>13 DEF ServerTypes
  <2>2. s.id \in DOMAIN issued
    BY <1>6, <2>1 DEF Stored
  <2>3. QED
    BY <1>2, <1>7, <1>13, <2>2 DEF Stores, Grows
<1>14. taken[n] = 0
  BY <1>2, <1>19, IssuedIds DEF Stores, ServerTypes
<1>15. ASSUME NEW s \in Added(t)
       PROVE  issued'[s.id].target = t /\ issued'[s.id].at = s.at /\ taken'[s.id] = 0
  BY <1>2, <1>7, <1>13, <1>14, <1>19 DEF Added
<1>16. ASSUME NEW u \in Target, NEW s \in sessions'[u] \cup saved'[u]
       PROVE  issued'[s.id].target = u /\ issued'[s.id].at = s.at /\ taken'[s.id] = 0
  BY <1>4, <1>9, <1>13, <1>15, <1>16
<1>17. \A i \in Id : taken'[i] <= 1 /\ (taken'[i] # 0 => i <= Len(issued'))
  BY <1>2, <1>7, <1>19, IssuedIds DEF Stores, ServerTypes, Id
<1>18. QED
  BY <1>11, <1>12, <1>16, <1>17 DEF Stores

LEMMA ServerRestartStores ==
    ASSUME ServerTypes, Stores, NEW t \in Target, ServerRestart(t)
    PROVE  ServerTypes' /\ Stores'
<1>1. /\ sessions' = [sessions EXCEPT ![t] = saved[t]]
      /\ UNCHANGED <<now, saved, issued, presented, taken>>
      /\ \E f \in Cert : cert' = [cert EXCEPT ![t] = f]
  BY DEF ServerRestart
<1>2. Stored' = Stored
  BY <1>1, StaysGrown
<1>3. sessions' \in [Target -> SUBSET Stored] /\ cert' \in [Target -> Cert]
  BY <1>1 DEF ServerTypes
<1>4. \A u \in Target : sessions'[u] = sessions[u] \/ sessions'[u] = saved[u]
  BY <1>1 DEF ServerTypes
<1>5. \A u \in Target : Cardinality(sessions'[u]) <= Teto
  BY <1>4 DEF ServerTypes
<1>6. ServerTypes'
  BY <1>1, <1>2, <1>3, <1>5 DEF ServerTypes
<1>7. \A u \in Target : IsFiniteSet(sessions'[u])
  BY <1>4 DEF Stores
<1>8. ASSUME NEW u \in Target
      PROVE  sessions'[u] \cup saved'[u] \subseteq sessions[u] \cup saved[u]
  BY <1>1, <1>4
<1>9. Stores'
  BY <1>1, <1>7, <1>8 DEF Stores
<1>10. QED
  BY <1>6, <1>9

LEMMA StoresStep ==
    ASSUME ClientTypes, ServerTypes, Clients, Stores, [Next]_vars
    PROVE  ServerTypes' /\ Stores'
<1> USE DEF server
<1>1. ASSUME NEW c \in Client, NEW t \in Target, Connect(c, t)
      PROVE  ServerTypes' /\ Stores'
  <2>1. UNCHANGED <<issued, sessions, saved, taken, now, cert>>
    BY <1>1 DEF Connect
  <2>2. presented' \subseteq Id
    <3>1. presented' = presented \cup ({ticket[c][Key(t)]} \ {0})
      BY <1>1 DEF Connect
    <3>2. ticket[c][Key(t)] \in Id \cup {0}
      BY <1>1, ConnectJob
    <3>3. QED
      BY <3>1, <3>2 DEF ServerTypes
  <2>3. now' \in 0 .. End /\ cert' \in [Target -> Cert]
    BY <2>1 DEF ServerTypes
  <2>4. QED
    BY <2>1, <2>2, <2>3, StoresSame
<1>2. ASSUME NEW c \in Client, Local(c)
      PROVE  ServerTypes' /\ Stores'
  <2>1. UNCHANGED <<now, server>>
    BY <1>2, LocalLeaves
  <2>2. QED
    BY <2>1, StoresSame DEF ServerTypes
<1>3. ASSUME NEW c \in Client, ClientRestart(c)
      PROVE  ServerTypes' /\ Stores'
  <2>1. UNCHANGED <<now, server>>
    BY <1>3 DEF ClientRestart
  <2>2. QED
    BY <2>1, StoresSame DEF ServerTypes
<1>4. ASSUME NEW c \in Client, NEW ok \in BOOLEAN, Resume(c, ok)
      PROVE  ServerTypes' /\ Stores'
  <2>1. job[c].target \in Target /\ job[c].offered \in DOMAIN issued
    BY <1>4, ResumedCert
  <2>2. job[c].offered \in Id
    BY <2>1, IssuedIds
  <2>3. /\ Take(job[c].target, job[c].offered, ok) /\ UNCHANGED <<now, cert, issued, presented>>
        /\ \E s \in sessions[job[c].target] : s.id = job[c].offered
    BY <1>4 DEF Resume
  <2>4. QED
    BY <2>1, <2>2, <2>3, TakeTypes, TakeStores
<1>5. ASSUME NEW c \in Client, NEW ok \in BOOLEAN, Finish(c, ok)
      PROVE  ServerTypes' /\ Stores'
  BY <1>5, FinishTypes
<1>6. ASSUME NEW t \in Target, NEW id \in Id, NEW ok \in BOOLEAN, Replay(t, id, ok)
      PROVE  ServerTypes' /\ Stores'
  BY <1>6, TakeTypes, TakeStores DEF Replay
<1>7. ASSUME NEW t \in Target, ServerRestart(t)
      PROVE  ServerTypes' /\ Stores'
  BY <1>7, ServerRestartStores
<1>8. CASE Advance
  <2>1. UNCHANGED server /\ now < End /\ now' = now + 1
    BY <1>8 DEF Advance
  <2>2. now' \in 0 .. End
    BY <2>1, Constants DEF ServerTypes
  <2>3. QED
    BY <2>1, <2>2, StoresSame DEF ServerTypes
<1>9. CASE UNCHANGED vars
  <2>1. UNCHANGED <<now, server>>
    BY <1>9 DEF vars
  <2>2. QED
    BY <2>1, StoresSame DEF ServerTypes
<1>10. QED
  BY <1>1, <1>2, <1>3, <1>4, <1>5, <1>6, <1>7, <1>8, <1>9, NextSplits

(***************************************************************************)
(* Every step keeps what the clients know of their sessions.               *)
(***************************************************************************)

LEMMA ProvenGrows ==
    ASSUME ServerTypes, Grows, NEW c \in Client, verified[c] \subseteq verified'[c],
           NEW id, Proven(c, id)
    PROVE  Proven(c, id)'
BY StoredGrows DEF Proven, Grows

\* A config whose verifiers are of their keys and whose tickets stay or go.
LEMMA ConfigKept ==
    ASSUME ServerTypes, Grows, declared' = declared, NEW c \in Client, Config(c),
           \A k \in Keys : \E u : verifier'[c][k] = u /\ (u # "none" => Key(u) = k),
           verified[c] \subseteq verified'[c],
           \A k \in Keys : ticket'[c][k] \in {0, ticket[c][k]}
    PROVE  Config(c)'
<1>1. Keys' = Keys
  BY SameKeys
<1>2. ASSUME NEW k \in Keys
      PROVE  (verifier[c][k] # "none" => Key(verifier[c][k]) = k)'
  BY <1>2 DEF Key
<1>3. ASSUME NEW k \in Keys, ticket'[c][k] # 0
      PROVE  Proven(c, ticket[c][k])'
  <2>1. ticket'[c][k] = ticket[c][k] /\ Proven(c, ticket[c][k])
    BY <1>3 DEF Config
  <2>2. PICK id : id = ticket[c][k]
    OBVIOUS
  <2>3. Proven(c, id)'
    BY <2>1, <2>2, ProvenGrows
  <2>4. QED
    BY <2>1, <2>2, <2>3
<1>4. QED
  BY <1>1, <1>2, <1>3 DEF Config

\* A client no step is about.
LEMMA ClientKept ==
    ASSUME ServerTypes, Grows, declared' = declared, NEW c \in Client, Handshake(c), Config(c),
           (pc'[c] = pc[c] /\ job'[c] = job[c]) \/ pc'[c] = "idle",
           store'[c] = store[c], verifier'[c] = verifier[c], verified'[c] = verified[c],
           ticket'[c] = ticket[c]
    PROVE  Handshake(c)' /\ Config(c)'
<1>1. Config(c)'
  <2>1. \A k \in Keys : \E u : verifier'[c][k] = u /\ (u # "none" => Key(u) = k)
    BY DEF Config
  <2>2. QED
    BY <2>1, ConfigKept
<1>2. CASE pc'[c] = "idle"
  BY <1>1, <1>2 DEF Handshake
<1>3. CASE pc'[c] = pc[c] /\ job'[c] = job[c]
  <2>1. pc'[c] = "hello" =>
            /\ (verifier[c][Key(job[c].target)] # "none")'
            /\ declared'[job'[c].target] # "pin" => store'[c] # Closed
    BY <1>3 DEF Handshake, Key
  <2>2. ASSUME pc'[c] = "hello", job'[c].offered # 0
        PROVE  Proven(c, job[c].offered)'
    <3>1. PICK id : id = job[c].offered
      OBVIOUS
    <3>2. Proven(c, id)
      BY <1>3, <2>2, <3>1 DEF Handshake
    <3>3. Proven(c, id)'
      BY <3>2, ProvenGrows
    <3>4. QED
      BY <1>3, <3>1, <3>3
  <2>3. QED
    BY <1>1, <1>3, <2>1, <2>2 DEF Handshake
<1>4. QED
  BY <1>2, <1>3

LEMMA ConnectClients ==
    ASSUME ClientTypes, ServerTypes, Clients, NEW c \in Client, NEW t \in Target, Connect(c, t)
    PROVE  Clients'
<1> DEFINE k == Key(t)
<1>1. k \in Keys
  BY KeyIsKey
<1>2. /\ declared' = declared /\ issued' = issued /\ verified' = verified
      /\ pc' = [pc EXCEPT ![c] = "hello"] /\ ticket' = [ticket EXCEPT ![c][k] = 0]
      /\ verifier' = IF verifier[c][k] = "none" THEN [verifier EXCEPT ![c][k] = t] ELSE verifier
  BY DEF Connect, Goto
<1>3. Grows
  BY <1>2, StaysGrown
<1>4. \A d \in Client : d # c => pc'[d] = pc[d] /\ ticket'[d] = ticket[d] /\ verifier'[d] = verifier[d]
  BY <1>2 DEF ClientTypes
<1>5. \A d \in Client : d # c => store'[d] = store[d]
  BY DEF Connect, ClientTypes
<1>6. job' = [job EXCEPT ![c] = [target |-> t, cert |-> "none", offered |-> ticket[c][k], why |-> "none"]]
  BY ConnectJob
<1>7. \A d \in Client : d # c => job'[d] = job[d]
  BY <1>6 DEF ClientTypes
<1>8. ASSUME NEW d \in Client, d # c
      PROVE  Handshake(d)' /\ Config(d)'
  BY <1>2, <1>3, <1>4, <1>5, <1>7, <1>8, ClientKept DEF Clients
<1>9. \A l \in Keys : verifier'[c][l] = IF l = k /\ verifier[c][k] = "none" THEN t ELSE verifier[c][l]
  BY <1>1, <1>2 DEF ClientTypes
<1>10. \A l \in Keys : \E u : verifier'[c][l] = u /\ (u # "none" => Key(u) = l)
  BY <1>9 DEF Clients, Config
<1>11. \A l \in Keys : ticket'[c][l] \in {0, ticket[c][l]}
  BY <1>1, <1>2 DEF ClientTypes
<1>12. Config(c)'
  BY <1>2, <1>3, <1>10, <1>11, ConfigKept DEF Clients
<1>13. verifier'[c][k] # "none"
  BY <1>1, <1>9, Constants
<1>14. declared[t] # "pin" => store'[c] # Closed
  <2>1. CASE store[c] = Closed /\ declared[t] # "pin"
    <3>1. file # Torn /\ store' = [store EXCEPT ![c] = file]
      BY <2>1 DEF Connect
    <3>2. QED
      BY <3>1, Constants DEF ClientTypes
  <2>2. CASE ~(store[c] = Closed /\ declared[t] # "pin")
    BY <2>2 DEF Connect
  <2>3. QED
    BY <2>1, <2>2
<1>15. /\ job'[c].target = t /\ job'[c].offered = ticket[c][k] /\ pc'[c] = "hello"
  BY <1>2, <1>6 DEF ClientTypes
<1>16. ASSUME ticket[c][k] # 0
       PROVE  Proven(c, job[c].offered)'
  <2>1. PICK id : id = ticket[c][k] /\ Proven(c, id)
    BY <1>1, <1>16 DEF Clients, Config
  <2>2. Proven(c, id)'
    BY <1>2, <1>3, <2>1, ProvenGrows
  <2>3. QED
    BY <1>15, <2>1, <2>2
<1>17. (verifier[c][Key(job[c].target)] # "none")'
  BY <1>2, <1>13, <1>15 DEF Key
<1>18. Handshake(c)'
  BY <1>2, <1>14, <1>15, <1>16, <1>17 DEF Handshake
<1>19. QED
  BY <1>8, <1>12, <1>18 DEF Clients

LEMMA LocalClients ==
    ASSUME ClientTypes, ServerTypes, Clients, NEW c \in Client, Local(c)
    PROVE  Clients'
<1>1. /\ UNCHANGED <<declared, ticket, verifier, issued>>
      /\ pc'[c] # "hello"
      /\ \A d \in Client : d # c => /\ pc'[d] = pc[d] /\ job'[d] = job[d]
                                    /\ store'[d] = store[d] /\ verified'[d] = verified[d]
  BY LocalLeaves DEF server
<1>2. Grows
  BY <1>1, StaysGrown
<1>3. ASSUME NEW d \in Client, d # c
      PROVE  Handshake(d)' /\ Config(d)'
  BY <1>1, <1>2, <1>3, ClientKept DEF Clients
<1>4. verified[c] \subseteq verified'[c]
  <2>1. CASE Full(c)
    <3>1. LearnsAs(c, job[c].target, cert[job[c].target])
      BY <2>1, FullEffect
    <3>2. QED
      BY <3>1 DEF LearnsAs
  <2>2. CASE ~Full(c)
    BY <2>2 DEF Local, FullRefused, Broken, OpenTmp, WriteTmp, Rename, PersistFails, Rotate, trust
  <2>3. QED
    BY <2>1, <2>2
<1>5. Config(c)'
  <2>1. \A k \in Keys : \E u : verifier'[c][k] = u /\ (u # "none" => Key(u) = k)
    BY <1>1 DEF Clients, Config
  <2>2. QED
    BY <1>1, <1>2, <1>4, <2>1, ConfigKept DEF Clients
<1>6. Handshake(c)'
  <2>1. CASE Full(c)
    <3>1. PICK t, f : t = job[c].target /\ f = cert[t]
      OBVIOUS
    <3>2. /\ t \in Target /\ f \in Cert /\ <<t, f>> \in verified'[c]
          /\ pc'[c] = "finish" \/ (pc'[c] = "open" /\ store'[c] \in Entries)
      <4>1. LearnsAs(c, t, f)
        BY <2>1, <3>1, FullEffect
      <4>2. QED
        BY <4>1 DEF LearnsAs, ClientTypes
    <3>3. job'[c].target = t /\ job'[c].cert = f
      BY <2>1, <3>1, <3>2, FullJob DEF ClientTypes
    <3>4. QED
      BY <3>2, <3>3, Constants DEF Handshake
  <2>2. CASE FullRefused(c) \/ Broken(c) \/ PersistFails(c)
    <3>1. pc'[c] = "idle"
      BY <2>2 DEF FullRefused, Broken, PersistFails, Refuse, Idle, Goto, ClientTypes
    <3>2. QED
      BY <3>1 DEF Handshake
  <2>3. CASE OpenTmp(c) \/ WriteTmp(c)
    <3>1. /\ pc[c] \in {"open", "write"} /\ pc'[c] \in {"write", "rename"}
          /\ UNCHANGED <<job, store, verified>>
      BY <2>3 DEF OpenTmp, WriteTmp, Goto, ClientTypes, trust
    <3>2. QED
      BY <3>1 DEF Handshake, Clients
  <2>4. CASE Rename(c)
    <3>1. CASE job[c].why = "learn"
      <4>1. pc[c] = "rename" /\ pc'[c] = "finish" /\ UNCHANGED <<job, store, verified>>
        BY <2>4, <3>1 DEF Rename, Goto, ClientTypes
      <4>2. QED
        BY <3>1, <4>1 DEF Handshake, Clients
    <3>2. CASE job[c].why # "learn"
      <4>1. pc'[c] = "idle"
        BY <2>4, <3>2 DEF Rename, Idle, Goto, ClientTypes
      <4>2. QED
        BY <4>1 DEF Handshake
    <3>3. QED
      BY <3>1, <3>2
  <2>5. ASSUME NEW t \in Target, NEW pins \in SUBSET Cert, Rotate(c, t, pins)
        PROVE  Handshake(c)'
    <3>1. job'[c].target = t /\ job'[c].why = "rotate"
      BY <2>5, RotateJob DEF ClientTypes
    <3>2. pc'[c] = "open" /\ store'[c] # Closed
      BY <2>5, RotateTypes, Constants DEF ClientTypes
    <3>3. QED
      BY <3>1, <3>2 DEF Handshake
  <2>6. QED
    BY <2>1, <2>2, <2>3, <2>4, <2>5 DEF Local
<1>7. QED
  BY <1>3, <1>5, <1>6 DEF Clients

LEMMA ResumeClients ==
    ASSUME ClientTypes, ServerTypes, Clients, Stores, NEW c \in Client, NEW ok \in BOOLEAN, Resume(c, ok)
    PROVE  Clients'
<1>1. UNCHANGED <<declared, issued, store, verifier, verified, ticket>>
  BY DEF Resume, trust
<1>2. Grows
  BY <1>1, StaysGrown
<1>3. CASE ~ok
  <2>1. UNCHANGED <<pc, job>>
    BY <1>3 DEF Resume
  <2>2. QED
    BY <1>1, <1>2, <2>1, ClientKept DEF Clients
<1>4. CASE ok
  <2>1. PICK x \in Cert : x = issued[job[c].offered].cert
    BY ResumedCert
  <2>2. job[c].target \in Target /\ <<job[c].target, x>> \in verified[c]
    BY <2>1, ResumedCert
  <2>3. job' = [job EXCEPT ![c].cert = x] /\ pc' = [pc EXCEPT ![c] = "finish"]
    BY <1>4, <2>1 DEF Resume, Goto
  <2>4. job' = [job EXCEPT ![c] = [target |-> job[c].target, cert |-> x,
                                   offered |-> job[c].offered, why |-> job[c].why]]
    BY <2>3, ResumeJob
  <2>5. /\ job'[c].target = job[c].target /\ job'[c].cert = x /\ pc'[c] = "finish"
        /\ \A d \in Client : d # c => job'[d] = job[d] /\ pc'[d] = pc[d]
    BY <2>3, <2>4 DEF ClientTypes
  <2>6. ASSUME NEW d \in Client, d # c
        PROVE  Handshake(d)' /\ Config(d)'
    BY <1>1, <1>2, <2>5, <2>6, ClientKept DEF Clients
  <2>7. Config(c)'
    <3>1. \A k \in Keys : \E u : verifier'[c][k] = u /\ (u # "none" => Key(u) = k)
      BY <1>1 DEF Clients, Config
    <3>2. QED
      BY <1>1, <1>2, <3>1, ConfigKept DEF Clients
  <2>8. Handshake(c)'
    BY <1>1, <2>2, <2>5 DEF Handshake
  <2>9. QED
    BY <2>6, <2>7, <2>8 DEF Clients
<1>5. QED
  BY <1>3, <1>4

LEMMA FinishTicket ==
    ASSUME ClientTypes, ServerTypes, Clients, NEW c \in Client, NEW ok \in BOOLEAN,
           NEW t, NEW n, Finishing(c, ok, t, n)
    PROVE  /\ Key(t) \in Keys
           /\ \A d \in Client : \A k \in Keys :
                 ticket'[d][k] = IF ok /\ d = c /\ k = Key(t) THEN n ELSE ticket[d][k]
           /\ \A d \in Client : d # c => ticket'[d] = ticket[d]
<1>1. t \in Target
  <2>1. IssuesAs(c, t, n)
    BY FinishIssues
  <2>2. QED
    BY <2>1 DEF IssuesAs
<1>2. PICK k \in Keys : k = Key(t)
  BY <1>1, KeyIsKey
<1>3. ticket' = IF ok THEN [ticket EXCEPT ![c][k] = n] ELSE ticket
  BY <1>2 DEF Finishing, Finish
<1>4. /\ \A d \in Client : \A l \in Keys :
            ticket'[d][l] = IF ok /\ d = c /\ l = k THEN n ELSE ticket[d][l]
      /\ \A d \in Client : d # c => ticket'[d] = ticket[d]
  BY <1>3 DEF ClientTypes
<1>5. QED
  BY <1>2, <1>4

LEMMA FinishClients ==
    ASSUME ClientTypes, ServerTypes, Clients, NEW c \in Client, NEW ok \in BOOLEAN, Finish(c, ok)
    PROVE  Clients' /\ EveryLinkVerified'
<1>1. PICK t, n : Finishing(c, ok, t, n)
  BY DEF Finishing
<1>2. /\ t \in Target /\ n \in Id /\ Grows /\ <<t, job[c].cert>> \in verified[c]
      /\ issued'[n].target = t /\ issued'[n].cert = job[c].cert
      /\ n \in DOMAIN issued'
  <2>1. IssuesAs(c, t, n)
    BY <1>1, FinishIssues
  <2>2. QED
    BY <2>1 DEF IssuesAs
<1>3. UNCHANGED <<declared, store, verifier, verified>> /\ t = job[c].target
  BY <1>1 DEF Finishing, Finish, trust
<1>4. /\ Key(t) \in Keys
      /\ \A d \in Client : d # c => ticket'[d] = ticket[d]
      /\ \A k \in Keys : ticket'[c][k] = IF ok /\ k = Key(t) THEN n ELSE ticket[c][k]
  BY <1>1, FinishTicket
<1>5. /\ pc'[c] = "idle"
      /\ \A d \in Client : d # c => pc'[d] = pc[d] /\ job'[d] = job[d]
  BY DEF Finish, Idle, Goto, ClientTypes
<1>6. ASSUME NEW d \in Client, d # c
      PROVE  Handshake(d)' /\ Config(d)'
  BY <1>2, <1>3, <1>4, <1>5, <1>6, ClientKept DEF Clients
<1>7. Handshake(c)'
  BY <1>5 DEF Handshake
<1>8. Proven(c, n)'
  BY <1>2, <1>3 DEF Proven
<1>9. ASSUME NEW k \in Keys, ticket'[c][k] # 0
      PROVE  Proven(c, ticket[c][k])'
  <2>1. CASE ok /\ k = Key(t)
    <3>1. ticket'[c][k] = n
      BY <1>4, <2>1
    <3>2. QED
      BY <1>8, <3>1
  <2>2. CASE ~(ok /\ k = Key(t))
    <3>1. ticket'[c][k] = ticket[c][k]
      BY <1>4, <2>2
    <3>2. PICK id : id = ticket[c][k] /\ Proven(c, id)
      BY <1>9, <3>1 DEF Clients, Config
    <3>3. Proven(c, id)'
      BY <1>2, <1>3, <3>2, ProvenGrows
    <3>4. QED
      BY <3>1, <3>2, <3>3
  <2>3. QED
    BY <2>1, <2>2
<1>10. ASSUME NEW k \in Keys
       PROVE  (verifier[c][k] # "none" => Key(verifier[c][k]) = k)'
  BY <1>3 DEF Key, Clients, Config
<1>11. Config(c)'
  <2>1. Keys' = Keys
    BY <1>3, SameKeys
  <2>2. QED
    BY <1>9, <1>10, <2>1 DEF Config
<1>12. EveryLinkVerified'
  <2>1. link' = [NoLinks EXCEPT ![c] = [target |-> t, cert |-> job[c].cert]]
    BY <1>1 DEF Finishing, Finish
  <2>2. /\ \A d \in Client : d # c => link'[d] = NoLink
        /\ link'[c].target = t /\ link'[c].cert = job[c].cert
    BY <2>1 DEF NoLinks
  <2>3. QED
    BY <1>2, <1>3, <2>2 DEF EveryLinkVerified, NoLink
<1>13. QED
  BY <1>6, <1>7, <1>11, <1>12 DEF Clients

LEMMA NoLinksVerified ==
    ASSUME link' = NoLinks
    PROVE  EveryLinkVerified'
BY DEF EveryLinkVerified, NoLinks, NoLink

LEMMA ClientsStep ==
    ASSUME ClientTypes, ServerTypes, Clients, Stores, EveryLinkVerified, [Next]_vars
    PROVE  Clients' /\ EveryLinkVerified'
<1>1. ASSUME NEW c \in Client, NEW t \in Target, Connect(c, t)
      PROVE  Clients' /\ EveryLinkVerified'
  BY <1>1, ConnectClients, NoLinksVerified DEF Connect
<1>2. ASSUME NEW c \in Client, Local(c)
      PROVE  Clients' /\ EveryLinkVerified'
  BY <1>2, LocalClients, LocalLeaves, NoLinksVerified
<1>3. ASSUME NEW c \in Client, ClientRestart(c)
      PROVE  Clients' /\ EveryLinkVerified'
  <2>1. /\ UNCHANGED <<declared, issued>> /\ link' = NoLinks /\ pc'[c] = "idle"
        /\ \A k \in Keys : verifier'[c][k] = "none" /\ ticket'[c][k] = 0
    BY <1>3 DEF ClientRestart, Refuse, Idle, Goto, server, ClientTypes
  <2>2. \A d \in Client : d # c => /\ pc'[d] = pc[d] /\ job'[d] = job[d] /\ store'[d] = store[d]
                                   /\ verifier'[d] = verifier[d] /\ verified'[d] = verified[d]
                                   /\ ticket'[d] = ticket[d]
    BY <1>3 DEF ClientRestart, Refuse, Idle, Goto, ClientTypes
  <2>3. Grows
    BY <2>1, StaysGrown
  <2>4. ASSUME NEW d \in Client, d # c
        PROVE  Handshake(d)' /\ Config(d)'
    BY <2>1, <2>2, <2>3, <2>4, ClientKept DEF Clients
  <2>5. Keys' = Keys
    BY <2>1, SameKeys
  <2>6. Handshake(c)' /\ Config(c)'
    BY <2>1, <2>5 DEF Handshake, Config
  <2>7. QED
    BY <2>1, <2>4, <2>6, NoLinksVerified DEF Clients
<1>4. ASSUME NEW c \in Client, NEW ok \in BOOLEAN, Resume(c, ok)
      PROVE  Clients' /\ EveryLinkVerified'
  BY <1>4, ResumeClients, NoLinksVerified DEF Resume
<1>5. ASSUME NEW c \in Client, NEW ok \in BOOLEAN, Finish(c, ok)
      PROVE  Clients' /\ EveryLinkVerified'
  BY <1>5, FinishClients
<1>6. ASSUME NEW t \in Target, NEW id \in Id, NEW ok \in BOOLEAN, Replay(t, id, ok)
      PROVE  Clients' /\ EveryLinkVerified'
  <2>1. UNCHANGED <<declared, issued, pc, job, store, verifier, verified, ticket>> /\ link' = NoLinks
    BY <1>6 DEF Replay, trust
  <2>2. Grows
    BY <2>1, StaysGrown
  <2>3. QED
    BY <2>1, <2>2, ClientKept, NoLinksVerified DEF Clients
<1>7. ASSUME NEW t \in Target, ServerRestart(t)
      PROVE  Clients' /\ EveryLinkVerified'
  <2>1. UNCHANGED <<declared, issued, store, verifier, verified, ticket>> /\ link' = NoLinks
    BY <1>7 DEF ServerRestart, trust
  <2>2. Grows
    BY <2>1, StaysGrown
  <2>3. \A c \in Client : (pc'[c] = pc[c] /\ job'[c] = job[c]) \/ pc'[c] = "idle"
    BY <1>7, ServerRestartJobs
  <2>4. QED
    BY <2>1, <2>2, <2>3, ClientKept, NoLinksVerified DEF Clients
<1>8. CASE Advance
  <2>1. UNCHANGED <<declared, issued, pc, job, store, verifier, verified, ticket>> /\ link' = NoLinks
    BY <1>8 DEF Advance, trust, server
  <2>2. Grows
    BY <2>1, StaysGrown
  <2>3. QED
    BY <2>1, <2>2, ClientKept, NoLinksVerified DEF Clients
<1>9. CASE UNCHANGED vars
  <2>1. UNCHANGED <<declared, issued, pc, job, store, verifier, verified, ticket, link>>
    BY <1>9 DEF vars, trust, server, client
  <2>2. Grows
    BY <2>1, StaysGrown
  <2>3. QED
    BY <2>1, <2>2, ClientKept DEF Clients, EveryLinkVerified
<1>10. QED
  BY <1>1, <1>2, <1>3, <1>4, <1>5, <1>6, <1>7, <1>8, <1>9, NextSplits

(***************************************************************************)
(* Every step keeps the tickets apart, and from what was offered.          *)
(***************************************************************************)

LEMMA TicketKnown ==
    ASSUME Clients, NEW c \in Client, NEW k \in Keys, ticket[c][k] # 0
    PROVE  ticket[c][k] \in DOMAIN issued
BY DEF Clients, Config, Proven

LEMMA ZeroUnknown ==
    ASSUME ServerTypes
    PROVE  0 \notin DOMAIN issued
BY IssuedIds

\* The steps that offer nothing and hand out nothing.
LEMMA OfferedSame ==
    ASSUME ServerTypes, Offered, Grows, UNCHANGED <<declared, presented>>,
           \A c \in Client : \A k \in Keys : ticket'[c][k] \in {0, ticket[c][k]},
           \A c \in Client : pc'[c] = "hello" => pc[c] = "hello" /\ job'[c].offered = job[c].offered
    PROVE  Offered'
<1>1. Keys' = Keys
  BY SameKeys
<1>2. presented' \subseteq DOMAIN issued' /\ 0 \notin presented
  BY StoredGrows, ZeroUnknown DEF Offered
<1>3. \A c \in Client : pc'[c] = "hello" => job'[c].offered \in presented' \cup {0}
  BY DEF Offered
<1>4. ASSUME NEW c \in Client, NEW d \in Client, NEW k \in Keys, NEW l \in Keys,
             ticket'[c][k] # 0, <<c, k>> # <<d, l>>
      PROVE  ticket'[c][k] # ticket'[d][l]
  BY <1>4 DEF Offered
<1>5. \A c \in Client : \A k \in Keys : ticket'[c][k] \notin presented'
  BY <1>2 DEF Offered
<1>6. QED
  BY <1>1, <1>2, <1>3, <1>4, <1>5 DEF Offered

LEMMA ConnectOffers ==
    ASSUME ClientTypes, ServerTypes, Clients, Offered, NEW c \in Client, NEW t \in Target, Connect(c, t)
    PROVE  Offered'
<1>1. PICK k \in Keys : k = Key(t)
  BY KeyIsKey
<1>2. PICK i : i = ticket[c][k]
  OBVIOUS
<1>3. /\ declared' = declared /\ issued' = issued /\ presented' = presented \cup ({i} \ {0})
      /\ ticket' = [ticket EXCEPT ![c][k] = 0] /\ pc' = [pc EXCEPT ![c] = "hello"]
  BY <1>1, <1>2 DEF Connect, Goto
<1>4. job' = [job EXCEPT ![c] = [target |-> t, cert |-> "none", offered |-> i, why |-> "none"]]
  BY <1>1, <1>2, ConnectJob
<1>5. i # 0 => i \in DOMAIN issued
  BY <1>2, TicketKnown
<1>6. Keys' = Keys
  BY <1>3, SameKeys
<1>7. \A d \in Client : \A l \in Keys :
          ticket'[d][l] = IF d = c /\ l = k THEN 0 ELSE ticket[d][l]
  BY <1>3 DEF ClientTypes
<1>8. presented' \subseteq DOMAIN issued'
  BY <1>3, <1>5 DEF Offered
<1>9. ASSUME NEW d \in Client, pc'[d] = "hello"
      PROVE  job'[d].offered \in presented' \cup {0}
  <2>1. CASE d = c
    BY <1>3, <1>4, <2>1 DEF ClientTypes
  <2>2. CASE d # c
    BY <1>3, <1>4, <1>9, <2>2 DEF ClientTypes, Offered
  <2>3. QED
    BY <2>1, <2>2
<1>10. ASSUME NEW d \in Client, NEW e \in Client, NEW l \in Keys, NEW m \in Keys,
              ticket'[d][l] # 0, <<d, l>> # <<e, m>>
       PROVE  ticket'[d][l] # ticket'[e][m]
  BY <1>7, <1>10 DEF Offered
<1>11. ASSUME NEW d \in Client, NEW l \in Keys
       PROVE  ticket'[d][l] \notin presented'
  <2>1. CASE d = c /\ l = k
    BY <1>3, <1>7, <2>1, ZeroUnknown DEF Offered
  <2>2. CASE ~(d = c /\ l = k)
    <3>1. ticket'[d][l] = ticket[d][l] /\ ticket[d][l] \notin presented
      BY <1>7, <2>2 DEF Offered
    <3>2. i # 0 => i # ticket[d][l]
      BY <1>2, <2>2 DEF Offered
    <3>3. QED
      BY <1>3, <3>1, <3>2
  <2>3. QED
    BY <2>1, <2>2
<1>12. QED
  BY <1>6, <1>8, <1>9, <1>10, <1>11 DEF Offered

LEMMA FinishOffers ==
    ASSUME ClientTypes, ServerTypes, Clients, Offered, NEW c \in Client, NEW ok \in BOOLEAN, Finish(c, ok)
    PROVE  Offered'
<1>1. PICK t, n : Finishing(c, ok, t, n)
  BY DEF Finishing
<1>2. /\ Grows /\ n \notin DOMAIN issued
  <2>1. IssuesAs(c, t, n)
    BY <1>1, FinishIssues
  <2>2. QED
    BY <2>1 DEF IssuesAs
<1>3. UNCHANGED <<declared, presented>>
  BY DEF Finish
<1>4. PICK k : k = Key(t)
  OBVIOUS
<1>5. \A d \in Client : \A l \in Keys :
          ticket'[d][l] = IF ok /\ d = c /\ l = k THEN n ELSE ticket[d][l]
  BY <1>1, <1>4, FinishTicket
<1>6. \A d \in Client : pc'[d] = "hello" => pc[d] = "hello" /\ job'[d] = job[d]
  BY DEF Finish, Idle, Goto, ClientTypes
<1>7. Keys' = Keys /\ presented' \subseteq DOMAIN issued' /\ n \notin presented
  BY <1>2, <1>3, SameKeys, StoredGrows DEF Offered
<1>8. \A d \in Client : pc'[d] = "hello" => job'[d].offered \in presented' \cup {0}
  BY <1>3, <1>6 DEF Offered
<1>9. \A d \in Client : \A l \in Keys : ticket[d][l] # 0 => ticket[d][l] # n
  BY <1>2, TicketKnown
<1>12. n # 0
  BY <1>1, IssuedIds DEF Finishing
<1>10. ASSUME NEW d \in Client, NEW e \in Client, NEW l \in Keys, NEW m \in Keys,
              ticket'[d][l] # 0, <<d, l>> # <<e, m>>
       PROVE  ticket'[d][l] # ticket'[e][m]
  <2>1. CASE ok /\ d = c /\ l = k
    BY <1>5, <1>9, <1>10, <1>12, <2>1
  <2>2. CASE ~(ok /\ d = c /\ l = k)
    BY <1>5, <1>9, <1>10, <1>12, <2>2 DEF Offered
  <2>3. QED
    BY <2>1, <2>2
<1>11. \A d \in Client : \A l \in Keys : ticket'[d][l] \notin presented'
  BY <1>3, <1>5, <1>7 DEF Offered
<1>13. QED
  BY <1>7, <1>8, <1>10, <1>11 DEF Offered

LEMMA OfferedStep ==
    ASSUME ClientTypes, ServerTypes, Clients, Stores, Offered, [Next]_vars
    PROVE  Offered'
<1>1. ASSUME NEW c \in Client, NEW t \in Target, Connect(c, t)
      PROVE  Offered'
  BY <1>1, ConnectOffers
<1>2. ASSUME NEW c \in Client, Local(c)
      PROVE  Offered'
  <2>1. /\ UNCHANGED <<declared, presented, issued, ticket>>
        /\ \A d \in Client : pc'[d] = "hello" => pc[d] = "hello" /\ job'[d] = job[d]
    BY <1>2, LocalLeaves DEF server
  <2>2. QED
    BY <2>1, StaysGrown, OfferedSame
<1>3. ASSUME NEW c \in Client, ClientRestart(c)
      PROVE  Offered'
  <2>1. /\ UNCHANGED <<declared, presented, issued>>
        /\ \A d \in Client : pc'[d] = "hello" => pc[d] = "hello" /\ job'[d] = job[d]
        /\ ticket' = [ticket EXCEPT ![c] = [k \in Keys |-> 0]]
    BY <1>3 DEF ClientRestart, Refuse, Idle, Goto, ClientTypes, server
  <2>2. \A d \in Client : \A k \in Keys : ticket'[d][k] \in {0, ticket[d][k]}
    BY <2>1 DEF ClientTypes
  <2>3. QED
    BY <2>1, <2>2, StaysGrown, OfferedSame
<1>4. ASSUME NEW c \in Client, NEW ok \in BOOLEAN, Resume(c, ok)
      PROVE  Offered'
  <2>1. UNCHANGED <<declared, presented, issued, ticket>>
    BY <1>4 DEF Resume
  <2>2. \A d \in Client : pc'[d] = "hello" => pc[d] = "hello" /\ job'[d] = job[d]
    <3>1. CASE ok
      BY <1>4, <3>1 DEF Resume, Goto, ClientTypes
    <3>2. CASE ~ok
      BY <1>4, <3>2 DEF Resume
    <3>3. QED
      BY <3>1, <3>2
  <2>3. QED
    BY <2>1, <2>2, StaysGrown, OfferedSame
<1>5. ASSUME NEW c \in Client, NEW ok \in BOOLEAN, Finish(c, ok)
      PROVE  Offered'
  BY <1>5, FinishOffers
<1>6. ASSUME NEW t \in Target, NEW id \in Id, NEW ok \in BOOLEAN, Replay(t, id, ok)
      PROVE  Offered'
  <2>1. UNCHANGED <<declared, presented, issued, pc, job, ticket>>
    BY <1>6 DEF Replay
  <2>2. QED
    BY <2>1, StaysGrown, OfferedSame
<1>7. ASSUME NEW t \in Target, ServerRestart(t)
      PROVE  Offered'
  <2>1. UNCHANGED <<declared, presented, issued, ticket>>
    BY <1>7 DEF ServerRestart
  <2>2. \A c \in Client : pc'[c] = "hello" => pc[c] = "hello" /\ job'[c] = job[c]
    BY <1>7, ServerRestartJobs
  <2>3. QED
    BY <2>1, <2>2, StaysGrown, OfferedSame
<1>8. CASE Advance
  <2>1. UNCHANGED <<declared, presented, issued, pc, job, ticket>>
    BY <1>8 DEF Advance, server
  <2>2. QED
    BY <2>1, StaysGrown, OfferedSame
<1>9. CASE UNCHANGED vars
  <2>1. UNCHANGED <<declared, presented, issued, pc, job, ticket>>
    BY <1>9 DEF vars, server, client
  <2>2. QED
    BY <2>1, StaysGrown, OfferedSame
<1>10. QED
  BY <1>1, <1>2, <1>3, <1>4, <1>5, <1>6, <1>7, <1>8, <1>9, NextSplits

(***************************************************************************)
(* How long a ticket lasts.                                                *)
(***************************************************************************)

Since(id) == {j \in DOMAIN issued : /\ j # id /\ issued[j].target = issued[id].target
                                    /\ issued[j].at >= issued[id].at}

Stands(id) == id \in Ids(sessions[issued[id].target]) \cap Ids(saved[issued[id].target])
Over(id) == now - issued[id].at >= IdadeMax \/ Cardinality(Since(id)) >= Teto

LEMMA LastsMeans ==
    TicketsLast <=> \A c \in Client, k \in Keys :
                        ticket[c][k] # 0 => Stands(ticket[c][k]) \/ Over(ticket[c][k])
BY DEF TicketsLast, Stands, Over, Since

LEMMA LastsMeansNext ==
    TicketsLast' <=> \A c \in Client, k \in Keys' :
                         ticket'[c][k] # 0 => Stands(ticket[c][k])' \/ Over(ticket[c][k])'
BY DEF TicketsLast, Stands, Over, Since

LEMMA SinceFinite ==
    ASSUME ServerTypes, NEW id
    PROVE  IsFiniteSet(Since(id)) /\ Cardinality(Since(id)) \in Nat
<1>1. IsFiniteSet(1 .. Len(issued)) /\ Since(id) \in SUBSET (1 .. Len(issued))
  BY IssuedIds, FS_Interval DEF Since
<1>2. QED
  BY <1>1, FS_Subset, FS_CardinalityType

\* A term that is over stays over.
LEMMA OverStays ==
    ASSUME ServerTypes, ServerTypes', Grows, now' >= now, NEW id \in DOMAIN issued, Over(id)
    PROVE  Over(id)'
<1>1. id \in DOMAIN issued' /\ issued'[id] = issued[id]
  BY StoredGrows DEF Grows
<1>2. issued[id].at \in Nat /\ now \in Nat /\ now' \in Nat
  BY KnownCert, Constants DEF ServerTypes
<1>3. CASE now - issued[id].at >= IdadeMax
  BY <1>1, <1>2, <1>3, Constants DEF Over
<1>4. CASE Cardinality(Since(id)) >= Teto
  <2>1. Since(id) \subseteq Since(id)'
    BY <1>1, StoredGrows DEF Since, Grows
  <2>2. PICK later : later = Since(id)'
    OBVIOUS
  <2>3. IsFiniteSet(later) /\ Cardinality(later) \in Nat
    <3>1. DOMAIN issued' = 1 .. Len(issued') /\ Len(issued') \in Nat
      BY StoredGrows DEF Grows
    <3>2. IsFiniteSet(1 .. Len(issued'))
      BY <3>1, FS_Interval
    <3>3. later \in SUBSET (1 .. Len(issued'))
      BY <2>2, <3>1 DEF Since
    <3>4. QED
      BY <3>2, <3>3, FS_Subset, FS_CardinalityType
  <2>4. Cardinality(Since(id)) <= Cardinality(later) /\ Cardinality(Since(id)) \in Nat
    BY <2>1, <2>2, <2>3, FS_Subset, SinceFinite
  <2>5. Cardinality(later) >= Teto
    BY <1>4, <2>3, <2>4, Constants
  <2>6. QED
    BY <2>2, <2>5 DEF Over
<1>5. QED
  BY <1>3, <1>4 DEF Over

\* What podar drops is old, or gives room to Teto others that are not older.
LEMMA PodarDrops ==
    ASSUME NEW S, IsFiniteSet(S), NEW kept, Podar(S, kept), NEW r \in S, r \notin kept
    PROVE  \/ ~(now - r.at < IdadeMax)
           \/ Cardinality(kept) = Teto /\ \A s \in kept : r.at <= s.at
<1>1. CASE r \notin Young(S)
  BY <1>1 DEF Young
<1>2. CASE r \in Young(S)
  <2>1. IsFiniteSet(Young(S)) /\ kept \in SUBSET Young(S) /\ kept # Young(S)
    BY <1>2, PodarFits DEF Podar
  <2>2. Cardinality(kept) # Cardinality(Young(S))
    BY <2>1, FS_Subset
  <2>3. Cardinality(kept) = Teto
    BY <2>2 DEF Podar
  <2>4. \A s \in kept : r.at <= s.at
    BY <1>2 DEF Podar
  <2>5. QED
    BY <2>3, <2>4
<1>3. QED
  BY <1>1, <1>2

\* As many sessions as there are stored have as many ids.
LEMMA IdsCount ==
    ASSUME NEW kept, IsFiniteSet(kept), NEW T, IsFiniteSet(T), \A s \in kept : s.id \in T,
           \A r \in kept, s \in kept : r.id = s.id => r = s
    PROVE  Cardinality(kept) <= Cardinality(T)
<1>1. Cardinality(kept) \in Nat /\ Cardinality(T) \in Nat
  BY FS_CardinalityType
<1>2. PICK f : f = [s \in kept |-> s.id]
  OBVIOUS
<1>3. f \in [kept -> T]
  BY <1>2
<1>4. ASSUME Cardinality(T) < Cardinality(kept)
      PROVE  FALSE
  <2>1. \E r, s \in kept : r # s /\ f[r] = f[s]
    BY <1>3, <1>4, FS_PigeonHole
  <2>2. QED
    BY <1>2, <2>1
<1>5. QED
  BY <1>1, <1>4

\* A session that Finish drops is over.
LEMMA DroppedIsOver ==
    ASSUME ServerTypes, ServerTypes', Grows, now' = now, NEW t \in Target, NEW S, IsFiniteSet(S),
           NEW kept, Podar(S, kept), NEW r \in S, r \notin kept, S \subseteq Stored',
           \A s \in S : issued'[s.id].target = t /\ issued'[s.id].at = s.at
    PROVE  Over(r.id)'
<1>1. \A s \in S : s = [id |-> s.id, at |-> s.at] /\ s.id \in DOMAIN issued' /\ s.at \in 0 .. End
  <2>1. DOMAIN issued' = 1 .. Len(issued')
    BY StoredGrows
  <2>2. QED
    BY <2>1 DEF Stored
<1>2. r.at \in Nat /\ now \in Nat
  BY <1>1, Constants DEF ServerTypes
<1>3. kept \subseteq S /\ IsFiniteSet(kept)
  BY PodarFits
<1>4. CASE ~(now - r.at < IdadeMax)
  <2>1. now' - issued'[r.id].at >= IdadeMax
    BY <1>2, <1>4, Constants
  <2>2. QED
    BY <2>1 DEF Over
<1>5. CASE Cardinality(kept) = Teto /\ \A s \in kept : r.at <= s.at
  <2>1. PICK later : later = Since(r.id)'
    OBVIOUS
  <2>2. ASSUME NEW s \in kept
        PROVE  s.id \in later
    <3>1. s \in S /\ s # r
      BY <1>3
    <3>2. s.id # r.id
      BY <1>1, <3>1
    <3>3. issued'[s.id].at >= issued'[r.id].at
      BY <1>1, <1>5, <3>1
    <3>4. QED
      BY <1>1, <2>1, <3>1, <3>2, <3>3 DEF Since
  <2>3. \A x \in kept, y \in kept : x.id = y.id => x = y
    BY <1>1, <1>3
  <2>4. IsFiniteSet(later)
    <3>1. IsFiniteSet(1 .. Len(issued')) /\ later \in SUBSET (1 .. Len(issued'))
      BY <2>1, StoredGrows, FS_Interval DEF Since, Grows
    <3>2. QED
      BY <3>1, FS_Subset
  <2>5. Cardinality(kept) <= Cardinality(later)
    BY <1>3, <2>2, <2>3, <2>4, IdsCount
  <2>6. Cardinality(later) >= Teto
    BY <1>5, <2>4, <2>5, FS_CardinalityType, Constants
  <2>7. QED
    BY <2>1, <2>6 DEF Over
<1>6. QED
  BY <1>4, <1>5, PodarDrops

\* The steps that take no ticket's session away and hand out no ticket.
LEMMA LastsSame ==
    ASSUME ClientTypes, ServerTypes, ServerTypes', Clients, TicketsLast,
           declared' = declared, issued' = issued, now' >= now,
           \A c \in Client : \A k \in Keys : ticket'[c][k] \in {0, ticket[c][k]},
           \A c \in Client, k \in Keys :
               ticket'[c][k] # 0 /\ Stands(ticket[c][k]) => Stands(ticket[c][k])'
    PROVE  TicketsLast'
<1>1. Keys' = Keys /\ Grows
  BY SameKeys, StaysGrown
<1>2. ASSUME NEW c \in Client, NEW k \in Keys, ticket'[c][k] # 0
      PROVE  Stands(ticket[c][k])' \/ Over(ticket[c][k])'
  <2>1. ticket'[c][k] = ticket[c][k] /\ ticket[c][k] # 0
    BY <1>2
  <2>2. ticket[c][k] \in DOMAIN issued
    BY <2>1, TicketKnown
  <2>3. Stands(ticket[c][k]) \/ Over(ticket[c][k])
    BY <2>1, LastsMeans
  <2>4. CASE Stands(ticket[c][k])
    BY <1>2, <2>4
  <2>5. CASE Over(ticket[c][k])
    <3>1. PICK id \in DOMAIN issued : id = ticket[c][k]
      BY <2>2
    <3>2. Over(id)'
      BY <1>1, <2>5, <3>1, OverStays
    <3>3. QED
      BY <2>1, <3>1, <3>2
  <2>6. QED
    BY <2>3, <2>4, <2>5
<1>3. QED
  BY <1>1, <1>2, LastsMeansNext

\* The session stores unchanged, too.
LEMMA LastsQuiet ==
    ASSUME ClientTypes, ServerTypes, ServerTypes', Clients, TicketsLast,
           UNCHANGED <<declared, issued, sessions, saved>>, now' >= now,
           \A c \in Client : \A k \in Keys : ticket'[c][k] \in {0, ticket[c][k]}
    PROVE  TicketsLast'
<1>1. ASSUME NEW c \in Client, NEW k \in Keys, ticket'[c][k] # 0, Stands(ticket[c][k])
      PROVE  Stands(ticket[c][k])'
  <2>1. ticket'[c][k] = ticket[c][k]
    BY <1>1
  <2>2. QED
    BY <1>1, <2>1 DEF Stands, Ids
<1>2. QED
  BY <1>1, LastsSame

\* A session whose ticket nobody has offered is not the one that is taken.
LEMMA TakeLasts ==
    ASSUME ClientTypes, ServerTypes, ServerTypes', Clients, Stores, Offered, TicketsLast,
           NEW t \in Target, NEW id \in Id, NEW ok \in BOOLEAN, Take(t, id, ok), id \in presented,
           UNCHANGED <<declared, now, issued, ticket>>
    PROVE  TicketsLast'
<1>1. /\ sessions' = [sessions EXCEPT ![t] = Without(t, id)]
      /\ saved' = saved \/ saved' = [saved EXCEPT ![t] = Without(t, id)]
  BY TakeLeaves
<1>2. ASSUME NEW c \in Client, NEW k \in Keys, ticket[c][k] # 0, Stands(ticket[c][k])
      PROVE  Stands(ticket[c][k])'
  <2>1. PICK i \in DOMAIN issued : i = ticket[c][k] /\ i # id
    BY <1>2, TicketKnown DEF Offered
  <2>2. PICK u \in Target : u = issued[i].target
    BY KnownCert
  <2>3. i \in Ids(sessions[u]) /\ i \in Ids(saved[u])
    BY <1>2, <2>1, <2>2 DEF Stands
  <2>4. i \in Ids(sessions'[u]) /\ i \in Ids(saved'[u])
    <3>1. CASE u # t
      BY <1>1, <2>3, <3>1 DEF ServerTypes
    <3>2. CASE u = t
      <4>1. i \in Ids(Without(t, id))
        BY <2>1, <2>3, <3>2 DEF Ids, Without
      <4>2. sessions'[u] = Without(t, id) /\ (saved'[u] = saved[u] \/ saved'[u] = Without(t, id))
        BY <1>1, <3>2 DEF ServerTypes
      <4>3. QED
        BY <2>3, <4>1, <4>2
    <3>3. QED
      BY <3>1, <3>2
  <2>5. QED
    BY <2>1, <2>2, <2>4 DEF Stands, Ids
<1>3. now \in Nat
  BY Constants DEF ServerTypes
<1>4. QED
  BY <1>2, <1>3, LastsSame

LEMMA FinishLasts ==
    ASSUME ClientTypes, ServerTypes, ServerTypes', Clients, Stores, Stores', TicketsLast,
           NEW c \in Client, NEW ok \in BOOLEAN, Finish(c, ok)
    PROVE  TicketsLast'
<1>1. PICK t, n : Finishing(c, ok, t, n)
  BY DEF Finishing
<1>2. /\ t \in Target /\ n \in Id /\ Grows /\ Len(issued') = n
      /\ issued'[n].target = t /\ issued'[n].at = now
      /\ DOMAIN issued' = DOMAIN issued \cup {n} /\ n \notin DOMAIN issued
  <2>1. IssuesAs(c, t, n)
    BY <1>1, FinishIssues
  <2>2. QED
    BY <2>1 DEF IssuesAs
<1>3. IsFiniteSet(Added(t)) /\ Added(t) \subseteq Stored'
  BY <1>1, FinishStores
<1>4. PICK kept : /\ Podar(Added(t), kept)
                  /\ sessions' = [sessions EXCEPT ![t] = kept]
                  /\ saved' = IF ok THEN [saved EXCEPT ![t] = kept] ELSE saved
  BY <1>1, FinishStores
<1>5. /\ now' = now /\ declared' = declared /\ n = Len(issued) + 1
  BY <1>1 DEF Finishing, Finish
<1>6. Keys' = Keys
  BY <1>5, SameKeys
<1>7. \A d \in Client : \A l \in Keys :
          ticket'[d][l] = IF ok /\ d = c /\ l = Key(t) THEN n ELSE ticket[d][l]
  BY <1>1, FinishTicket
<1>8. /\ sessions'[t] = kept /\ saved'[t] = IF ok THEN kept ELSE saved[t]
      /\ \A u \in Target : u # t => sessions'[u] = sessions[u] /\ saved'[u] = saved[u]
  BY <1>2, <1>4 DEF ServerTypes
<1>9. now \in Nat
  BY Constants DEF ServerTypes
<1>10. \A s \in Added(t) : issued'[s.id].target = t /\ issued'[s.id].at = s.at
  <2>1. ASSUME NEW s \in sessions[t]
        PROVE  issued'[s.id].target = t /\ issued'[s.id].at = s.at
    <3>1. s.id \in DOMAIN issued
      <4>1. s \in Stored
        BY <1>2 DEF ServerTypes
      <4>2. QED
        BY <4>1, IssuedIds
    <3>2. QED
      BY <1>2, <3>1 DEF Stores, Grows
  <2>2. QED
    BY <1>2, <1>5, <2>1 DEF Added
<1>11. ASSUME NEW r \in Added(t), r \notin kept
       PROVE  Over(r.id)'
  BY <1>2, <1>3, <1>4, <1>5, <1>10, <1>11, DroppedIsOver
<1>12. ASSUME NEW i \in DOMAIN issued, Stands(i)
       PROVE  Stands(i)' \/ Over(i)'
  <2>1. PICK u \in Target : u = issued[i].target
    BY KnownCert
  <2>2. u = issued'[i].target
    BY <1>2, <2>1 DEF Grows
  <2>3. i \in Ids(sessions[u]) /\ i \in Ids(saved[u])
    BY <1>12, <2>1 DEF Stands
  <2>4. CASE u # t
    BY <1>8, <2>2, <2>3, <2>4 DEF Stands, Ids
  <2>5. CASE u = t
    <3>1. PICK r \in sessions[t] : r.id = i
      BY <2>3, <2>5 DEF Ids
    <3>2. r \in Added(t)
      BY DEF Added
    <3>3. CASE r \in kept
      <4>1. i \in Ids(kept)
        BY <3>1, <3>3 DEF Ids
      <4>2. i \in Ids(sessions'[u]) /\ i \in Ids(saved'[u])
        BY <1>8, <2>3, <2>5, <4>1
      <4>3. QED
        BY <2>2, <4>2 DEF Stands, Ids
    <3>4. CASE r \notin kept
      BY <1>11, <3>1, <3>2, <3>4
    <3>5. QED
      BY <3>3, <3>4
  <2>6. QED
    BY <2>4, <2>5
<1>13. ASSUME ok
       PROVE  Stands(n)' \/ Over(n)'
  <2>1. PICK r \in Added(t) : r.id = n
    <3>1. [id |-> Len(issued) + 1, at |-> now] \in Added(t)
      BY DEF Added
    <3>2. [id |-> Len(issued) + 1, at |-> now].id = n
      BY <1>5
    <3>3. QED
      BY <3>1, <3>2, Zenon
  <2>2. CASE r \in kept
    <3>1. n \in Ids(kept)
      BY <2>1, <2>2 DEF Ids
    <3>2. n \in Ids(sessions'[t]) /\ n \in Ids(saved'[t])
      BY <1>8, <1>13, <3>1
    <3>3. QED
      BY <1>2, <3>2 DEF Stands, Ids
  <2>3. CASE r \notin kept
    BY <1>11, <2>1, <2>3
  <2>4. QED
    BY <2>2, <2>3
<1>14. ASSUME NEW d \in Client, NEW l \in Keys, ticket'[d][l] # 0
       PROVE  Stands(ticket[d][l])' \/ Over(ticket[d][l])'
  <2>1. CASE ok /\ d = c /\ l = Key(t)
    <3>1. ticket'[d][l] = n
      BY <1>7, <2>1
    <3>2. QED
      BY <1>13, <2>1, <3>1
  <2>2. CASE ~(ok /\ d = c /\ l = Key(t))
    <3>1. ticket'[d][l] = ticket[d][l] /\ ticket[d][l] # 0
      BY <1>7, <1>14, <2>2
    <3>2. PICK i \in DOMAIN issued : i = ticket[d][l]
      BY <3>1, TicketKnown
    <3>3. Stands(i) \/ Over(i)
      BY <3>1, <3>2, LastsMeans
    <3>4. Stands(i)' \/ Over(i)'
      BY <1>2, <1>5, <1>9, <1>12, <3>3, OverStays
    <3>5. QED
      BY <3>1, <3>2, <3>4
  <2>3. QED
    BY <2>1, <2>2
<1>15. QED
  BY <1>6, <1>14, LastsMeansNext

LEMMA LastsStep ==
    ASSUME ClientTypes, ServerTypes, ServerTypes', Clients, Stores, Stores', Offered, TicketsLast,
           [Next]_vars
    PROVE  TicketsLast'
<1> USE DEF server
<1>0. now \in Nat
  BY Constants DEF ServerTypes
<1>1. ASSUME NEW c \in Client, NEW t \in Target, Connect(c, t)
      PROVE  TicketsLast'
  <2>1. /\ UNCHANGED <<declared, now, issued, sessions, saved>>
        /\ ticket' = [ticket EXCEPT ![c][Key(t)] = 0]
    BY <1>1 DEF Connect
  <2>2. \A d \in Client : \A k \in Keys : ticket'[d][k] \in {0, ticket[d][k]}
    BY <2>1 DEF ClientTypes
  <2>3. QED
    BY <1>0, <2>1, <2>2, LastsQuiet
<1>2. ASSUME NEW c \in Client, Local(c)
      PROVE  TicketsLast'
  <2>1. UNCHANGED <<declared, now, ticket, server>>
    BY <1>2, LocalLeaves
  <2>2. QED
    BY <1>0, <2>1, LastsQuiet
<1>3. ASSUME NEW c \in Client, ClientRestart(c)
      PROVE  TicketsLast'
  <2>1. /\ UNCHANGED <<declared, now, server>>
        /\ ticket' = [ticket EXCEPT ![c] = [k \in Keys |-> 0]]
    BY <1>3 DEF ClientRestart
  <2>2. \A d \in Client : \A k \in Keys : ticket'[d][k] \in {0, ticket[d][k]}
    BY <2>1 DEF ClientTypes
  <2>3. QED
    BY <1>0, <2>1, <2>2, LastsQuiet
<1>4. ASSUME NEW c \in Client, NEW ok \in BOOLEAN, Resume(c, ok)
      PROVE  TicketsLast'
  <2>1. /\ job[c].target \in Target /\ job[c].offered \in DOMAIN issued /\ pc[c] = "hello"
    BY <1>4, ResumedCert
  <2>2. job[c].offered \in Id /\ job[c].offered \in presented
    BY <2>1, IssuedIds DEF Offered
  <2>3. Take(job[c].target, job[c].offered, ok) /\ UNCHANGED <<declared, now, issued, ticket>>
    BY <1>4 DEF Resume
  <2>4. QED
    BY <2>1, <2>2, <2>3, TakeLasts
<1>5. ASSUME NEW c \in Client, NEW ok \in BOOLEAN, Finish(c, ok)
      PROVE  TicketsLast'
  BY <1>5, FinishLasts
<1>6. ASSUME NEW t \in Target, NEW id \in Id, NEW ok \in BOOLEAN, Replay(t, id, ok)
      PROVE  TicketsLast'
  <2>1. Take(t, id, ok) /\ id \in presented /\ UNCHANGED <<declared, now, issued, ticket>>
    BY <1>6 DEF Replay
  <2>2. QED
    BY <2>1, TakeLasts
<1>7. ASSUME NEW t \in Target, ServerRestart(t)
      PROVE  TicketsLast'
  <2>1. /\ UNCHANGED <<declared, now, issued, saved, ticket>>
        /\ sessions' = [sessions EXCEPT ![t] = saved[t]]
    BY <1>7 DEF ServerRestart
  <2>2. ASSUME NEW c \in Client, NEW k \in Keys, ticket'[c][k] # 0, Stands(ticket[c][k])
        PROVE  Stands(ticket[c][k])'
    <3>1. PICK i \in DOMAIN issued : i = ticket[c][k]
      BY <2>1, <2>2, TicketKnown
    <3>2. PICK u \in Target : u = issued[i].target
      BY KnownCert
    <3>3. i \in Ids(sessions[u]) /\ i \in Ids(saved[u])
      BY <2>2, <3>1, <3>2 DEF Stands
    <3>4. sessions'[u] = sessions[u] \/ sessions'[u] = saved[u]
      BY <2>1 DEF ServerTypes
    <3>5. i \in Ids(sessions'[u]) /\ i \in Ids(saved'[u])
      BY <2>1, <3>3, <3>4
    <3>6. QED
      BY <2>1, <3>1, <3>2, <3>5 DEF Stands, Ids
  <2>3. QED
    BY <1>0, <2>1, <2>2, LastsSame
<1>8. CASE Advance
  <2>1. UNCHANGED <<declared, ticket, server>> /\ now' = now + 1
    BY <1>8 DEF Advance
  <2>2. QED
    BY <1>0, <2>1, LastsQuiet
<1>9. CASE UNCHANGED vars
  <2>1. UNCHANGED <<declared, now, ticket, server>>
    BY <1>9 DEF vars, client
  <2>2. QED
    BY <1>0, <2>1, LastsQuiet
<1>10. QED
  BY <1>1, <1>2, <1>3, <1>4, <1>5, <1>6, <1>7, <1>8, <1>9, NextSplits

(***************************************************************************)
(* The theorems.                                                           *)
(***************************************************************************)

LEMMA InitInvariant == Init => IInv
<1> SUFFICES ASSUME Init
             PROVE  IInv
  OBVIOUS
<1>1. ClientTypes /\ ServerTypes
  BY InitTypes
<1>2. /\ pc = [c \in Client |-> "idle"] /\ link = [c \in Client |-> NoLink]
      /\ verifier = [c \in Client |-> [k \in Keys |-> "none"]]
      /\ ticket = [c \in Client |-> [k \in Keys |-> 0]]
      /\ sessions = [t \in Target |-> {}] /\ saved = sessions
      /\ presented = {} /\ taken = [i \in Id |-> 0]
  BY DEF Init
<1>3. Clients
  BY <1>2 DEF Clients, Handshake, Config
<1>4. Stores
  BY <1>2, FS_EmptySet DEF Stores
<1>5. Offered
  BY <1>2 DEF Offered
<1>6. EveryLinkVerified /\ TicketsLast
  BY <1>2 DEF EveryLinkVerified, TicketsLast
<1>7. QED
  BY <1>1, <1>3, <1>4, <1>5, <1>6 DEF IInv

LEMMA StepInvariant == IInv /\ [Next]_vars => IInv'
<1> SUFFICES ASSUME IInv, [Next]_vars
             PROVE  IInv'
  OBVIOUS
<1>1. ClientTypes /\ ServerTypes /\ Clients /\ Stores /\ Offered /\ EveryLinkVerified /\ TicketsLast
  BY DEF IInv
<1>2. ClientTypes'
  BY <1>1, ClientTypesStep
<1>3. ServerTypes' /\ Stores'
  BY <1>1, StoresStep
<1>4. Clients' /\ EveryLinkVerified'
  BY <1>1, ClientsStep
<1>5. Offered'
  BY <1>1, OfferedStep
<1>6. TicketsLast'
  BY <1>1, <1>3, LastsStep
<1>7. QED
  BY <1>2, <1>3, <1>4, <1>5, <1>6 DEF IInv

LEMMA InvariantHolds == Spec => []IInv
BY InitInvariant, StepInvariant, PTL DEF Spec

\* Whatever happens, everything keeps its type, and no session store exceeds
\* its capacity, in memory or on disk (tls.rs, sessoes.rs CacheSessoesDisco).
THEOREM TypeCorrect == Spec => []TypeOK
<1>1. IInv => TypeOK
  BY TypesMeet DEF IInv
<1>2. QED
  BY <1>1, InvariantHolds, PTL

\* Behind every connection, resumed or not, is a certificate this process has
\* verified against the policy of the endpoint it connects to, although
\* endpoints share configs and tickets (bus.rs client_config_cached, tls.rs
\* VerificadorPin and VerificadorTofu).
THEOREM LinksAreVerified == Spec => []EveryLinkVerified
<1>1. IInv => EveryLinkVerified
  BY DEF IInv
<1>2. QED
  BY <1>1, InvariantHolds, PTL

\* A session is resumed at most once, and until then the peer, restarted or
\* not, has it for the ticket that is still held, unless it is too old or
\* Teto others are not older (sessoes.rs take and podar).
THEOREM TicketsAreHonoured == Spec => []TicketsHonoured
<1>1. IInv => TicketsHonoured
  BY DEF IInv, Stores, TicketsHonoured, SingleUse
<1>2. QED
  BY <1>1, InvariantHolds, PTL

(***************************************************************************)
(* What one process alone has learned is kept.                             *)
(***************************************************************************)

OneProcess == \A c, d \in Client : c = d

\* The store in memory holds all that was learned; what is being learned is in
\* it and is the first of its peer; the temporary file becomes that store.
Records(c) ==
    /\ store[c] # Closed => \A t \in Target : learned[t] \subseteq store[c][t]
    /\ pc[c] \in {"open", "write", "rename"} /\ job[c].why = "learn" =>
          job[c].cert \in store[c][job[c].target] /\ learned[job[c].target] = {}
    /\ pc[c] = "write" => fd[c] = "tmp"
    /\ pc[c] = "rename" => tmp = store[c]

Kept ==
    /\ file # Torn /\ \A t \in Target : learned[t] \subseteq file[t]
    /\ \A t \in Target : \A f, g \in learned[t] : f = g
    /\ \A c \in Client : Records(c)

LEMMA KeptMeans ==
    ASSUME Kept
    PROVE  LearnedIsKept
<1>1. ASSUME NEW t \in Target
      PROVE  Cardinality(learned[t]) <= 1
  <2>1. CASE learned[t] = {}
    <3>1. Cardinality({}) = 0
      BY FS_EmptySet
    <3>2. QED
      BY <2>1, <3>1
  <2>2. CASE learned[t] # {}
    <3>1. PICK f : f \in learned[t]
      BY <2>2
    <3>2. learned[t] = {f}
      BY <3>1 DEF Kept
    <3>3. Cardinality({f}) = 1
      BY FS_Singleton
    <3>4. QED
      BY <3>2, <3>3
  <2>3. QED
    BY <2>1, <2>2
<1>2. QED
  BY <1>1 DEF Kept, LearnedIsKept, OneIdentity

LEMMA InitKept ==
    ASSUME Init
    PROVE  Kept
BY Constants DEF Init, Kept, Records

\* The steps that leave the files and the stores alone.
LEMMA KeptSame ==
    ASSUME Kept, UNCHANGED <<disk, store, learned>>,
           \A c \in Client : pc'[c] \in {"open", "write", "rename"} => pc'[c] = pc[c] /\ job'[c] = job[c]
    PROVE  Kept'
<1>1. UNCHANGED <<file, tmp, fd, store, learned>>
  BY DEF disk
<1>2. \A c \in Client : Records(c)'
  BY <1>1 DEF Kept, Records
<1>3. QED
  BY <1>1, <1>2 DEF Kept

LEMMA RenameKeeps ==
    ASSUME ClientTypes, Clients, Kept, OneProcess, NEW c \in Client, Rename(c)
    PROVE  Kept'
<1>1. /\ pc[c] = "rename" /\ file' = tmp /\ store' = store /\ tmp = store[c] /\ store[c] \in Entries
  <2>1. pc[c] = "rename" /\ file' = tmp /\ store' = store
    BY DEF Rename
  <2>2. tmp = store[c] /\ store[c] # Closed
    BY <2>1 DEF Clients, Handshake, Kept, Records
  <2>3. QED
    BY <2>1, <2>2 DEF ClientTypes
<1>2. file' # Torn /\ \A t \in Target : learned[t] \subseteq file'[t]
  BY <1>1, Constants DEF Kept, Records
<1>3. pc'[c] \in {"finish", "idle"}
  BY DEF Rename, Goto, Idle, ClientTypes
<1>4. CASE job[c].why = "learn"
  <2>1. PICK t \in Target, f \in Cert : t = job[c].target /\ f = job[c].cert
    BY <1>1, <1>4 DEF Clients, Handshake
  <2>2. f \in file'[t] /\ learned[t] = {}
    BY <1>1, <1>4, <2>1 DEF Kept, Records
  <2>3. learned' = [learned EXCEPT ![t] = learned[t] \cup {f}]
    BY <1>4, <2>1 DEF Rename, ClientTypes, Entries
  <2>4. \A u \in Target : learned'[u] = IF u = t THEN {f} ELSE learned[u]
    BY <2>2, <2>3 DEF ClientTypes, Entries
  <2>5. /\ \A u \in Target : learned'[u] \subseteq file'[u]
        /\ \A u \in Target : \A g, h \in learned'[u] : g = h
    BY <1>2, <2>2, <2>4 DEF Kept
  <2>6. Records(c)'
    BY <1>1, <1>3, <2>5 DEF Records
  <2>7. QED
    BY <1>2, <2>5, <2>6 DEF Kept, OneProcess
<1>5. CASE job[c].why # "learn"
  <2>1. learned' = learned
    BY <1>5 DEF Rename
  <2>2. Records(c)'
    BY <1>1, <1>2, <1>3, <2>1 DEF Records
  <2>3. QED
    BY <1>2, <2>1, <2>2 DEF Kept, OneProcess
<1>6. QED
  BY <1>4, <1>5

LEMMA LocalKeeps ==
    ASSUME ClientTypes, ServerTypes, Clients, Kept, OneProcess, NEW c \in Client, Local(c)
    PROVE  Kept'
<1>1. CASE Full(c)
  <2>1. PICK t, f : t = job[c].target /\ f = cert[t]
    OBVIOUS
  <2>2. /\ t \in Target /\ f \in Cert
        /\ \/ store' = store /\ pc' = [pc EXCEPT ![c] = "finish"]
           \/ /\ store[c] \in Entries /\ store[c][t] = {}
              /\ store' = [store EXCEPT ![c][t] = {f}]
              /\ store'[c] \in Entries
              /\ pc' = [pc EXCEPT ![c] = "open"]
    <3>1. LearnsAs(c, t, f)
      BY <1>1, <2>1, FullEffect
    <3>2. QED
      BY <3>1 DEF LearnsAs
  <2>3. job'[c].target = t /\ job'[c].cert = f /\ job'[c].why = "learn"
    BY <1>1, <2>1, <2>2, FullJob DEF ClientTypes
  <2>4. UNCHANGED <<file, tmp, fd, learned>>
    BY <1>1 DEF Full, disk
  <2>5. CASE store' = store /\ pc' = [pc EXCEPT ![c] = "finish"]
    BY <2>4, <2>5 DEF Kept, Records, OneProcess, ClientTypes
  <2>6. CASE /\ store[c] \in Entries /\ store[c][t] = {}
             /\ store' = [store EXCEPT ![c][t] = {f}]
             /\ pc' = [pc EXCEPT ![c] = "open"]
    <3>1. store[c] # Closed /\ StorePut(c, t, {f}) /\ {f} \in SUBSET Cert
      BY <2>2, <2>6, Constants DEF StorePut
    <3>2. \A u \in Target : store'[c][u] = IF u = t THEN {f} ELSE store[c][u]
      BY <2>2, <3>1, StoreChange
    <3>3. learned[t] = {} /\ \A u \in Target : learned[u] \subseteq store[c][u]
      BY <2>2, <2>6, <3>1 DEF Kept, Records
    <3>4. pc'[c] = "open"
      BY <2>6 DEF ClientTypes
    <3>5. \A u \in Target : learned[u] \subseteq store'[c][u]
      BY <3>2, <3>3
    <3>6. Records(c)'
      BY <2>2, <2>3, <2>4, <3>2, <3>3, <3>4, <3>5 DEF Records
    <3>7. QED
      BY <2>4, <3>6 DEF Kept, OneProcess
  <2>7. QED
    BY <2>2, <2>5, <2>6
<1>2. CASE FullRefused(c) \/ Broken(c)
  <2>1. UNCHANGED <<disk, store, learned>> /\ pc' = [pc EXCEPT ![c] = "idle"]
    BY <1>2 DEF FullRefused, Broken, Refuse, Idle, Goto, trust
  <2>2. pc'[c] = "idle"
    BY <2>1 DEF ClientTypes
  <2>3. QED
    BY <2>1, <2>2, KeptSame DEF OneProcess
<1>3. CASE OpenTmp(c)
  <2>1. /\ UNCHANGED <<file, store, learned, job>> /\ pc[c] = "open"
        /\ pc'[c] = "write" /\ fd'[c] = "tmp"
    BY <1>3 DEF OpenTmp, Goto, trust, ClientTypes
  <2>2. Records(c)'
    BY <2>1 DEF Kept, Records
  <2>3. QED
    BY <2>1, <2>2 DEF Kept, OneProcess
<1>4. CASE WriteTmp(c)
  <2>1. /\ UNCHANGED <<store, learned, job>> /\ pc[c] = "write" /\ pc'[c] = "rename"
    BY <1>4 DEF WriteTmp, Goto, trust, ClientTypes
  <2>2. Others(c, fd[c]) = {} /\ fd[c] = "tmp"
    BY <2>1 DEF Others, OneProcess, Kept, Records
  <2>3. tmp' = store[c] /\ file' = file
    BY <1>4, <2>2 DEF WriteTmp, Serializar
  <2>4. Records(c)'
    BY <2>1, <2>3 DEF Kept, Records
  <2>5. QED
    BY <2>1, <2>3, <2>4 DEF Kept, OneProcess
<1>5. CASE Rename(c)
  BY <1>5, RenameKeeps
<1>6. CASE PersistFails(c)
  <2>1. UNCHANGED <<file, store, learned>> /\ pc'[c] = "idle"
    BY <1>6 DEF PersistFails, Refuse, Idle, Goto, trust, ClientTypes
  <2>2. Records(c)'
    BY <2>1 DEF Kept, Records
  <2>3. QED
    BY <2>1, <2>2 DEF Kept, OneProcess
<1>7. ASSUME NEW t \in Target, NEW pins \in SUBSET Cert, Rotate(c, t, pins)
      PROVE  Kept'
  <2>1. /\ store[c] \in Entries /\ store'[c] \in Entries /\ pc' = [pc EXCEPT ![c] = "open"]
        /\ \A u \in Target : store'[c][u] = IF u = t THEN pins ELSE store[c][u]
        /\ \A u \in Target : learned'[u] = IF u = t THEN learned[u] \cap pins ELSE learned[u]
    BY <1>7, RotateTypes
  <2>2. job'[c].why = "rotate" /\ pc'[c] = "open" /\ file' = file
    <3>1. job' = [job EXCEPT ![c] = [target |-> t, cert |-> "none", offered |-> 0, why |-> "rotate"]]
      BY <1>7, RotateJob
    <3>2. job'[c].why = "rotate" /\ pc'[c] = "open"
      BY <2>1, <3>1 DEF ClientTypes
    <3>3. file' = file
      BY <1>7 DEF Rotate, disk
    <3>4. QED
      BY <3>2, <3>3
  <2>3. \A u \in Target : learned[u] \subseteq store[c][u]
    BY <2>1, Constants DEF Kept, Records
  <2>4. Records(c)'
    BY <2>1, <2>2, <2>3 DEF Records
  <2>5. QED
    BY <2>1, <2>2, <2>4 DEF Kept, OneProcess
<1>8. QED
  BY <1>1, <1>2, <1>3, <1>4, <1>5, <1>6, <1>7 DEF Local

LEMMA KeptStep ==
    ASSUME IInv, Kept, OneProcess, [Next]_vars
    PROVE  Kept'
<1> USE DEF IInv
<1>1. ASSUME NEW c \in Client, NEW t \in Target, Connect(c, t)
      PROVE  Kept'
  <2>1. UNCHANGED <<file, tmp, fd, learned>> /\ pc'[c] = "hello"
    BY <1>1 DEF Connect, disk, Goto, ClientTypes
  <2>2. store'[c] = store[c] \/ store'[c] = file
    BY <1>1 DEF Connect, ClientTypes
  <2>3. Records(c)'
    BY <2>1, <2>2 DEF Kept, Records
  <2>4. QED
    BY <2>1, <2>3 DEF Kept, OneProcess
<1>2. ASSUME NEW c \in Client, Local(c)
      PROVE  Kept'
  BY <1>2, LocalKeeps
<1>3. ASSUME NEW c \in Client, ClientRestart(c)
      PROVE  Kept'
  <2>1. UNCHANGED <<file, learned>> /\ pc'[c] = "idle" /\ store'[c] = Closed
    BY <1>3 DEF ClientRestart, Refuse, Idle, Goto, ClientTypes
  <2>2. Records(c)'
    BY <2>1 DEF Records
  <2>3. QED
    BY <2>1, <2>2 DEF Kept, OneProcess
<1>4. ASSUME NEW c \in Client, NEW ok \in BOOLEAN, Resume(c, ok)
      PROVE  Kept'
  <2>1. UNCHANGED <<disk, store, learned>>
    BY <1>4 DEF Resume, trust
  <2>2. pc'[c] \in {"hello", "finish"}
    BY <1>4 DEF Resume, Goto, ClientTypes
  <2>3. QED
    BY <2>1, <2>2, KeptSame DEF OneProcess
<1>5. ASSUME NEW c \in Client, NEW ok \in BOOLEAN, Finish(c, ok)
      PROVE  Kept'
  <2>1. UNCHANGED <<disk, store, learned>> /\ pc'[c] = "idle"
    BY <1>5 DEF Finish, Idle, Goto, trust, ClientTypes
  <2>2. QED
    BY <2>1, KeptSame DEF OneProcess
<1>6. ASSUME NEW t \in Target, NEW id \in Id, NEW ok \in BOOLEAN, Replay(t, id, ok)
      PROVE  Kept'
  <2>1. UNCHANGED <<disk, store, learned, pc, job>>
    BY <1>6 DEF Replay, trust
  <2>2. QED
    BY <2>1, KeptSame
<1>7. ASSUME NEW t \in Target, ServerRestart(t)
      PROVE  Kept'
  <2>1. UNCHANGED <<disk, store, learned>>
    BY <1>7 DEF ServerRestart, trust
  <2>2. QED
    BY <1>7, <2>1, ServerRestartJobs, KeptSame
<1>8. CASE Advance
  <2>1. UNCHANGED <<disk, store, learned, pc, job>>
    BY <1>8 DEF Advance, trust
  <2>2. QED
    BY <2>1, KeptSame
<1>9. CASE UNCHANGED vars
  <2>1. UNCHANGED <<disk, store, learned, pc, job>>
    BY <1>9 DEF vars, trust, client
  <2>2. QED
    BY <2>1, KeptSame
<1>10. QED
  BY <1>1, <1>2, <1>3, <1>4, <1>5, <1>6, <1>7, <1>8, <1>9, NextSplits

\* When one process uses the store, a peer known by its first use keeps that
\* one identity, the use stays recorded until a rotation removes it, and the
\* file can always be read, whatever fails or is killed (tls.rs TofuStore).
\* Two processes write the same temporary file, and one may rename what the
\* other is writing: the hypothesis is needed.
THEOREM LearnedStays ==
    ASSUME \A c, d \in Client : c = d
    PROVE  Spec => []LearnedIsKept
<1>1. Init => IInv /\ Kept
  BY InitInvariant, InitKept
<1>2. IInv /\ Kept /\ [Next]_vars => (IInv /\ Kept)'
  BY StepInvariant, KeptStep DEF OneProcess
<1>3. IInv /\ Kept => LearnedIsKept
  BY KeptMeans
<1>4. QED
  BY <1>1, <1>2, <1>3, PTL DEF Spec
=============================================================================
