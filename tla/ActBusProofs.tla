---------------------------- MODULE ActBusProofs ----------------------------
(***************************************************************************)
(* Proofs about ActBus, for every set of routes, program, capacity of the  *)
(* queue and number of commands: the types, the books of the queue, the    *)
(* honesty of outcomes and the limits.                                     *)
(***************************************************************************)
EXTENDS ActBus, FiniteSetTheorems, TLAPS

(***************************************************************************)
(* The inductive invariant.                                                *)
(***************************************************************************)

\* Nothing happened yet to a command that was not issued.
UnissuedUntouched ==
    \A c \in Id : c > Len(cmds) =>
        outcome[c] = "none" /\ carried[c] = 0 /\ unanswered[c] = 0

\* The command under way has no outcome before its alternates are through.
CurrentUnsettled == pc \in {"primary", "alternates"} => outcome[Current] = "none"

\* Only a pump has a batch.
BatchInPump == pending # {} => pc = "pump"

\* A command that still counts was retried once for each tick it waited.
WaitsAreTries ==
    \A c \in Id :
        /\ outcome[c] \in {"none", "queued"} => tries[c] = waiting[c]
        /\ outcome[c] = "none" => tries[c] = 0

IInv ==
    /\ TypeOK /\ QueueKeepsBooks /\ AcksAreHonest
    /\ UnissuedUntouched /\ CurrentUnsettled /\ BatchInPump /\ WaitsAreTries

(***************************************************************************)
(* One delivery.                                                           *)
(***************************************************************************)

LEMMA BumpIsOneMore ==
    ASSUME NEW f \in [Id -> Nat], NEW c \in Id
    PROVE  /\ Bump(f, c) \in [Id -> Nat]
           /\ Bump(f, c)[c] = f[c] + 1
           /\ \A d \in Id : d # c => Bump(f, c)[d] = f[d]
BY DEF Bump

LEMMA BeyondType ==
    ASSUME NEW via \in {"real", "remote", "simulator"}, NEW a \in Actor, NEW c \in Id
    PROVE  Beyond(via, a, c) \subseteq Breach
BY DEF Beyond, Breach

\* What a delivery of c does to the world: nothing to other commands; a
\* success is one execution more, and without a success there is at most one
\* more for one more request given up.
Delivered(c, result) ==
    /\ carried' \in [Id -> Nat] /\ unanswered' \in [Id -> Nat]
    /\ breach' \in SUBSET Breach
    /\ \A d \in Id : d # c => carried'[d] = carried[d] /\ unanswered'[d] = unanswered[d]
    /\ result = "ok" => carried'[c] = carried[c] + 1 /\ unanswered'[c] = unanswered[c]
    /\ result # "ok" =>
          \/ carried'[c] = carried[c] /\ unanswered'[c] = unanswered[c]
          \/ carried'[c] \in {carried[c], carried[c] + 1} /\ unanswered'[c] = unanswered[c] + 1

LEMMA DeliveryEffect ==
    ASSUME TypeOK, NEW a \in Actor, NEW c \in Id, NEW result \in Result,
           DeliverRoute(a, c, result)
    PROVE  Delivered(c, result)
<1>1. /\ carried \in [Id -> Nat] /\ unanswered \in [Id -> Nat]
      /\ breach \in SUBSET Breach
  BY DEF TypeOK
<1>2. /\ Bump(carried, c) \in [Id -> Nat] /\ Bump(carried, c)[c] = carried[c] + 1
      /\ \A d \in Id : d # c => Bump(carried, c)[d] = carried[d]
  BY <1>1, BumpIsOneMore
<1>3. /\ Bump(unanswered, c) \in [Id -> Nat] /\ Bump(unanswered, c)[c] = unanswered[c] + 1
      /\ \A d \in Id : d # c => Bump(unanswered, c)[d] = unanswered[d]
  BY <1>1, BumpIsOneMore
<1>4. \A via \in {"real", "remote", "simulator"}, b \in Actor :
         breach \cup Beyond(via, b, c) \in SUBSET Breach
  BY <1>1, BeyondType
<1>5. CASE RealDelivery(a, c, result)
  BY <1>1, <1>2, <1>4, <1>5 DEF RealDelivery, Delivered
<1>6. CASE RemoteDelivery(a, c, result)
  <2>1. breach' \in SUBSET Breach
    BY <1>4, <1>6 DEF RemoteDelivery
  <2>2. CASE /\ carried' = IF result = "ok" THEN Bump(carried, c) ELSE carried
             /\ UNCHANGED unanswered
    BY <1>1, <1>2, <2>1, <2>2 DEF Delivered
  <2>3. CASE /\ result = "none" /\ unanswered' = Bump(unanswered, c)
             /\ carried' \in {carried, Bump(carried, c)}
    BY <1>1, <1>2, <1>3, <2>1, <2>3 DEF Delivered
  <2>4. QED
    BY <1>6, <2>2, <2>3 DEF RemoteDelivery
<1>7. CASE SimulatorDelivery(a, c, result)
  <2>1. \A k \in DOMAIN SimFallback[a] : SimFallback[a][k] \in Actor
    BY BusAssumption
  <2>2. \/ \E b \in Actor : /\ result = "ok" /\ breach' = breach \cup Beyond("simulator", b, c)
                           /\ carried' = Bump(carried, c)
        \/ result = "refused" /\ UNCHANGED <<breach, carried>>
    BY <1>7, <2>1 DEF SimulatorDelivery
  <2>3. UNCHANGED unanswered
    BY <1>7 DEF SimulatorDelivery
  <2>4. QED
    BY <1>1, <1>2, <1>4, <2>2, <2>3 DEF Delivered
<1>8. CASE NoDelivery(a, c, result)
  BY <1>1, <1>8 DEF NoDelivery, Delivered, world
<1>9. QED
  BY <1>5, <1>6, <1>7, <1>8 DEF DeliverRoute

(***************************************************************************)
(* Commands, the queue and outcomes.                                       *)
(***************************************************************************)

LEMMA CurrentIsCommand ==
    ASSUME TypeOK, pc \in {"primary", "alternates"}
    PROVE  /\ Current \in Id /\ ~(Current > Len(cmds)) /\ cmds[Current].actor \in Actor
           /\ \A k \in DOMAIN Alternates : Alternates[k] \in Actor
<1>1. /\ cmds \in Seq(Program) /\ Len(cmds) <= Commands /\ cmds # <<>>
  BY DEF TypeOK
<1>2. Current \in Id /\ ~(Current > Len(cmds))
  BY <1>1, BusAssumption DEF Current, Id
<1>3. cmds[Current] \in Program
  BY <1>1, <1>2 DEF Id, Current
<1>4. cmds[Current].actor \in Actor
  BY <1>3, BusAssumption DEF Command
<1>5. Alternates \in Seq(Actor)
  BY <1>4, BusAssumption DEF Alternates
<1>6. QED
  BY <1>2, <1>4, <1>5

\* A queued command was issued.
LEMMA QueuedIsCommand ==
    ASSUME TypeOK, UnissuedUntouched, NEW c \in Id, outcome[c] = "queued"
    PROVE  cmds[c].actor \in Actor
<1>1. c \in 1 .. Len(cmds)
  BY DEF TypeOK, UnissuedUntouched, Id
<1>2. cmds[c] \in Program
  BY <1>1 DEF TypeOK
<1>3. QED
  BY <1>2, BusAssumption DEF Command

LEMMA BooksAreFinite ==
    ASSUME TypeOK
    PROVE  /\ \A S \in SUBSET Id : IsFiniteSet(S) /\ Cardinality(S) \in Nat
           /\ \A S \in SUBSET Id, c \in Id : /\ IsFiniteSet(S \ {c})
                                            /\ c \in S => Cardinality(S) = Cardinality(S \ {c}) + 1
           /\ \A S, T \in SUBSET Id : T \subseteq S => Cardinality(T) <= Cardinality(S)
<1>1. IsFiniteSet(Id)
  BY FS_Interval, BusAssumption DEF Id
<1>2. \A S \in SUBSET Id : IsFiniteSet(S) /\ Cardinality(S) \in Nat
  BY <1>1, FS_Subset, FS_CardinalityType
<1>3. \A S \in SUBSET Id, c \in Id : /\ IsFiniteSet(S \ {c})
                                    /\ c \in S => Cardinality(S) = Cardinality(S \ {c}) + 1
  BY <1>2, FS_RemoveElement
<1>4. \A S, T \in SUBSET Id : T \subseteq S => Cardinality(T) <= Cardinality(S)
  BY <1>2, FS_Subset
<1>5. QED
  BY <1>2, <1>3, <1>4

\* What settling a command does to the outcomes.
LEMMA SettleEffect ==
    ASSUME TypeOK, NEW c \in Id, NEW o \in Outcome, Settle(c, o)
    PROVE  /\ outcome' \in [Id -> Outcome] /\ outcome'[c] = o
           /\ \A d \in Id : d # c => outcome'[d] = outcome[d]
BY DEF TypeOK, Settle

\* Only issued commands are delivered and settled.
LEMMA UnissuedStays ==
    ASSUME UnissuedUntouched, UNCHANGED cmds, NEW c \in Id, ~(c > Len(cmds)),
           \A d \in Id : d # c => /\ outcome'[d] = outcome[d] /\ carried'[d] = carried[d]
                                 /\ unanswered'[d] = unanswered[d]
    PROVE  UnissuedUntouched'
BY DEF UnissuedUntouched

\* The honesty of outcomes survives a delivery that settles its command with a
\* success just when a device answered so.
LEMMA DeliveryIsHonest ==
    ASSUME TypeOK, AcksAreHonest, NEW c \in Id, ~Succeeded(c),
           NEW result \in Result, Delivered(c, result),
           \/ result # "ok" /\ UNCHANGED outcome
           \/ /\ result # "ok"
              /\ \E o \in Outcome \ {"delivered", "fallback", "redelivered"} : Settle(c, o)
           \/ /\ result = "ok"
              /\ \E o \in {"delivered", "fallback", "redelivered"} : Settle(c, o)
    PROVE  AcksAreHonest'
<1>1. /\ carried \in [Id -> Nat] /\ unanswered \in [Id -> Nat] /\ outcome \in [Id -> Outcome]
  BY DEF TypeOK
<1>2. carried' \in [Id -> Nat] /\ unanswered' \in [Id -> Nat]
  BY DEF Delivered
<1>3. \A d \in Id \ {c} : outcome'[d] = outcome[d]
  BY <1>1 DEF Settle
<1>4. \A d \in Id \ {c} : carried'[d] = carried[d] /\ unanswered'[d] = unanswered[d]
  BY DEF Delivered
<1>5. carried[c] <= unanswered[c]
  BY <1>1 DEF AcksAreHonest
<1>6. Succeeded(c)' <=> result = "ok"
  BY <1>1 DEF Succeeded, Settle
<1>7. /\ Succeeded(c)' => carried'[c] >= 1
      /\ carried'[c] <= unanswered'[c] + (IF Succeeded(c)' THEN 1 ELSE 0)
  <2>1. CASE result = "ok"
    BY <1>1, <1>2, <1>5, <1>6, <2>1 DEF Delivered
  <2>2. CASE result # "ok"
    BY <1>1, <1>2, <1>5, <1>6, <2>2 DEF Delivered
  <2>3. QED
    BY <2>1, <2>2
<1>8. ASSUME NEW d \in Id \ {c}
      PROVE  /\ Succeeded(d)' => carried'[d] >= 1
             /\ carried'[d] <= unanswered'[d] + (IF Succeeded(d)' THEN 1 ELSE 0)
  BY <1>3, <1>4 DEF AcksAreHonest, Succeeded
<1>9. QED
  BY <1>7, <1>8 DEF AcksAreHonest

\* The books do not see a command that is settled without having been queued.
LEMMA UnqueuedSettles ==
    ASSUME TypeOK, QueueKeepsBooks, WaitsAreTries, UNCHANGED books, NEW c \in Id,
           outcome[c] # "queued",
           \/ UNCHANGED outcome
           \/ \E o \in Outcome \ {"none", "queued", "expired"} : Settle(c, o)
    PROVE  QueueKeepsBooks' /\ WaitsAreTries'
<1>1. outcome \in [Id -> Outcome] /\ UNCHANGED <<queue, pending, waiting, tries>>
  BY DEF TypeOK, books
<1>2. Queued' = Queued
  BY <1>1 DEF Queued, Settle
<1>3. \A d \in Id : outcome'[d] \in {"none", "queued", "expired"} => outcome'[d] = outcome[d]
  BY <1>1 DEF Settle
<1>4. QED
  BY <1>1, <1>2, <1>3 DEF QueueKeepsBooks, BooksInOrder, FullRetries, WaitsAreTries

(***************************************************************************)
(* Every step preserves the invariant.                                     *)
(***************************************************************************)

LEMMA InitIInv == Init => IInv
<1> SUFFICES ASSUME Init PROVE IInv
  OBVIOUS
<1>1. TypeOK
  BY BusAssumption DEF Init, TypeOK, Outcome
<1>2. QueueKeepsBooks
  <2>1. queue \cup pending = {} /\ Queued = {}
    BY DEF Init, Queued
  <2>2. QED
    BY <2>1, FS_EmptySet, BusAssumption DEF Init, QueueKeepsBooks, BooksInOrder, FullRetries
<1>3. AcksAreHonest
  BY DEF Init, AcksAreHonest, Succeeded
<1>4. UnissuedUntouched /\ CurrentUnsettled /\ BatchInPump /\ WaitsAreTries
  BY DEF Init, UnissuedUntouched, CurrentUnsettled, BatchInPump, WaitsAreTries
<1>5. QED
  BY <1>1, <1>2, <1>3, <1>4 DEF IInv

LEMMA IssueKeeps ==
    ASSUME IInv, NEW cmd \in Program, Issue(cmd)
    PROVE  IInv'
<1> DEFINE c == Len(cmds) + 1
<1>1. TypeOK /\ QueueKeepsBooks /\ AcksAreHonest /\ UnissuedUntouched /\ BatchInPump /\ WaitsAreTries
  BY DEF IInv
<1>2. /\ cmds \in Seq(Program) /\ Len(cmds) < Commands /\ pc = "run"
      /\ cmds' = Append(cmds, cmd)
      /\ cmds' \in Seq(Program) /\ Len(cmds') = c /\ c <= Commands
  BY <1>1, BusAssumption DEF Issue, TypeOK
<1>3. c \in Id /\ c > Len(cmds) /\ outcome[c] = "none"
  BY <1>1, <1>2, BusAssumption DEF Id, UnissuedUntouched
<1>4. UNCHANGED <<alt, books, world>>
  BY DEF Issue
<1>5. \/ \E o \in {"missing", "rejected"} : Settle(c, o) /\ UNCHANGED pc
      \/ pc' = "primary" /\ UNCHANGED outcome
  BY DEF Issue, Settle
<1>5a. /\ outcome' \in [Id -> Outcome]
       /\ \A d \in Id : d # c => outcome'[d] = outcome[d]
  <2>1. CASE UNCHANGED outcome
    BY <1>1, <2>1 DEF TypeOK
  <2>2. CASE \E o \in {"missing", "rejected"} : Settle(c, o)
    <3>1. PICK o \in Outcome : Settle(c, o)
      BY <2>2 DEF Outcome
    <3>2. QED
      BY <1>1, <1>3, <3>1, SettleEffect
  <2>3. QED
    BY <1>5, <2>1, <2>2
<1>6. TypeOK'
  <2>1. cmds' # <<>> /\ Len(cmds') <= Commands /\ pc' \in {"run", "primary"}
    BY <1>2, <1>5
  <2>2. QED
    BY <1>1, <1>2, <1>4, <1>5a, <2>1 DEF TypeOK, books, world
<1>7. QueueKeepsBooks' /\ WaitsAreTries'
  BY <1>1, <1>3, <1>4, <1>5, UnqueuedSettles DEF Outcome
<1>8. AcksAreHonest'
  BY <1>1, <1>3, <1>4, <1>5 DEF TypeOK, AcksAreHonest, Succeeded, Settle, world
<1>9. UnissuedUntouched'
  <2>1. \A d \in Id : d > c => outcome'[d] = outcome[d] /\ d > Len(cmds)
    BY <1>2, <1>5a DEF Id
  <2>2. QED
    BY <1>1, <1>2, <1>4, <2>1 DEF UnissuedUntouched, world
<1>10. CurrentUnsettled'
  BY <1>2, <1>3, <1>5 DEF CurrentUnsettled, Current
<1>11. BatchInPump'
  BY <1>1, <1>2, <1>4 DEF BatchInPump, books
<1>12. QED
  BY <1>6, <1>7, <1>8, <1>9, <1>10, <1>11 DEF IInv

LEMMA PrimaryKeeps ==
    ASSUME IInv, NEW result \in Result, Primary(result)
    PROVE  IInv'
<1>1. /\ TypeOK /\ QueueKeepsBooks /\ AcksAreHonest /\ UnissuedUntouched
      /\ CurrentUnsettled /\ BatchInPump /\ WaitsAreTries
  BY DEF IInv
<1>2. pc = "primary" /\ UNCHANGED <<cmds, books>> /\ alt' = 1
  BY DEF Primary
<1>3. Current \in Id /\ ~(Current > Len(cmds)) /\ outcome[Current] = "none"
  BY <1>1, <1>2, CurrentIsCommand DEF CurrentUnsettled
<1>4. Delivered(Current, result)
  BY <1>1, <1>2, CurrentIsCommand, DeliveryEffect DEF Primary
<1>5. \/ result = "none" /\ pc' = "alternates" /\ UNCHANGED outcome
      \/ result = "ok" /\ pc' = "run" /\ Settle(Current, "delivered")
      \/ result = "refused" /\ pc' = "run" /\ Settle(Current, "refused")
  BY DEF Primary, Result
<1>5a. /\ outcome' \in [Id -> Outcome]
       /\ \A d \in Id : d # Current => outcome'[d] = outcome[d]
  <2>1. CASE UNCHANGED outcome
    BY <1>1, <2>1 DEF TypeOK
  <2>2. CASE \E o \in {"delivered", "refused", "fallback"} : Settle(Current, o)
    <3>1. PICK o \in Outcome : Settle(Current, o)
      BY <2>2 DEF Outcome
    <3>2. QED
      BY <1>1, <1>3, <3>1, SettleEffect
  <2>3. QED
    BY <1>5, <2>1, <2>2
<1>6. TypeOK'
  <2>1. /\ alt' \in Nat \ {0} /\ pc' \in {"run", "primary", "alternates", "pump"}
        /\ cmds # <<>>
    BY <1>1, <1>2, <1>5 DEF TypeOK
  <2>2. QED
    BY <1>1, <1>2, <1>4, <1>5a, <2>1 DEF TypeOK, books, Delivered
<1>7. QueueKeepsBooks' /\ WaitsAreTries'
  <2>1. UNCHANGED outcome \/ \E o \in Outcome \ {"none", "queued", "expired"} : Settle(Current, o)
    BY <1>5 DEF Outcome
  <2>2. QED
    BY <1>1, <1>2, <1>3, <2>1, UnqueuedSettles
<1>8. AcksAreHonest'
  BY <1>1, <1>3, <1>4, <1>5, DeliveryIsHonest DEF Outcome, Succeeded
<1>9. UnissuedUntouched'
  BY <1>1, <1>2, <1>3, <1>4, <1>5a, UnissuedStays DEF Delivered
<1>10. CurrentUnsettled' /\ BatchInPump'
  BY <1>1, <1>2, <1>3, <1>5 DEF CurrentUnsettled, BatchInPump, Current, books
<1>11. QED
  BY <1>6, <1>7, <1>8, <1>9, <1>10 DEF IInv

LEMMA AlternateKeeps ==
    ASSUME IInv, NEW result \in Result, Alternate(result)
    PROVE  IInv'
<1>1. /\ TypeOK /\ QueueKeepsBooks /\ AcksAreHonest /\ UnissuedUntouched
      /\ CurrentUnsettled /\ BatchInPump /\ WaitsAreTries
  BY DEF IInv
<1>2. pc = "alternates" /\ UNCHANGED <<cmds, books>> /\ alt <= Len(Alternates) /\ alt \in Nat \ {0}
  BY <1>1 DEF Alternate, TypeOK
<1>3. Current \in Id /\ ~(Current > Len(cmds)) /\ outcome[Current] = "none"
  BY <1>1, <1>2, CurrentIsCommand DEF CurrentUnsettled
<1>4. Delivered(Current, result)
  <2>1. Alternates \in Seq(Actor)
    BY <1>1, <1>2, CurrentIsCommand, BusAssumption DEF Alternates
  <2>2. Alternates[alt] \in Actor
    BY <1>2, <2>1
  <2>3. QED
    BY <1>1, <1>3, <2>2, DeliveryEffect DEF Alternate
<1>5. \/ result # "ok" /\ alt' = alt + 1 /\ UNCHANGED <<pc, outcome>>
      \/ result = "ok" /\ pc' = "run" /\ Settle(Current, "fallback") /\ UNCHANGED alt
  BY DEF Alternate
<1>5a. /\ outcome' \in [Id -> Outcome]
       /\ \A d \in Id : d # Current => outcome'[d] = outcome[d]
  <2>1. CASE UNCHANGED outcome
    BY <1>1, <2>1 DEF TypeOK
  <2>2. CASE \E o \in {"delivered", "refused", "fallback"} : Settle(Current, o)
    <3>1. PICK o \in Outcome : Settle(Current, o)
      BY <2>2 DEF Outcome
    <3>2. QED
      BY <1>1, <1>3, <3>1, SettleEffect
  <2>3. QED
    BY <1>5, <2>1, <2>2
<1>6. TypeOK'
  <2>1. /\ alt' \in Nat \ {0} /\ pc' \in {"run", "primary", "alternates", "pump"}
        /\ cmds # <<>>
    BY <1>1, <1>2, <1>5 DEF TypeOK
  <2>2. QED
    BY <1>1, <1>2, <1>4, <1>5a, <2>1 DEF TypeOK, books, Delivered
<1>7. QueueKeepsBooks' /\ WaitsAreTries'
  <2>1. UNCHANGED outcome \/ \E o \in Outcome \ {"none", "queued", "expired"} : Settle(Current, o)
    BY <1>5 DEF Outcome
  <2>2. QED
    BY <1>1, <1>2, <1>3, <2>1, UnqueuedSettles
<1>8. AcksAreHonest'
  BY <1>1, <1>3, <1>4, <1>5, DeliveryIsHonest DEF Succeeded
<1>9. UnissuedUntouched'
  BY <1>1, <1>2, <1>3, <1>4, <1>5a, UnissuedStays DEF Delivered
<1>10. CurrentUnsettled' /\ BatchInPump'
  BY <1>1, <1>2, <1>3, <1>5 DEF CurrentUnsettled, BatchInPump, Current, books
<1>11. QED
  BY <1>6, <1>7, <1>8, <1>9, <1>10 DEF IInv

LEMMA ExhaustKeeps ==
    ASSUME IInv, Exhaust
    PROVE  IInv'
<1>1. /\ TypeOK /\ QueueKeepsBooks /\ AcksAreHonest /\ UnissuedUntouched
      /\ CurrentUnsettled /\ BatchInPump /\ WaitsAreTries
  BY DEF IInv
<1>2. pc = "alternates" /\ pc' = "run" /\ UNCHANGED <<cmds, alt, pending, waiting, tries, world>>
  BY DEF Exhaust
<1>3. Current \in Id /\ ~(Current > Len(cmds)) /\ outcome[Current] = "none"
  BY <1>1, <1>2, CurrentIsCommand DEF CurrentUnsettled
<1>4. pending = {}
  BY <1>1, <1>2 DEF BatchInPump
<1>5. \/ HasRoom /\ queue' = queue \cup {Current} /\ Settle(Current, "queued")
      \/ queue' = queue /\ Settle(Current, "dropped")
  BY DEF Exhaust
<1>6. /\ outcome' \in [Id -> Outcome]
      /\ \A d \in Id : d # Current => outcome'[d] = outcome[d]
      /\ outcome'[Current] \in {"queued", "dropped"}
      /\ outcome'[Current] = "queued" => HasRoom /\ queue' = queue \cup {Current}
      /\ outcome'[Current] = "dropped" => queue' = queue
  <2>1. "queued" \in Outcome /\ "dropped" \in Outcome /\ outcome \in [Id -> Outcome]
    BY <1>1 DEF Outcome, TypeOK
  <2>2. CASE HasRoom /\ queue' = queue \cup {Current} /\ Settle(Current, "queued")
    BY <1>3, <2>1, <2>2 DEF Settle
  <2>3. CASE queue' = queue /\ Settle(Current, "dropped")
    BY <1>3, <2>1, <2>3 DEF Settle
  <2>4. QED
    BY <1>5, <2>2, <2>3
<1>7. TypeOK'
  BY <1>1, <1>2, <1>3, <1>5, <1>6 DEF TypeOK, world
<1>8. QueueKeepsBooks'
  <2>1. Queued' = queue'
    <3>1. Queued = queue
      BY <1>1, <1>4 DEF QueueKeepsBooks, BooksInOrder
    <3>2. Queued' = IF outcome'[Current] = "queued" THEN Queued \cup {Current} ELSE Queued
      BY <1>3, <1>6 DEF Queued
    <3>3. QED
      BY <1>6, <3>1, <3>2
  <2>2. Cardinality(queue') <= Capacity
    <3>1. CASE queue' = queue
      BY <1>1, <1>4, <3>1 DEF QueueKeepsBooks, BooksInOrder
    <3>2. CASE HasRoom /\ queue' = queue \cup {Current}
      <4>1. IsFiniteSet(queue) /\ Cardinality(queue) \in Nat
        BY <1>1, BooksAreFinite DEF TypeOK
      <4>2. Cardinality(queue') <= Cardinality(queue) + 1
        BY <3>2, <4>1, FS_AddElement
      <4>3. Cardinality(queue') \in Nat
        BY <3>2, <4>1, FS_AddElement, FS_CardinalityType
      <4>4. QED
        BY <3>2, <4>1, <4>2, <4>3, BusAssumption DEF HasRoom
    <3>3. QED
      BY <1>5, <3>1, <3>2
  <2>3. BooksInOrder'
    BY <1>2, <1>4, <2>1, <2>2 DEF BooksInOrder
  <2>4. FullRetries'
    BY <1>1, <1>2, <1>6 DEF QueueKeepsBooks, FullRetries
  <2>5. QED
    BY <2>3, <2>4 DEF QueueKeepsBooks
<1>9. AcksAreHonest'
  BY <1>1, <1>2, <1>3, <1>6 DEF AcksAreHonest, Succeeded, world, TypeOK
<1>10. UnissuedUntouched'
  BY <1>1, <1>2, <1>3, <1>6, UnissuedStays DEF world
<1>11. CurrentUnsettled' /\ BatchInPump'
  BY <1>2, <1>4 DEF CurrentUnsettled, BatchInPump
<1>12. WaitsAreTries'
  BY <1>1, <1>2, <1>3, <1>6 DEF WaitsAreTries
<1>13. QED
  BY <1>7, <1>8, <1>9, <1>10, <1>11, <1>12 DEF IInv

LEMMA OnTickKeeps ==
    ASSUME IInv, OnTick
    PROVE  IInv'
<1>1. /\ TypeOK /\ QueueKeepsBooks /\ AcksAreHonest /\ UnissuedUntouched
      /\ CurrentUnsettled /\ BatchInPump /\ WaitsAreTries
  BY DEF IInv
<1>2. /\ pc = "run" /\ pc' = "pump" /\ pending' = queue /\ queue' = {}
      /\ UNCHANGED <<cmds, alt, waiting, tries, world, outcome>>
  BY DEF OnTick
<1>3. pending = {}
  BY <1>1, <1>2 DEF BatchInPump
<1>4. TypeOK'
  BY <1>1, <1>2 DEF TypeOK, world
<1>5. QueueKeepsBooks'
  <2>1. Queued' = Queued /\ queue' \cup pending' = queue \cup pending
    BY <1>2, <1>3 DEF Queued
  <2>2. BooksInOrder'
    BY <1>1, <1>2, <2>1 DEF QueueKeepsBooks, BooksInOrder
  <2>3. QED
    BY <1>1, <1>2, <2>2 DEF QueueKeepsBooks, FullRetries
<1>6. AcksAreHonest' /\ UnissuedUntouched'
  BY <1>1, <1>2 DEF AcksAreHonest, Succeeded, UnissuedUntouched, world
<1>7. CurrentUnsettled' /\ BatchInPump' /\ WaitsAreTries'
  BY <1>1, <1>2 DEF CurrentUnsettled, BatchInPump, WaitsAreTries
<1>8. QED
  BY <1>4, <1>5, <1>6, <1>7 DEF IInv

\* A command of the batch is queued, and its removal leaves room for it.
LEMMA BatchHasRoom ==
    ASSUME IInv, NEW c \in pending
    PROVE  /\ pc = "pump" /\ c \in Id /\ outcome[c] = "queued" /\ ~(c > Len(cmds))
           /\ c \notin queue /\ HasRoom
           /\ Cardinality(queue \cup (pending \ {c})) <= Capacity
<1>1. TypeOK /\ BooksInOrder /\ UnissuedUntouched /\ BatchInPump
  BY DEF IInv, QueueKeepsBooks
<1>2. pc = "pump" /\ c \in Id /\ outcome[c] = "queued" /\ c \notin queue
  BY <1>1 DEF BatchInPump, BooksInOrder, Queued, TypeOK
<1>3. ~(c > Len(cmds))
  BY <1>1, <1>2 DEF UnissuedUntouched
<1>4. /\ queue \in SUBSET Id /\ queue \cup pending \in SUBSET Id
      /\ queue \cup (pending \ {c}) = (queue \cup pending) \ {c}
      /\ queue \subseteq (queue \cup pending) \ {c} /\ c \in queue \cup pending
  BY <1>1, <1>2 DEF TypeOK
<1> DEFINE all == queue \cup pending
<1>5. all \in SUBSET Id /\ all \ {c} \in SUBSET Id
  BY <1>4
<1>6. /\ Cardinality(all) \in Nat /\ Cardinality(all \ {c}) \in Nat /\ Cardinality(queue) \in Nat
      /\ Cardinality(all) = Cardinality(all \ {c}) + 1
      /\ Cardinality(queue) <= Cardinality(all \ {c})
  BY <1>1, <1>2, <1>4, <1>5, BooksAreFinite
<1>7. Cardinality(all) <= Capacity
  BY <1>1 DEF BooksInOrder
<1>8. Cardinality(queue) < Capacity /\ Cardinality(all \ {c}) <= Capacity
  BY <1>6, <1>7, BusAssumption
<1>9. QED
  BY <1>2, <1>3, <1>4, <1>8 DEF HasRoom

LEMMA ExpireKeeps ==
    ASSUME IInv, NEW c \in Id, Expire(c)
    PROVE  IInv'
<1>1. /\ TypeOK /\ QueueKeepsBooks /\ AcksAreHonest /\ UnissuedUntouched
      /\ CurrentUnsettled /\ BatchInPump /\ WaitsAreTries
  BY DEF IInv
<1>2. /\ c \in pending /\ waiting[c] >= QueueTimeout /\ pending' = pending \ {c}
      /\ UNCHANGED <<pc, cmds, alt, queue, waiting, tries, world>>
  BY DEF Expire, IsNext, WaitedEnough
<1>3. /\ pc = "pump" /\ outcome[c] = "queued" /\ ~(c > Len(cmds)) /\ c \notin queue
      /\ Cardinality(queue \cup (pending \ {c})) <= Capacity
  BY <1>2, BatchHasRoom
<1>4. /\ outcome' \in [Id -> Outcome] /\ outcome'[c] = "expired"
      /\ \A d \in Id : d # c => outcome'[d] = outcome[d]
  BY <1>1, SettleEffect DEF Expire, Outcome
<1>5. TypeOK'
  BY <1>1, <1>2, <1>4 DEF TypeOK, world
<1>6. QueueKeepsBooks'
  <2>1. Queued' = Queued \ {c}
    BY <1>4 DEF Queued
  <2>2. BooksInOrder'
    BY <1>1, <1>2, <1>3, <2>1 DEF QueueKeepsBooks, BooksInOrder
  <2>3. tries[c] = QueueTimeout
    BY <1>1, <1>2, <1>3, BusAssumption DEF QueueKeepsBooks, FullRetries, WaitsAreTries, TypeOK
  <2>4. FullRetries'
    BY <1>1, <1>2, <1>4, <2>3 DEF QueueKeepsBooks, FullRetries
  <2>5. QED
    BY <2>2, <2>4 DEF QueueKeepsBooks
<1>7. AcksAreHonest'
  BY <1>1, <1>2, <1>3, <1>4 DEF AcksAreHonest, Succeeded, world, TypeOK
<1>8. UnissuedUntouched'
  BY <1>1, <1>2, <1>3, <1>4, UnissuedStays DEF world
<1>9. CurrentUnsettled' /\ BatchInPump'
  BY <1>2, <1>3 DEF CurrentUnsettled, BatchInPump
<1>10. WaitsAreTries'
  BY <1>1, <1>2, <1>4 DEF WaitsAreTries
<1>11. QED
  BY <1>5, <1>6, <1>7, <1>8, <1>9, <1>10 DEF IInv

LEMMA RetryKeeps ==
    ASSUME IInv, NEW c \in Id, NEW result \in Result, Retry(c, result)
    PROVE  IInv'
<1>1. /\ TypeOK /\ QueueKeepsBooks /\ AcksAreHonest /\ UnissuedUntouched
      /\ CurrentUnsettled /\ BatchInPump /\ WaitsAreTries
  BY DEF IInv
<1>2. /\ c \in pending /\ ~(waiting[c] >= QueueTimeout) /\ pending' = pending \ {c}
      /\ tries' = Bump(tries, c) /\ UNCHANGED <<pc, cmds, alt>>
  BY DEF Retry, IsNext, WaitedEnough
<1>3. /\ pc = "pump" /\ outcome[c] = "queued" /\ ~(c > Len(cmds)) /\ c \notin queue
      /\ HasRoom /\ Cardinality(queue \cup (pending \ {c})) <= Capacity
  BY <1>2, BatchHasRoom
<1>4. Delivered(c, result)
  BY <1>1, <1>3, QueuedIsCommand, DeliveryEffect DEF Retry
<1>5. \/ result = "ok" /\ Settle(c, "redelivered") /\ UNCHANGED <<queue, waiting>>
      \/ /\ result # "ok" /\ UNCHANGED outcome
         /\ queue' = queue \cup {c} /\ waiting' = Bump(waiting, c)
  BY <1>3 DEF Retry, Requeue
<1>6. /\ outcome' \in [Id -> Outcome] /\ outcome'[c] \in {"redelivered", "queued"}
      /\ outcome'[c] = "queued" <=> result # "ok"
      /\ \A d \in Id : d # c => outcome'[d] = outcome[d]
  <2>1. CASE result = "ok"
    BY <1>1, <1>5, <2>1, SettleEffect DEF Outcome
  <2>2. CASE result # "ok"
    BY <1>1, <1>3, <1>5, <2>2 DEF TypeOK
  <2>3. QED
    BY <2>1, <2>2
<1>7. /\ tries' \in [Id -> Nat] /\ tries'[c] = tries[c] + 1
      /\ \A d \in Id : d # c => tries'[d] = tries[d]
  BY <1>1, <1>2, BumpIsOneMore DEF TypeOK
<1>8. /\ waiting' \in [Id -> Nat] /\ \A d \in Id : d # c => waiting'[d] = waiting[d]
      /\ result # "ok" => waiting'[c] = waiting[c] + 1
  <2>1. waiting \in [Id -> Nat]
    BY <1>1 DEF TypeOK
  <2>2. \/ waiting' = waiting /\ result = "ok"
        \/ waiting' = Bump(waiting, c)
    BY <1>5
  <2>3. QED
    BY <2>1, <2>2, BumpIsOneMore
<1>9. TypeOK'
  <2>1. queue' \in SUBSET Id /\ pending' \in SUBSET Id
    BY <1>1, <1>2, <1>5 DEF TypeOK
  <2>2. QED
    BY <1>1, <1>2, <1>3, <1>4, <1>6, <1>7, <1>8, <2>1 DEF TypeOK, Delivered
<1>10. QueueKeepsBooks'
  <2>1. Queued' = IF result = "ok" THEN Queued \ {c} ELSE Queued
    BY <1>3, <1>6 DEF Queued
  <2>2. queue' \cup pending' = IF result = "ok" THEN queue \cup (pending \ {c}) ELSE queue \cup pending
    BY <1>2, <1>5
  <2>3. BooksInOrder'
    BY <1>1, <1>2, <1>3, <1>5, <2>1, <2>2 DEF QueueKeepsBooks, BooksInOrder
  <2>4. tries'[c] <= QueueTimeout
    <3>1. tries[c] = waiting[c] /\ tries[c] \in Nat
      BY <1>1, <1>3 DEF WaitsAreTries, TypeOK
    <3>2. QED
      BY <1>2, <1>7, <3>1, BusAssumption
  <2>5. FullRetries'
    BY <1>1, <1>6, <1>7, <2>4 DEF QueueKeepsBooks, FullRetries
  <2>6. QED
    BY <2>3, <2>5 DEF QueueKeepsBooks
<1>11. AcksAreHonest'
  BY <1>1, <1>3, <1>4, <1>5, DeliveryIsHonest DEF Succeeded
<1>12. UnissuedUntouched'
  BY <1>1, <1>2, <1>3, <1>4, <1>6, UnissuedStays DEF Delivered
<1>13. CurrentUnsettled' /\ BatchInPump'
  BY <1>2, <1>3 DEF CurrentUnsettled, BatchInPump
<1>14. WaitsAreTries'
  BY <1>1, <1>3, <1>6, <1>7, <1>8 DEF WaitsAreTries
<1>15. QED
  BY <1>9, <1>10, <1>11, <1>12, <1>13, <1>14 DEF IInv

LEMMA PumpEndKeeps ==
    ASSUME IInv, PumpEnd
    PROVE  IInv'
<1>1. /\ TypeOK /\ QueueKeepsBooks /\ AcksAreHonest /\ UnissuedUntouched
      /\ CurrentUnsettled /\ BatchInPump /\ WaitsAreTries
  BY DEF IInv
<1>2. pending = {} /\ pc' = "run" /\ UNCHANGED <<cmds, alt, books, world, outcome>>
  BY DEF PumpEnd
<1>3. TypeOK' /\ CurrentUnsettled' /\ BatchInPump'
  BY <1>1, <1>2 DEF TypeOK, CurrentUnsettled, BatchInPump, books, world
<1>4. QueueKeepsBooks' /\ WaitsAreTries'
  BY <1>1, <1>2 DEF QueueKeepsBooks, BooksInOrder, FullRetries, Queued, WaitsAreTries, books
<1>5. AcksAreHonest' /\ UnissuedUntouched'
  BY <1>1, <1>2 DEF AcksAreHonest, Succeeded, UnissuedUntouched, world
<1>6. QED
  BY <1>3, <1>4, <1>5 DEF IInv

LEMMA StutterKeeps == IInv /\ UNCHANGED vars => IInv'
<1> SUFFICES ASSUME IInv, UNCHANGED vars PROVE IInv'
  OBVIOUS
<1>1. UNCHANGED <<pc, cmds, alt, queue, pending, waiting, tries, carried, unanswered, breach, outcome>>
  BY DEF vars, books, world
<1>2. TypeOK' /\ CurrentUnsettled' /\ BatchInPump' /\ WaitsAreTries'
  BY <1>1 DEF IInv, TypeOK, CurrentUnsettled, Current, BatchInPump, WaitsAreTries
<1>3. QueueKeepsBooks'
  BY <1>1 DEF IInv, QueueKeepsBooks, BooksInOrder, FullRetries, Queued
<1>4. AcksAreHonest' /\ UnissuedUntouched'
  BY <1>1 DEF IInv, AcksAreHonest, Succeeded, UnissuedUntouched
<1>5. QED
  BY <1>2, <1>3, <1>4 DEF IInv

LEMMA NextIInv == IInv /\ [Next]_vars => IInv'
<1> SUFFICES ASSUME IInv, [Next]_vars PROVE IInv'
  OBVIOUS
<1>1. ASSUME NEW cmd \in Program, Issue(cmd) PROVE IInv'
  BY <1>1, IssueKeeps
<1>2. ASSUME NEW result \in Result, Primary(result) PROVE IInv'
  BY <1>2, PrimaryKeeps
<1>3. ASSUME NEW result \in Result, Alternate(result) PROVE IInv'
  BY <1>3, AlternateKeeps
<1>4. CASE Exhaust
  BY <1>4, ExhaustKeeps
<1>5. CASE OnTick
  BY <1>5, OnTickKeeps
<1>6. ASSUME NEW c \in Id, Expire(c) PROVE IInv'
  BY <1>6, ExpireKeeps
<1>7. ASSUME NEW c \in Id, NEW result \in Result, Retry(c, result) PROVE IInv'
  BY <1>7, RetryKeeps
<1>8. CASE PumpEnd
  BY <1>8, PumpEndKeeps
<1>9. CASE UNCHANGED vars
  BY <1>9, StutterKeeps
<1>10. QED
  BY <1>1, <1>2, <1>3, <1>4, <1>5, <1>6, <1>7, <1>8, <1>9 DEF Next, Bus

LEMMA InvariantHolds == Spec => []IInv
BY InitIInv, NextIInv, PTL DEF Spec

\* For every program, registry and capacity: the types of the bus.
THEOREM TypeCorrect == Spec => []TypeOK
<1>1. IInv => TypeOK
  BY DEF IInv
<1>2. QED
  BY <1>1, InvariantHolds, PTL

\* The queue and the batch of a pump hold exactly the queued commands, within
\* the capacity, and each gets exactly its retries: requeue is never refused
\* (bus.rs:1371), whatever routes fail.
THEOREM QueueBooksCorrect == Spec => []QueueKeepsBooks
<1>1. IInv => QueueKeepsBooks
  BY DEF IInv
<1>2. QED
  BY <1>1, InvariantHolds, PTL

\* An outcome of success was earned by a device, and only requests that were
\* given up duplicate an actuation (bus.rs:1201).
THEOREM AcksCorrect == Spec => []AcksAreHonest
<1>1. IInv => AcksAreHonest
  BY DEF IInv
<1>2. QED
  BY <1>1, InvariantHolds, PTL

(***************************************************************************)
(* The limits.                                                             *)
(***************************************************************************)

\* A command beyond the limit of its own remote actor never leaves Issue.
RejectedAtOnce ==
    \A c \in Id :
        c <= Len(cmds) /\ Route[cmds[c].actor] = "remote" /\ OverLimit(cmds[c].actor, c)
            => outcome[c] = "rejected"

\* Only issued commands go out.
BreachIssued == \A s \in breach : s.command <= Len(cmds)

LInv == IInv /\ WithinLimits /\ RejectedAtOnce /\ BreachIssued

LEMMA DeliveryWithinLimits ==
    ASSUME LInv, UNCHANGED cmds, NEW a \in Actor, NEW c \in Id, c <= Len(cmds), NEW result,
           outcome[c] # "rejected", DeliverRoute(a, c, result)
    PROVE  WithinLimits' /\ BreachIssued'
<1> DEFINE Allowed(s) == \/ s.via = "simulator" /\ ~OverSimLimit(s.device, s.command)
                         \/ s.via = "remote" /\ s.device # cmds[s.command].actor
<1>1. \A s \in breach : Allowed(s) /\ s.command <= Len(cmds)
  BY DEF LInv, WithinLimits, BreachIssued
<1>2. ASSUME NEW via, NEW b, breach' = breach \cup Beyond(via, b, c),
             \/ ~OverLimit(b, c)
             \/ via = "simulator" /\ ~OverSimLimit(b, c)
             \/ via = "remote" /\ b # cmds[c].actor
      PROVE  WithinLimits' /\ BreachIssued'
  <2>1. ASSUME NEW s \in Beyond(via, b, c)
        PROVE  Allowed(s) /\ s.command <= Len(cmds)
    <3>1. OverLimit(b, c) /\ s.via = via /\ s.device = b /\ s.command = c
      BY <2>1 DEF Beyond, OverLimit
    <3>2. QED
      BY <1>2, <3>1
  <2>2. \A s \in breach' : Allowed(s) /\ s.command <= Len(cmds)
    BY <1>1, <1>2, <2>1
  <2>3. QED
    BY <2>2 DEF WithinLimits, BreachIssued, OverSimLimit
<1>3. ASSUME UNCHANGED breach
      PROVE  WithinLimits' /\ BreachIssued'
  BY <1>1, <1>3 DEF WithinLimits, BreachIssued, OverSimLimit
<1>4. CASE RealDelivery(a, c, result)
  <2>1. CASE UNCHANGED breach
    BY <1>3, <2>1
  <2>2. CASE breach' = breach \cup Beyond("real", a, c) /\ ~OverLimit(a, c)
    BY <1>2, <2>2
  <2>3. QED
    BY <1>4, <2>1, <2>2 DEF RealDelivery
<1>5. CASE RemoteDelivery(a, c, result)
  <2>1. Route[a] = "remote" /\ breach' = breach \cup Beyond("remote", a, c)
    BY <1>5 DEF RemoteDelivery
  <2>2. a = cmds[c].actor => ~OverLimit(a, c)
    BY <2>1 DEF LInv, RejectedAtOnce
  <2>3. QED
    BY <1>2, <2>1, <2>2
<1>6. CASE SimulatorDelivery(a, c, result)
  <2>1. \/ UNCHANGED breach
        \/ \E b : breach' = breach \cup Beyond("simulator", b, c) /\ ~OverSimLimit(b, c)
    BY <1>6 DEF SimulatorDelivery
  <2>2. CASE UNCHANGED breach
    BY <1>3, <2>2
  <2>3. CASE \E b : breach' = breach \cup Beyond("simulator", b, c) /\ ~OverSimLimit(b, c)
    BY <1>2, <2>3
  <2>4. QED
    BY <2>1, <2>2, <2>3
<1>7. CASE NoDelivery(a, c, result)
  BY <1>3, <1>7 DEF NoDelivery, world
<1>8. QED
  BY <1>4, <1>5, <1>6, <1>7 DEF DeliverRoute

\* A rejected command stays so: only commands that are under way are settled.
LEMMA RejectedStays ==
    ASSUME LInv, UNCHANGED cmds,
           \/ UNCHANGED outcome
           \/ \E c \in Id : outcome[c] # "rejected" /\ \E o : Settle(c, o)
    PROVE  RejectedAtOnce'
<1>1. \A c \in Id : outcome[c] = "rejected" => outcome'[c] = "rejected"
  BY DEF LInv, IInv, TypeOK, Settle
<1>2. QED
  BY <1>1 DEF LInv, RejectedAtOnce, OverLimit

LEMMA IssueWithinLimits ==
    ASSUME LInv, NEW cmd \in Program, Issue(cmd)
    PROVE  WithinLimits' /\ RejectedAtOnce' /\ BreachIssued'
<1> DEFINE n == Len(cmds) + 1
<1>1. TypeOK
  BY DEF LInv, IInv
<1>2. /\ cmds \in Seq(Program) /\ cmds' = Append(cmds, cmd) /\ Len(cmds) < Commands
      /\ UNCHANGED breach /\ outcome \in [Id -> Outcome] /\ breach \in SUBSET Breach
  BY <1>1 DEF Issue, TypeOK, world
<1>3. /\ Len(cmds) \in Nat /\ Len(cmds') = n /\ cmds'[n] = cmd /\ n \in Id
      /\ \A c \in Id : c <= Len(cmds) => cmds'[c] = cmds[c]
      /\ \A c \in Id : c <= n => c <= Len(cmds) \/ c = n
  BY <1>2, BusAssumption DEF Id
<1>4. \A s \in breach : s.command \in Id /\ s.command <= Len(cmds) /\ s.command <= n
  BY <1>2, <1>3 DEF LInv, BreachIssued, Breach, Id
<1>5. WithinLimits' /\ BreachIssued'
  BY <1>2, <1>3, <1>4 DEF LInv, WithinLimits, BreachIssued, OverSimLimit
<1>6. /\ \A c \in Id : c # n => outcome'[c] = outcome[c]
      /\ Route[cmd.actor] = "remote" /\ cmd.value > Limit[cmd.actor] => outcome'[n] = "rejected"
  BY <1>2, <1>3 DEF Issue
<1>7. RejectedAtOnce'
  <2>1. ASSUME NEW c \in Id, c <= Len(cmds)', Route[cmds'[c].actor] = "remote",
               cmds'[c].value > Limit[cmds'[c].actor]
        PROVE  outcome'[c] = "rejected"
    <3>1. CASE c = n
      BY <1>3, <1>6, <2>1, <3>1
    <3>2. CASE c <= Len(cmds)
      <4>1. c # n /\ cmds'[c] = cmds[c]
        BY <1>3, <3>2 DEF Id
      <4>2. outcome[c] = "rejected"
        BY <2>1, <3>2, <4>1 DEF LInv, RejectedAtOnce, OverLimit
      <4>3. QED
        BY <1>6, <4>1, <4>2
    <3>3. QED
      BY <1>3, <2>1, <3>1, <3>2
  <2>2. QED
    BY <2>1 DEF RejectedAtOnce, OverLimit
<1>8. QED
  BY <1>5, <1>7

\* A step that sends nothing.
LEMMA QuietWithinLimits ==
    ASSUME LInv, UNCHANGED <<cmds, breach>>
    PROVE  WithinLimits' /\ BreachIssued'
BY DEF LInv, WithinLimits, BreachIssued, OverSimLimit

LEMMA NextWithinLimits ==
    ASSUME LInv, [Next]_vars
    PROVE  WithinLimits' /\ RejectedAtOnce' /\ BreachIssued'
<1>1. /\ TypeOK /\ UnissuedUntouched /\ BooksInOrder
      /\ pc \in {"primary", "alternates"} => outcome[Current] = "none" /\ Current \in Id
                                             /\ Current <= Len(cmds) /\ cmds[Current].actor \in Actor
      /\ pc \in {"primary", "alternates"} => \A k \in DOMAIN Alternates : Alternates[k] \in Actor
  <2>1. TypeOK /\ UnissuedUntouched /\ BooksInOrder /\ CurrentUnsettled
    BY DEF LInv, IInv, QueueKeepsBooks
  <2>2. QED
    BY <2>1, CurrentIsCommand DEF CurrentUnsettled, Current
<1>2. \A c \in pending : /\ c \in Id /\ outcome[c] = "queued" /\ c <= Len(cmds)
                         /\ cmds[c].actor \in Actor
  <2>1. ASSUME NEW c \in pending
        PROVE  /\ c \in Id /\ outcome[c] = "queued" /\ c <= Len(cmds)
               /\ cmds[c].actor \in Actor
    <3>1. c \in Id /\ outcome[c] = "queued"
      BY <1>1 DEF BooksInOrder, Queued, TypeOK
    <3>2. Len(cmds) \in Nat /\ c \in Nat /\ ~(c > Len(cmds))
      BY <1>1, <3>1 DEF TypeOK, UnissuedUntouched, Id
    <3>3. QED
      BY <1>1, <3>1, <3>2, QueuedIsCommand
  <2>2. QED
    BY <2>1
<1>3. ASSUME NEW cmd \in Program, Issue(cmd)
      PROVE  WithinLimits' /\ RejectedAtOnce' /\ BreachIssued'
  BY <1>3, IssueWithinLimits
<1>4. ASSUME NEW result \in Result, Primary(result)
      PROVE  WithinLimits' /\ RejectedAtOnce' /\ BreachIssued'
  <2>1. /\ UNCHANGED cmds /\ DeliverRoute(cmds[Current].actor, Current, result)
        /\ UNCHANGED outcome \/ \E o : Settle(Current, o)
        /\ outcome[Current] = "none" /\ Current \in Id /\ Current <= Len(cmds)
        /\ cmds[Current].actor \in Actor
    BY <1>1, <1>4 DEF Primary
  <2>2. QED
    BY <2>1, DeliveryWithinLimits, RejectedStays
<1>5. ASSUME NEW result \in Result, Alternate(result)
      PROVE  WithinLimits' /\ RejectedAtOnce' /\ BreachIssued'
  <2>1. /\ UNCHANGED cmds /\ DeliverRoute(Alternates[alt], Current, result)
        /\ UNCHANGED outcome \/ \E o : Settle(Current, o)
        /\ outcome[Current] = "none" /\ Current \in Id /\ Current <= Len(cmds)
    BY <1>1, <1>5 DEF Alternate
  <2>2. Alternates[alt] \in Actor
    <3>1. Alternates \in Seq(Actor)
      BY <1>1, <1>5, BusAssumption DEF Alternates, Alternate
    <3>2. alt \in 1 .. Len(Alternates)
      BY <1>1, <1>5, <3>1 DEF Alternate, TypeOK
    <3>3. QED
      BY <3>1, <3>2
  <2>3. QED
    BY <2>1, <2>2, DeliveryWithinLimits, RejectedStays
<1>6. ASSUME NEW c \in Id, NEW result \in Result, Retry(c, result)
      PROVE  WithinLimits' /\ RejectedAtOnce' /\ BreachIssued'
  <2>1. /\ UNCHANGED cmds /\ DeliverRoute(cmds[c].actor, c, result)
        /\ UNCHANGED outcome \/ \E o : Settle(c, o)
        /\ outcome[c] = "queued" /\ c <= Len(cmds) /\ cmds[c].actor \in Actor
    BY <1>2, <1>6 DEF Retry, Requeue, IsNext
  <2>2. QED
    BY <2>1, DeliveryWithinLimits, RejectedStays
<1>7. CASE Exhaust
  <2>1. UNCHANGED <<cmds, breach>> /\ \E o : Settle(Current, o)
    BY <1>7 DEF Exhaust, world
  <2>2. outcome[Current] = "none" /\ Current \in Id
    BY <1>1, <1>7 DEF Exhaust
  <2>3. QED
    BY <2>1, <2>2, QuietWithinLimits, RejectedStays
<1>8. ASSUME NEW c \in Id, Expire(c)
      PROVE  WithinLimits' /\ RejectedAtOnce' /\ BreachIssued'
  <2>1. UNCHANGED <<cmds, breach>> /\ \E o : Settle(c, o)
    BY <1>8 DEF Expire, world
  <2>2. outcome[c] = "queued"
    BY <1>2, <1>8 DEF Expire, IsNext
  <2>3. QED
    BY <2>1, <2>2, QuietWithinLimits, RejectedStays
<1>9. CASE OnTick \/ PumpEnd \/ UNCHANGED vars
  <2>1. UNCHANGED <<cmds, breach, outcome>>
    BY <1>9 DEF OnTick, PumpEnd, vars, world
  <2>2. QED
    BY <2>1, QuietWithinLimits, RejectedStays
<1>10. QED
  BY <1>3, <1>4, <1>5, <1>6, <1>7, <1>8, <1>9 DEF Next, Bus

\* Whatever falls back or is retried: no driver is given a command beyond the
\* registry's limit, no simulated device one beyond the simulator's, and a peer
\* one beyond the device's limit only for another actor (bus.rs:1221-1306).
THEOREM LimitsCorrect == Spec => []WithinLimits
<1>1. Init => LInv
  <2> SUFFICES ASSUME Init PROVE LInv
    OBVIOUS
  <2>1. cmds = <<>> /\ Len(cmds) = 0 /\ breach = {}
    BY DEF Init
  <2>2. RejectedAtOnce
    BY <2>1 DEF RejectedAtOnce, Id
  <2>3. QED
    BY <2>1, <2>2, InitIInv DEF LInv, WithinLimits, BreachIssued
<1>2. LInv /\ [Next]_vars => LInv'
  BY NextIInv, NextWithinLimits DEF LInv
<1>3. LInv => WithinLimits
  BY DEF LInv
<1>4. QED
  BY <1>1, <1>2, <1>3, PTL DEF Spec
=============================================================================
