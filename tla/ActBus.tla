------------------------------- MODULE ActBus -------------------------------
(***************************************************************************)
(* Actuation through the FXP bus (vbl-fxp bus.rs, queue.rs, and the        *)
(* simulated devices of vbl-runtime sim.rs): what happens to a command     *)
(* from act_with_priority to its last retry.                               *)
(*                                                                         *)
(*   run --Issue--> primary --(unavailable)--> alternates --(exhausted)--> *)
(*   queue;  run --OnTick--> pump, which retries each queued command once. *)
(*                                                                         *)
(* Commands are numbered in the order they are issued, which is the order  *)
(* of the sequence numbers the queue breaks ties with.  What devices and   *)
(* peers answer is an outside choice.  The attempts of one delivery to a   *)
(* file driver (1 + retries) are one step: no state changes between them.  *)
(***************************************************************************)
EXTENDS Integers, Sequences, FiniteSets

CONSTANTS
    Actor,         \* names a program may act on
    Route,         \* [Actor -> RouteKind]: route resolved when the bus is built
    Fallback,      \* [Actor -> Seq(Actor)]: alternates declared in the registry
    SimFallback,   \* [Actor -> Seq(Actor)]: alternates known to the simulator
    Program,       \* the commands a program may issue: [actor, value, priority]
    Limit,         \* [Actor -> Nat]: the inclusive upper limit of the registry
    SimLimit,      \* [Actor -> Nat]: the limit the simulator knows, which build
                   \* does not replace by the registry's
    Capacity,      \* of the command queue
    QueueTimeout,  \* queue_timeout_ticks
    Commands       \* bound: number of commands issued

RouteKind == {"simulator", "real", "remote", "inaccessible", "unknown"}
Priority == {0, 10}    \* PRIORITY_SUBVERT and PRIORITY_NORMAL
Id == 1 .. Commands
Command == [actor : Actor, value : Nat, priority : Priority]
Breach == [via : {"real", "remote", "simulator"}, device : Actor, command : Id]
Outcome == {"none", "rejected", "missing", "delivered", "refused", "fallback",
            "exhausted", "queued", "dropped", "redelivered", "expired"}

ASSUME BusAssumption ==
    /\ Route \in [Actor -> RouteKind]
    /\ Fallback \in [Actor -> Seq(Actor)]
    /\ SimFallback \in [Actor -> Seq(Actor)]
    /\ Program \in SUBSET Command
    /\ Limit \in [Actor -> Nat]
    /\ SimLimit \in [Actor -> Nat]
    /\ Capacity \in Nat
    /\ QueueTimeout \in Nat
    /\ Commands \in Nat

VARIABLES
    pc,          \* "run", "primary", "alternates" or "pump"
    cmds,        \* the commands issued so far: [actor, value, priority]
    alt,         \* index of the alternate to be tried next
    queue,       \* commands in the queue
    pending,     \* commands taken from the queue by this pump, not tried yet
    waiting,     \* [Id -> Nat]: ticks_waiting of a queued command
    outcome,     \* [Id -> Outcome]: what became of each command
    carried,     \* history, [Id -> Nat]: how often a device carried it out
    unanswered,  \* history, [Id -> Nat]: remote requests given up
    tries,       \* history, [Id -> Nat]: retries from the queue
    breach       \* history: what was put out beyond the registry's limit

books == <<queue, pending, waiting, tries>>
world == <<carried, unanswered, breach>>
vars == <<pc, cmds, alt, books, world, outcome>>

Current == Len(cmds)
OverLimitPrimary(a, c) ==                                                \* mutant
    cmds[c].value > Limit[a] /\ cmds[c].actor = a
OverLimit(a, c) == cmds[c].value > Limit[a]
OverSimLimit(a, c) == cmds[c].value > SimLimit[a]
Beyond(via, a, c) ==
    IF cmds[c].value > Limit[a] THEN {[via |-> via, device |-> a, command |-> c]} ELSE {}
BumpDown(f, c) == [f EXCEPT ![c] = @ - 1]                                \* mutant
Bump(f, c) == [f EXCEPT ![c] = @ + 1]

----------------------------------------------------------------------------
(* One delivery of command c to device a, by the route of a: "ok",         *)
(* "refused" (a terminal answer) or "none" (unavailable).                  *)

\* deliver_route and deliver_real: limits first; a value outside the domain
\* of the driver is refused, failing writes exhaust the retries.
RealDelivery(a, c, result) ==
    /\ Route[a] = "real"
    /\ OverLimit(a, c) => result = "refused"
    /\ carried' = IF result = "ok" THEN Bump(carried, c) ELSE carried
    /\ breach' = IF result = "refused" THEN breach ELSE breach \cup Beyond("real", a, c)
    /\ UNCHANGED unanswered

\* deliver_remote.  Without an answer in time the connection is dropped, and
\* the peer carries the request out, sooner or later, or never does.
RemoteDelivery(a, c, result) ==
    /\ Route[a] = "remote"
    /\ breach' = breach \cup Beyond("remote", a, c)
    /\ \/ /\ carried' = IF result = "ok" THEN Bump(carried, c) ELSE carried
          /\ UNCHANGED unanswered
       \/ /\ result = "none"
          /\ unanswered' = Bump(unanswered, c)
          /\ carried' \in {carried, Bump(carried, c)}

\* FxpSimulator::act, which the registry's limits do not reach: an available
\* device checks the simulator's own; otherwise the first alternate of the
\* simulator that is available and accepts the value.
SimulatorDelivery(a, c, result) ==
    /\ Route[a] = "simulator"
    /\ \E up \in SUBSET Actor :
        LET Takes(b) == b \in up /\ ~OverSimLimit(b, c)
            Carry(b) == /\ result = "ok" /\ carried' = Bump(carried, c)
                        /\ breach' = breach \cup Beyond("simulator", b, c)
            alternates == SimFallback[a]
        IN  \/ Takes(a) /\ Carry(a)
            \/ /\ a \notin up
               /\ \E k \in DOMAIN alternates :
                     /\ Takes(alternates[k]) /\ Carry(alternates[k])
                     /\ \A j \in 1 .. k - 1 : ~Takes(alternates[j])
            \/ /\ result = "refused"
               /\ a \in up \/ \A k \in DOMAIN alternates : ~Takes(alternates[k])
               /\ ~Takes(a)
               /\ UNCHANGED <<breach, carried>>
    /\ UNCHANGED unanswered

NoDelivery(a, c, result) ==
    /\ Route[a] \in {"inaccessible", "unknown"}
    /\ result = "none"
    /\ UNCHANGED world

DeliverRoute(a, c, result) ==
    \/ RealDelivery(a, c, result) \/ RemoteDelivery(a, c, result)
    \/ SimulatorDelivery(a, c, result) \/ NoDelivery(a, c, result)

----------------------------------------------------------------------------
Init ==
    /\ pc = "run" /\ cmds = <<>> /\ alt = 1
    /\ queue = {} /\ pending = {}
    /\ waiting = [c \in Id |-> 0] /\ tries = [c \in Id |-> 0]
    /\ outcome = [c \in Id |-> "none"]
    /\ carried = [c \in Id |-> 0] /\ unanswered = [c \in Id |-> 0]
    /\ breach = {}

\* act_with_priority: a command for an unregistered actor is missing, one
\* beyond the limits rejected before anything is sent.
Issue(cmd) ==
    /\ pc = "run" /\ Len(cmds) < Commands
    /\ cmds' = Append(cmds, cmd)
    /\ LET c == Len(cmds) + 1
           limited == Route[cmd.actor] \in {"real", "remote", "inaccessible"}
       IN  IF Route[cmd.actor] = "unknown"
           THEN outcome' = [outcome EXCEPT ![c] = "missing"] /\ UNCHANGED pc
           ELSE IF limited /\ cmd.value > Limit[cmd.actor]
           THEN outcome' = [outcome EXCEPT ![c] = "rejected"] /\ UNCHANGED pc
           ELSE pc' = "primary" /\ UNCHANGED outcome
    /\ UNCHANGED <<alt, books, world>>

Settle(c, o) == outcome' = [outcome EXCEPT ![c] = o]

\* The primary route answers, or the alternates are tried.  A simulated
\* actor's answer is final: its fallback is the simulator's own.
Primary(result) ==
    /\ pc = "primary"
    /\ DeliverRoute(cmds[Current].actor, Current, result)
    /\ IF result = "none"
       THEN pc' = "alternates" /\ UNCHANGED outcome
       ELSE pc' = "run" /\ Settle(Current, IF result = "ok" THEN "delivered" ELSE "refused")
    /\ alt' = 1
    /\ UNCHANGED <<cmds, books>>

Alternates == Fallback[cmds[Current].actor]

AlternateGoesOn(result) ==                                               \* mutant
    /\ pc = "alternates" /\ alt <= Len(Alternates)
    /\ DeliverRoute(Alternates[alt], Current, result)
    /\ alt' = alt + 1
    /\ UNCHANGED <<pc, outcome, cmds, books>>
\* try_fallback: the first alternate that delivers ends it.
Alternate(result) ==
    /\ pc = "alternates" /\ alt <= Len(Alternates)
    /\ DeliverRoute(Alternates[alt], Current, result)
    /\ IF result = "ok"
       THEN pc' = "run" /\ Settle(Current, "fallback") /\ UNCHANGED alt
       ELSE alt' = alt + 1 /\ UNCHANGED <<pc, outcome>>
    /\ UNCHANGED <<cmds, books>>

\* CommandQueue::enqueue
HasRoomForOneMore == Cardinality(queue) <= Capacity                      \* mutant
HasRoom == Cardinality(queue) < Capacity

\* Every alternate failed: the command is queued, or dropped when the queue
\* is full (nothing is recorded of that).
Exhaust ==
    /\ pc = "alternates" /\ alt > Len(Alternates)
    /\ pc' = "run"
    /\ IF HasRoom
       THEN queue' = queue \cup {Current} /\ Settle(Current, "queued")
       ELSE UNCHANGED queue /\ Settle(Current, "dropped")
    /\ UNCHANGED <<cmds, alt, pending, waiting, tries, world>>

----------------------------------------------------------------------------
(* on_tick: pump_queue.                                                    *)

\* The order of the heap: by priority, then by sequence number.
Before(c, d) ==
    \/ cmds[c].priority < cmds[d].priority
    \/ cmds[c].priority = cmds[d].priority /\ c < d
IsNext(c) == c \in pending /\ \A d \in pending \ {c} : Before(c, d)

\* Without queued commands pump_queue returns at once.
OnTick ==
    /\ pc = "run" /\ queue # {}
    /\ pc' = "pump" /\ pending' = queue /\ queue' = {}
    /\ UNCHANGED <<cmds, alt, waiting, tries, world, outcome>>

WaitedLonger(c) == waiting[c] > QueueTimeout                             \* mutant
WaitedEnough(c) == waiting[c] >= QueueTimeout

Expire(c) ==
    /\ pc = "pump" /\ IsNext(c) /\ WaitedEnough(c)
    /\ pending' = pending \ {c}
    /\ Settle(c, "expired")
    /\ UNCHANGED <<pc, cmds, alt, queue, waiting, tries, world>>

\* CommandQueue::requeue, its result ignored.
RequeueForgets(c) == UNCHANGED <<queue, waiting, outcome>>               \* mutant
Requeue(c) ==
    /\ IF HasRoom
       THEN queue' = queue \cup {c} /\ waiting' = Bump(waiting, c)
       ELSE UNCHANGED <<queue, waiting>>
    /\ UNCHANGED outcome

\* A retry goes to the actor itself, never to its alternates; whatever is not
\* a delivery, a terminal answer too, waits for another tick.
Retry(c, result) ==
    /\ pc = "pump" /\ IsNext(c) /\ ~WaitedEnough(c)
    /\ pending' = pending \ {c}
    /\ tries' = Bump(tries, c)
    /\ DeliverRoute(cmds[c].actor, c, result)
    /\ IF result = "ok"
       THEN Settle(c, "redelivered") /\ UNCHANGED <<queue, waiting>>
       ELSE Requeue(c)
    /\ UNCHANGED <<pc, cmds, alt>>

PumpEndEarly ==                                                          \* mutant
    /\ pc = "pump" /\ pc' = "run"
    /\ UNCHANGED <<cmds, alt, books, world, outcome>>
PumpEnd ==
    /\ pc = "pump" /\ pending = {}
    /\ pc' = "run"
    /\ UNCHANGED <<cmds, alt, books, world, outcome>>

----------------------------------------------------------------------------
Result == {"ok", "refused", "none"}
Bus ==
    \/ \E result \in Result : Primary(result) \/ Alternate(result)
    \/ Exhaust \/ OnTick \/ PumpEnd
    \/ \E c \in Id : Expire(c) \/ \E result \in Result : Retry(c, result)
Next ==
    \/ Bus
    \/ \E cmd \in Program : Issue(cmd)

Spec == Init /\ [][Next]_vars

\* Calls return and the run loop keeps ticking; peers and programs owe nothing.
FairSpec == Spec /\ WF_vars(Bus)

----------------------------------------------------------------------------
TypeOK ==
    /\ pc \in {"run", "primary", "alternates", "pump"}
    /\ cmds \in Seq(Program) /\ Len(cmds) <= Commands
    /\ pc \in {"primary", "alternates"} => cmds # <<>>
    /\ alt \in Nat \ {0}
    /\ queue \in SUBSET Id /\ pending \in SUBSET Id
    /\ waiting \in [Id -> Nat] /\ tries \in [Id -> Nat]
    /\ carried \in [Id -> Nat] /\ unanswered \in [Id -> Nat]
    /\ outcome \in [Id -> Outcome]
    /\ breach \in SUBSET Breach

\* The queue and the batch a pump took from it hold, without overlap, exactly
\* the commands that count as queued, and never more than the capacity: so
\* the result of requeue, which pump_queue ignores, is never a refusal
\* (queue.rs:107, bus.rs:1371).
Queued == {c \in Id : outcome[c] = "queued"}
BooksInOrder ==
    /\ queue \cup pending = Queued
    /\ queue \cap pending = {}
    /\ Cardinality(queue \cup pending) <= Capacity

\* And a queued command gets exactly queue_timeout_ticks retries before it
\* expires, whatever happens to the others (bus.rs:1335).
FullRetries ==
    \A c \in Id :
        /\ tries[c] <= QueueTimeout
        /\ outcome[c] = "expired" => tries[c] = QueueTimeout
QueueKeepsBooks == BooksInOrder /\ FullRetries

\* An outcome that reports success was earned by a device, and a command is
\* carried out more often than that only by requests the bus gave up waiting
\* for (bus.rs:1201): fallbacks and retries alone never duplicate it.
Succeeded(c) == outcome[c] \in {"delivered", "fallback", "redelivered"}
AcksAreHonest ==
    \A c \in Id :
        /\ Succeeded(c) => carried[c] >= 1
        /\ carried[c] <= unanswered[c] + (IF Succeeded(c) THEN 1 ELSE 0)

\* By whatever sequence of fallbacks and retries a command arrives, it reaches a
\* driver only within the limit of the registry, a simulated device only within
\* the one the simulator knows (bus.rs:1231, bus.rs:1553), and a peer beyond the
\* device's limit only as the alternate of another actor (bus.rs:1250).
WithinLimits ==
    \A s \in breach :
        \/ s.via = "simulator" /\ ~OverSimLimit(s.device, s.command)
        \/ s.via = "remote" /\ s.device # cmds[s.command].actor

\* Every queued command is redelivered or expires.
QueueDrains ==
    \A c \in Id : outcome[c] = "queued" ~> outcome[c] \in {"redelivered", "expired"}
=============================================================================
