----------------------------- MODULE RemoteCall -----------------------------
(***************************************************************************)
(* What request_remote (bus.rs) promises of a request to a peer: the peer  *)
(* carries it out at most once, and before it is answered; a request given *)
(* up may still be carried out later, while others run.                    *)
(***************************************************************************)
EXTENDS Naturals, Sequences

CONSTANT Calls    \* bound: number of requests

VARIABLES
    outcome,      \* what the caller knows of each request
    executed      \* the requests the peer has carried out, in order

call == <<outcome, executed>>
Call == 1 .. Calls
Executed(c) == \E k \in DOMAIN executed : executed[k] = c

Init ==
    /\ outcome = [c \in Call |-> "new"]
    /\ executed = <<>>

Begin(c) ==
    /\ outcome[c] = "new"
    /\ \A d \in Call : outcome[d] # "asked" /\ (d < c => outcome[d] # "new")
    /\ outcome' = [outcome EXCEPT ![c] = "asked"]
    /\ UNCHANGED executed

Execute(c) ==
    /\ outcome[c] \in {"asked", "lost"} /\ ~Executed(c)
    /\ executed' = Append(executed, c)
    /\ UNCHANGED outcome

Answer(c) ==
    /\ outcome[c] = "asked" /\ Executed(c)
    /\ outcome' = [outcome EXCEPT ![c] = "answered"]
    /\ UNCHANGED executed

GiveUp(c) ==
    /\ outcome[c] = "asked"
    /\ outcome' = [outcome EXCEPT ![c] = "lost"]
    /\ UNCHANGED executed

Next == \E c \in Call : Begin(c) \/ Execute(c) \/ Answer(c) \/ GiveUp(c)
Spec == Init /\ [][Next]_call
=============================================================================
