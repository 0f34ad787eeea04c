------------------------------ MODULE FormLife ------------------------------
(***************************************************************************)
(* What FORMAL 4.1 promises of a form: the matrix of legal transitions and *)
(* the absolute horizon, whatever the engine's schedule.  A form is born   *)
(* with its declared conjugation, changes it along LegalTransition keeping *)
(* its instant of birth, and ends at any time.                             *)
(***************************************************************************)
EXTENDS Integers

CONSTANTS Name, Conj

VARIABLES
    state,   \* conjugation of each name, or "none"
    born,    \* instant of birth of each living form
    now      \* virtual time
life == <<state, born, now>>

LegalTransition ==
    {<<"event", "equilibrium">>, <<"equilibrium", "nonequilibrium">>,
     <<"nonequilibrium", "equilibrium">>, <<"nonequilibrium", "nonequilibrium">>}

Init ==
    /\ state = [f \in Name |-> "none"]
    /\ born = [f \in Name |-> 0]
    /\ now = 0

Declare(f) ==
    /\ state' = [state EXCEPT ![f] = Conj[f]]
    /\ born' = [born EXCEPT ![f] = now]
    /\ UNCHANGED now

Reclassify(f) ==
    /\ \E c \in {"event", "equilibrium", "nonequilibrium"} :
          /\ <<state[f], c>> \in LegalTransition
          /\ state' = [state EXCEPT ![f] = c]
    /\ UNCHANGED <<born, now>>

End(f) ==
    /\ state[f] # "none"
    /\ state' = [state EXCEPT ![f] = "none"]
    /\ born' = [born EXCEPT ![f] = 0]
    /\ UNCHANGED now

Advance ==
    /\ now' > now
    /\ UNCHANGED <<state, born>>

Next == Advance \/ \E f \in Name : Declare(f) \/ Reclassify(f) \/ End(f)
Spec == Init /\ [][Next]_life
=============================================================================
