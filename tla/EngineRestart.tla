--------------------------- MODULE EngineRestart ----------------------------
(***************************************************************************)
(* The engine over several runs of the process (persist.rs, vbl-cli        *)
(* main.rs).  A run ends, or dies, at any step: the memory of the engine   *)
(* is lost and the persistence directory stays.  The next run reloads the  *)
(* equilibrium forms it finds there, file by file in an unspecified order, *)
(* and only then registers what its program declares.                      *)
(***************************************************************************)
EXTENDS Engine

CONSTANT Runs   \* bound: number of runs of the process
ASSUME RunsAssumption == Runs \in Nat \ {0}

VARIABLES
    run,    \* which run this is
    boot,   \* names whose files are still to be looked at
    left    \* history: time f had left when its .vl was last written

restart == <<run, boot, left>>

InitRestart == Init /\ run = 1 /\ boot = {} /\ left = [f \in Name |-> 0]

\* Engine::new of the next run, at virtual time 0 again.
Restart ==
    /\ run < Runs
    /\ run' = run + 1 /\ boot' = Name
    /\ sim_time' = 0 /\ clock' = 0
    /\ next_due' = [k \in DOMAIN Blocks |-> Blocks[k].period]
    /\ forms' = [f \in Name |-> Blank]
    /\ active' = {} /\ order' = <<>> /\ heap' = {} /\ due' = {} /\ labor' = {}
    /\ pc' = "idle" /\ b' = 1 /\ i' = 1 /\ r' = 1 /\ a' = 1 /\ doomed' = FALSE
    /\ fired' = {} /\ executed' = {} /\ journal' = {}
    /\ visited' = <<>> /\ snapshot' = <<>>
    /\ UNCHANGED <<disk, left>>

\* The form that the .vl and its sidecar describe; the canonical .vl of an
\* equilibrium form carries neither rules nor a maintenance deadline.
Reloaded(f) ==
    [conj |-> "equilibrium", last |-> 0, hver |-> 1, mver |-> 0,
     subverted |-> FALSE, declared |-> FALSE,
     created |-> IF disk[f].sidecar = NoSidecar THEN 0 ELSE disk[f].sidecar]

\* One file of reload_equilibrium: registered unless its horizon is exhausted
\* by the clock of this run.
ReloadUnscheduled(f) ==                                                  \* mutant
    /\ f \in boot /\ disk[f].vl
    /\ boot' = boot \ {f}
    /\ sim_time - Reloaded(f).created < Horizon[f]
    /\ Bind(f, Reloaded(f))
    /\ UNCHANGED <<time, heap, due, disk, control, history, run, left>>
Reload(f) ==
    /\ f \in boot
    /\ boot' = boot \ {f}
    /\ IF disk[f].vl /\ sim_time - Reloaded(f).created < Horizon[f]
       THEN /\ Bind(f, Reloaded(f))
            /\ heap' = heap \cup BindEntries(f, Reloaded(f))
       ELSE UNCHANGED <<forms, active, order, labor, heap>>
    /\ UNCHANGED <<time, due, disk, control, history, run, left>>

\* A step of the run, once its files are reloaded.
RunStep ==
    /\ boot = {} /\ Next
    /\ left' = [f \in Name |-> IF disk'[f] # disk[f] /\ disk'[f].vl
                               THEN HorizonEnd(f) - sim_time ELSE left[f]]
    /\ UNCHANGED <<run, boot>>

NextRestart == Restart \/ RunStep \/ \E f \in Name : Reload(f)
SpecRestart == InitRestart /\ [][NextRestart]_<<vars, restart>>

----------------------------------------------------------------------------
\* engine.rs:695: the sidecar keeps creation_time so that a form is reloaded
\* with its absolute horizon intact (FORMAL 4.1: counted from the creation):
\* a form just reloaded has no more time left than when it was persisted.
HorizonIntact ==
    boot # {} => \A f \in active : HorizonEnd(f) - sim_time <= left[f]
=============================================================================
