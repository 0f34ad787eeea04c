------------------------------- MODULE Engine -------------------------------
(***************************************************************************)
(* The tick engine of vbl-runtime: forms, their deadlines and the run loop *)
(* (engine.rs, scheduler.rs, form.rs, main_interp.rs).                     *)
(*                                                                         *)
(* The engine is one thread.  A tick is cut into the steps of its loop so  *)
(* that every early return and `continue` of the code is a transition:     *)
(*                                                                         *)
(*   idle -> main -> visit -> rules -> actions -> ... -> deadlines ->      *)
(*   horizon -> visit -> ... -> idle                                       *)
(*                                                                         *)
(* Time is an integer number of seconds (the code uses f64).  The heap is  *)
(* a set of entries: the engine only asks whether a form has some due      *)
(* entry of a kind and with which version, never how many.                 *)
(***************************************************************************)
EXTENDS Integers, Sequences, FiniteSets

CONSTANTS
    Name,         \* names a program may declare
    Conj,         \* [Name -> Conjugation]: the declared conjugation
    Horizon,      \* [Name -> Nat]: declared horizon in seconds
    Deadline,     \* [Name -> Nat]: maintenance_deadline (used for nonequilibrium)
    Rules,        \* [Name -> Seq(Seq(ActionKind))]: action lists of the review
    Blocks,       \* Seq([period, keeps]): the `every` blocks of main
    TickSeconds,  \* virtual duration of a tick
    Total,        \* number of ticks run_loop executes
    LoadUntil     \* bound: declarations are registered while clock <= LoadUntil

Conjugation == {"event", "equilibrium", "nonequilibrium"}
ActionKind == {"dissolve", "subvert", "reclassify_eq", "reclassify_neq",
               "notify_shutdown", "act"}
EndKind == {"dissolve_rule", "dissolve_subvert", "dissolve_horizon",
            "collapse_maintenance"}
DeadlineKind == {"Horizon", "Maintenance"}

ASSUME EngineAssumption ==
    /\ Conj \in [Name -> Conjugation]
    /\ Horizon \in [Name -> Nat]
    /\ Deadline \in [Name -> Nat]
    /\ Rules \in [Name -> Seq(Seq(ActionKind))]
    /\ Blocks \in Seq([period : Nat, keeps : SUBSET Name])
    /\ TickSeconds \in Nat \ {0}
    /\ Total \in Nat
    /\ LoadUntil \in Nat

VARIABLES
    sim_time,   \* virtual clock in seconds
    clock,      \* ticks executed
    forms,      \* the Form records, meaningful for the active names
    active,     \* keys of the map `forms`
    order,      \* declaration order, iterated by the tick
    heap,       \* the scheduler: pending deadline entries
    due,        \* entries drained for this tick, not yet consumed
    labor,      \* names with labour structures in the retention book
    disk,       \* per name: is the .vl there, and the sidecar's creation time
    next_due,   \* per block of main: when it runs next
    pc, b, i, r, a, doomed,    \* control: block, form, rule and action indexes
    fired, executed, journal, visited, snapshot   \* history of the current tick

control == <<pc, b, i, r, a, doomed>>
history == <<fired, executed, journal, visited, snapshot>>
time == <<sim_time, clock, next_due>>
vars == <<time, forms, active, order, heap, due, labor, disk, control, history>>

NoSidecar == -1
Blank == [conj |-> "event", created |-> 0, last |-> 0, hver |-> 0, mver |-> 0,
          subverted |-> FALSE, declared |-> FALSE]

----------------------------------------------------------------------------
(* Forms and their deadlines.                                              *)

HorizonEnd(f) == forms[f].created + Horizon[f]
HorizonExhaustedStrict(f) == sim_time - forms[f].created > Horizon[f]    \* mutant
HorizonRenewed(f) == sim_time - forms[f].last >= Horizon[f]              \* mutant
HorizonExhausted(f) == sim_time - forms[f].created >= Horizon[f]
MaintenanceDue(f) == sim_time - forms[f].last > Deadline[f]

\* Rules and the declared deadline come with the program, not with a .vl.
RulesOf(f) == IF forms[f].declared THEN Rules[f] ELSE <<>>
DeadlineOptional(f) == forms[f].declared                                 \* mutant
HasDeadline(f) == forms[f].declared /\ Conj[f] = "nonequilibrium"
IsNeq(f) == forms[f].conj = "nonequilibrium"

Entry(f, kind, at, version) ==
    [form |-> f, deadline |-> kind, at |-> at, version |-> version]
MaintenanceEntryLate(f, form) ==                                         \* mutant
    Entry(f, "Maintenance", form.last + Deadline[f] + TickSeconds, form.mver)
MaintenanceEntry(f, form) ==
    Entry(f, "Maintenance", form.last + Deadline[f], form.mver)
BindEntries(f, form) ==
    {Entry(f, "Horizon", form.created + Horizon[f], form.hver)}
        \cup (IF form.conj = "nonequilibrium" THEN {MaintenanceEntry(f, form)} ELSE {})

DueOf(f) == {e \in due : e.form = f}
DueNow(f, kind) == \E e \in DueOf(f) : e.deadline = kind
\* The due entries of the live version: the others are obsolete and dropped.
LiveDue(f, kind, version) ==
    {e \in DueOf(f) : e.deadline = kind /\ e.version = version}
PostponeNone(E) == {}                                                    \* mutant
Postpone(E) == {[e EXCEPT !.at = sim_time + TickSeconds] : e \in E}

\* Scheduler::remove_form
RemoveFormHorizon(f) == {e \in heap : e.form # f \/ e.deadline # "Horizon"} \* mutant
RemoveForm(f) == {e \in heap : e.form # f}

\* order.retain(|n| n != f), f occurring once.
WithoutBySwap(s, f) ==                                                   \* mutant
    [k \in 1 .. Len(s) - 1 |-> IF s[k] = f THEN s[Len(s)] ELSE s[k]]
Without(s, f) ==
    LET p == CHOOSE k \in DOMAIN s : s[k] = f
    IN  [k \in 1 .. Len(s) - 1 |-> IF k < p THEN s[k] ELSE s[k + 1]]

BindPushes(f, form) ==                                                   \* mutant
    /\ forms' = [forms EXCEPT ![f] = form]
    /\ active' = active \cup {f}
    /\ order' = Append(order, f)
    /\ labor' = IF form.conj = "nonequilibrium" THEN labor \cup {f} ELSE labor \ {f}
\* Engine::bind, but for the heap, to which its callers add BindEntries.
Bind(f, form) ==
    /\ forms' = [forms EXCEPT ![f] = form]
    /\ active' = active \cup {f}
    /\ order' = IF f \in active THEN order ELSE Append(order, f)
    /\ labor' = IF form.conj = "nonequilibrium" THEN labor \cup {f} ELSE labor \ {f}

----------------------------------------------------------------------------
(* Loading a program and the run loop.                                     *)

Init ==
    /\ sim_time = 0 /\ clock = 0
    /\ next_due = [k \in DOMAIN Blocks |-> Blocks[k].period]
    /\ forms = [f \in Name |-> Blank]
    /\ active = {} /\ order = <<>> /\ heap = {} /\ due = {} /\ labor = {}
    /\ disk = [f \in Name |-> [vl |-> FALSE, sidecar |-> NoSidecar]]
    /\ pc = "idle" /\ b = 1 /\ i = 1 /\ r = 1 /\ a = 1 /\ doomed = FALSE
    /\ fired = {} /\ executed = {} /\ journal = {}
    /\ visited = <<>> /\ snapshot = <<>>

\* A declaration of f is registered (over an active form of that name too).
Register(f) ==
    /\ pc = "idle" /\ clock <= LoadUntil
    /\ LET form == [conj |-> Conj[f], created |-> sim_time, last |-> sim_time,
                    hver |-> 1, subverted |-> FALSE, declared |-> TRUE,
                    mver |-> IF Conj[f] = "nonequilibrium" THEN 1 ELSE 0]
       IN  Bind(f, form) /\ heap' = heap \cup BindEntries(f, form)
    /\ UNCHANGED <<time, due, disk, control, history>>

\* run_loop starts an iteration: main first, then the tick.
StartIteration ==
    /\ pc = "idle" /\ clock < Total
    /\ pc' = "main" /\ b' = 1
    /\ UNCHANGED <<time, forms, active, order, heap, due, labor, disk,
                   i, r, a, doomed, history>>

BlockDueLate(k) == sim_time > next_due[k]                                \* mutant
BlockDue(k) == sim_time >= next_due[k]

\* run_due executes block b if it is due: keep renews nonequilibrium forms
\* only; of an unknown or another form the keep is just recorded.
RunBlock ==
    /\ pc = "main" /\ b <= Len(Blocks)
    /\ b' = b + 1
    /\ IF BlockDue(b)
       THEN LET kept == {f \in Blocks[b].keeps \cap active : IsNeq(f)}
            IN  /\ forms' = [f \in Name |-> IF f \in kept
                                THEN [forms[f] EXCEPT !.last = sim_time, !.mver = @ + 1]
                                ELSE forms[f]]
                /\ heap' = heap \cup {MaintenanceEntry(f, forms'[f]) : f \in kept}
                /\ next_due' = [next_due EXCEPT ![b] = @ + Blocks[b].period]
       ELSE UNCHANGED <<forms, heap, next_due>>
    /\ UNCHANGED <<sim_time, clock, active, order, due, labor, disk,
                   pc, i, r, a, doomed, history>>

\* tick: the clock advances and the overdue entries leave the heap.
BeginTick ==
    /\ pc = "main" /\ b > Len(Blocks)
    /\ pc' = "visit" /\ i' = 1
    /\ clock' = clock + 1
    /\ sim_time' = sim_time + TickSeconds
    /\ due' = {e \in heap : e.at <= sim_time'}
    /\ heap' = heap \ due'
    /\ fired' = {} /\ executed' = {} /\ journal' = {}
    /\ visited' = <<>> /\ snapshot' = order
    /\ UNCHANGED <<next_due, forms, active, order, labor, disk, b, r, a, doomed>>

EndTick ==
    /\ pc = "visit" /\ i > Len(order)
    /\ pc' = "idle"
    /\ UNCHANGED <<time, forms, active, order, heap, due, labor, disk,
                   b, i, r, a, doomed, history>>

----------------------------------------------------------------------------
(* Leaving the body of the loop over `order`.  A form that ended shrinks   *)
(* `order` at the current index, so the index only moves past survivors.   *)

Current == order[i]

ShortCircuit(f) ==
    IF pc = "actions" /\ r < Len(RulesOf(f)) THEN {<<f, "review_short_circuit">>} ELSE {}

\* dissolve_form(f, end), then `continue` without advancing the index.
DissolveForm(f, end) ==
    /\ active' = active \ {f}
    /\ order' = Without(order, f)
    /\ forms' = [forms EXCEPT ![f] = Blank]
    /\ labor' = labor \ {f}
    /\ heap' = RemoveForm(f)
    /\ due' = due \ DueOf(f)
    /\ journal' = journal \cup {<<f, end>>} \cup ShortCircuit(f)
    /\ pc' = "visit"
    /\ UNCHANGED <<time, disk, b, i, r, a, doomed, visited, snapshot>>

\* The review stops at a rule that left the form alive: all its overdue
\* entries go back to the heap for the next tick, after the ones in `added`.
StopReview(f, added) ==
    /\ heap' = heap \cup added \cup Postpone(DueOf(f))
    /\ due' = due \ DueOf(f)
    /\ fired' = fired \cup {f}
    /\ journal' = journal \cup ShortCircuit(f)
    /\ pc' = "visit" /\ i' = i + 1
    /\ UNCHANGED <<time, b, r, a, doomed, visited, snapshot>>

----------------------------------------------------------------------------
(* The review of the current form.                                         *)

\* The form's share of the energy leak is recorded (`visited`); its
\* source_path reading only goes to the Caderno.
VisitForm ==
    /\ pc = "visit" /\ i <= Len(order)
    /\ pc' = "rules" /\ r' = 1
    /\ visited' = Append(visited, Current)
    /\ UNCHANGED <<time, forms, active, order, heap, due, labor, disk,
                   b, i, a, doomed, fired, executed, journal, snapshot>>

\* The rule's sensor fails (condition not evaluated) or its value does not
\* satisfy the condition: on to the next rule.
RuleDoesNotFire ==
    /\ pc = "rules" /\ r <= Len(RulesOf(Current))
    /\ r' = r + 1
    /\ UNCHANGED <<time, forms, active, order, heap, due, labor, disk,
                   pc, b, i, a, doomed, history>>

RuleFiresPastEnd ==                                                      \* mutant
    /\ pc = "rules" /\ r <= Len(RulesOf(Current)) + 1
    /\ pc' = "actions" /\ a' = 1 /\ doomed' = FALSE
    /\ UNCHANGED <<time, forms, active, order, heap, due, labor, disk,
                   b, i, r, history>>
RuleFires ==
    /\ pc = "rules" /\ r <= Len(RulesOf(Current))
    /\ pc' = "actions" /\ a' = 1 /\ doomed' = FALSE
    /\ UNCHANGED <<time, forms, active, order, heap, due, labor, disk,
                   b, i, r, history>>

AtAction(kind) ==
    /\ pc = "actions" /\ a <= Len(RulesOf(Current)[r])
    /\ RulesOf(Current)[r][a] = kind
    /\ executed' = executed \cup {<<Current, r, a>>}

Dissolve ==
    /\ AtAction("dissolve")
    /\ DissolveForm(Current, "dissolve_rule")
    /\ fired' = fired \cup {Current}

SubvertForgotten ==                                                      \* mutant
    /\ AtAction("subvert")
    /\ forms' = [forms EXCEPT ![Current].subverted = TRUE]
    /\ a' = a + 1
    /\ UNCHANGED <<time, active, order, heap, due, labor, disk,
                   pc, b, i, r, doomed, fired, journal, visited, snapshot>>
SubvertAtOnce ==                                                         \* mutant
    /\ AtAction("subvert")
    /\ DissolveForm(Current, "dissolve_subvert")
    /\ fired' = fired \cup {Current}
\* The value becomes the canonical poetic one; the form goes on to its other
\* actions and is dissolved at the end of the list.
Subvert ==
    /\ AtAction("subvert")
    /\ forms' = [forms EXCEPT ![Current].subverted = TRUE]
    /\ doomed' = TRUE /\ a' = a + 1
    /\ UNCHANGED <<time, active, order, heap, due, labor, disk,
                   pc, b, i, r, fired, journal, visited, snapshot>>

\* notify_shutdown is only recorded; act is handed to the FXP, whose outcome
\* is only recorded.
ActOrNotify ==
    /\ (AtAction("act") \/ AtAction("notify_shutdown"))
    /\ a' = a + 1
    /\ UNCHANGED <<time, forms, active, order, heap, due, labor, disk,
                   pc, b, i, r, doomed, fired, journal, visited, snapshot>>

\* persist: fs::write truncates before it writes, so a write that fails may
\* leave the old file or an unreadable one; the sidecar comes after the .vl
\* and its failure is ignored.
Persist(f) ==
    \/ \E sidecar \in {forms[f].created, disk[f].sidecar, NoSidecar} :
          disk' = [disk EXCEPT ![f] = [vl |-> TRUE, sidecar |-> sidecar]]
    \/ \E vl \in {disk[f].vl, FALSE} : disk' = [disk EXCEPT ![f].vl = vl]

\* reclassify_equilibrium; on an equilibrium form an audited no-op.  Either
\* way execute_actions returns at once, whatever follows in the list.
ReclassifyEquilibrium ==
    /\ AtAction("reclassify_eq")
    /\ IF forms[Current].conj = "equilibrium"
       THEN /\ StopReview(Current, {})
            /\ UNCHANGED <<forms, active, order, labor, disk>>
       ELSE LET form == [forms[Current] EXCEPT !.conj = "equilibrium", !.last = 0,
                                               !.mver = 0, !.hver = @ + 1]
            IN  /\ Bind(Current, form)
                /\ StopReview(Current, BindEntries(Current, form))
                /\ Persist(Current)

\* reclassify_nonequilibrium; refused when no deadline was declared.  The
\* last maintenance is taken back to the creation.
ReclassifyNonequilibrium ==
    /\ AtAction("reclassify_neq")
    /\ IF HasDeadline(Current)
       THEN LET form == [forms[Current] EXCEPT !.conj = "nonequilibrium",
                                               !.last = forms[Current].created,
                                               !.mver = @ + 1, !.hver = @ + 1]
            IN  /\ Bind(Current, form)
                /\ StopReview(Current, BindEntries(Current, form))
       ELSE /\ StopReview(Current, {})
            /\ UNCHANGED <<forms, active, order, labor>>
    /\ UNCHANGED disk

\* The action list is exhausted: a doomed form is dissolved, otherwise the
\* review goes on with the next rule.
EndRule ==
    /\ pc = "actions" /\ a > Len(RulesOf(Current)[r])
    /\ UNCHANGED executed
    /\ IF doomed
       THEN /\ DissolveForm(Current, "dissolve_subvert")
            /\ fired' = fired \cup {Current}
       ELSE /\ pc' = "rules" /\ r' = r + 1
            /\ UNCHANGED <<time, forms, active, order, heap, due, labor, disk,
                           b, i, a, doomed, fired, journal, visited, snapshot>>

----------------------------------------------------------------------------
(* Deadlines of a form whose review did not stop.                          *)

ReviewDone == pc = "rules" /\ r > Len(RulesOf(Current))

\* Rules keep a nonequilibrium form maintained.
ImplicitKeep ==
    /\ ReviewDone /\ IsNeq(Current) /\ RulesOf(Current) # <<>>
    /\ forms' = [forms EXCEPT ![Current].last = sim_time, ![Current].mver = @ + 1]
    /\ heap' = heap \cup {MaintenanceEntry(Current, forms'[Current])}
    /\ pc' = "horizon"
    /\ UNCHANGED <<time, active, order, due, labor, disk, b, i, r, a, doomed, history>>

\* Strictly overdue without maintenance: collapse.
Collapse ==
    /\ ReviewDone /\ IsNeq(Current) /\ RulesOf(Current) = <<>>
    /\ DueNow(Current, "Maintenance") /\ MaintenanceDue(Current)
    /\ DissolveForm(Current, "collapse_maintenance")
    /\ UNCHANGED <<fired, executed>>

\* The exact limit still sustains: the live entry is tried again next tick.
Sustain ==
    /\ ReviewDone
    /\ IF IsNeq(Current)
       THEN /\ RulesOf(Current) = <<>>
            /\ ~(DueNow(Current, "Maintenance") /\ MaintenanceDue(Current))
            /\ heap' = heap \cup Postpone(LiveDue(Current, "Maintenance", forms[Current].mver))
       ELSE UNCHANGED heap
    /\ pc' = "horizon"
    /\ UNCHANGED <<time, forms, active, order, due, labor, disk,
                   b, i, r, a, doomed, history>>

DissolveHorizon ==
    /\ pc = "horizon"
    /\ DueNow(Current, "Horizon") /\ HorizonExhausted(Current)
    /\ DissolveForm(Current, "dissolve_horizon")
    /\ UNCHANGED <<fired, executed>>

SurviveTick ==
    /\ pc = "horizon"
    /\ ~(DueNow(Current, "Horizon") /\ HorizonExhausted(Current))
    /\ heap' = heap \cup Postpone(LiveDue(Current, "Horizon", forms[Current].hver))
    /\ due' = due \ DueOf(Current)
    /\ pc' = "visit" /\ i' = i + 1
    /\ UNCHANGED <<time, forms, active, order, labor, disk, b, r, a, doomed, history>>

----------------------------------------------------------------------------
Loop ==
    \/ StartIteration \/ RunBlock \/ BeginTick \/ EndTick
    \/ VisitForm \/ RuleDoesNotFire \/ RuleFires
    \/ Dissolve \/ Subvert \/ ActOrNotify
    \/ ReclassifyEquilibrium \/ ReclassifyNonequilibrium \/ EndRule
    \/ ImplicitKeep \/ Collapse \/ Sustain \/ DissolveHorizon \/ SurviveTick

Next == Loop \/ \E f \in Name : Register(f)

Spec == Init /\ [][Next]_vars

\* run_loop never pauses between steps until its last tick.
FairSpec == Spec /\ WF_vars(Loop)

----------------------------------------------------------------------------
(* What the engine promises.                                               *)

FormRecord ==
    [conj : Conjugation, created : Nat, last : Nat, hver : Nat, mver : Nat,
     subverted : BOOLEAN, declared : BOOLEAN]
EntryRecord ==
    [form : Name, deadline : DeadlineKind, at : Nat, version : Nat]

InForm == pc \in {"rules", "actions", "horizon"}
InReview == pc \in {"rules", "actions"}

\* The indexes of the loops stay inside the lists they run over; the rest is
\* the type of each variable (Engine, Form and Scheduler structs).
IndexesInside ==
    /\ InForm => i <= Len(order)
    /\ pc = "actions" => r <= Len(RulesOf(Current))
ControlTypes ==
    /\ pc \in {"idle", "main", "visit", "rules", "actions", "horizon"}
    /\ b \in Nat \ {0} /\ i \in Nat \ {0} /\ r \in Nat \ {0} /\ a \in Nat \ {0}
    /\ doomed \in BOOLEAN
TypeOK ==
    /\ sim_time \in Nat /\ clock \in Nat
    /\ next_due \in [DOMAIN Blocks -> Nat]
    /\ forms \in [Name -> FormRecord]
    /\ active \in SUBSET Name /\ order \in Seq(Name) /\ labor \in SUBSET Name
    /\ heap \in SUBSET EntryRecord /\ due \in SUBSET EntryRecord
    /\ disk \in [Name -> [vl : BOOLEAN, sidecar : Nat \cup {NoSidecar}]]
    /\ fired \in SUBSET Name
    /\ visited \in Seq(Name) /\ snapshot \in Seq(Name)
    /\ ControlTypes /\ IndexesInside

\* bind and dissolve_form keep the books of a form together: `order` lists
\* each key of `forms` once ("sempre os MESMOS nomes", engine.rs:158), labour
\* is retained for the active nonequilibrium forms alone, and no entry of a
\* dissolved form stays in the heap ("nada de lixo de prazos orfaos").
NamesAgree ==
    /\ \A f \in active : \E k \in DOMAIN order : order[k] = f
    /\ \A k \in DOMAIN order : order[k] \in active
    /\ \A k, l \in DOMAIN order : order[k] = order[l] => k = l
NoOrphans == \A e \in heap \cup due : e.form \in active
LaborAgrees == labor = {f \in active : IsNeq(f)}
BooksAgree == NamesAgree /\ NoOrphans /\ LaborAgrees

\* A live entry of the heap makes form f looked at by the tick in which its
\* deadline `limit` passes, or by the next one.
Covered(E, f, kind, version, limit) ==
    \E e \in E : /\ e.form = f /\ e.deadline = kind /\ e.version = version
               /\ (e.at <= limit \/ e.at <= sim_time + TickSeconds)
Unreviewed(f) == IsNeq(f) /\ RulesOf(f) = <<>>

\* "o heap nunca perde um prazo" (scheduler.rs:10): between ticks every form
\* has a live horizon entry, and a nonequilibrium form without rules a live
\* maintenance entry, through keeps, reclassifications and postponements.
NoLostDeadline ==
    pc = "idle" => \A f \in active :
        /\ Covered(heap, f, "Horizon", forms[f].hver, HorizonEnd(f))
        /\ Unreviewed(f) =>
              Covered(heap, f, "Maintenance", forms[f].mver, forms[f].last + Deadline[f])

\* A form outlives its horizon only through ticks in which its review
\* stopped early (engine.rs:352, the deadlines are then skipped).
HorizonPrompt ==
    pc = "idle" => \A f \in active :
        sim_time >= HorizonEnd(f) => f \in fired \/ forms[f].created = sim_time

\* A nonequilibrium form without rules collapses at the first tick strictly
\* beyond its maintenance deadline: none is found overdue between ticks.
CollapsePrompt ==
    pc = "idle" => \A f \in active : Unreviewed(f) => sim_time <= forms[f].last + Deadline[f]

\* The index loop of tick visits each form that was active at its start
\* exactly once and in order, dissolutions notwithstanding; so the shares P/N
\* of the energy leak, N taken at the start, add up to P.
EveryFormOncePerTick ==
    (pc = "idle" /\ clock > 0) => visited = snapshot

\* Of the forms subverted in a tick only those survive it that a later action
\* of the same list, once carried out, reclassified; it returns before the
\* dissolution.
OnlyReclassifySaves ==
    pc = "idle" => \A e \in executed :
        (/\ e[1] \in active /\ forms[e[1]].subverted
         /\ Rules[e[1]][e[2]][e[3]] = "subvert")
            => \E n \in DOMAIN Rules[e[1]][e[2]] :
                  /\ n > e[3] /\ <<e[1], e[2], n>> \in executed
                  /\ Rules[e[1]][e[2]][n] \in {"reclassify_eq", "reclassify_neq"}

\* FORMAL 4.5(3): before a subverted form is dissolved, every action of the
\* rule that subverted it was carried out; and no rule after it.
SubvertRunsItsRule ==
    \A f \in Name : <<f, "dissolve_subvert">> \in journal =>
        \E k \in DOMAIN Rules[f] :
            /\ \E n \in DOMAIN Rules[f][k] : Rules[f][k][n] = "subvert"
            /\ \A n \in DOMAIN Rules[f][k] : <<f, k, n>> \in executed
            /\ \A e \in executed : e[1] = f => e[2] <= k

\* FORMAL 4.5 as far as the code goes: subversion is the end of a form, after
\* the whole rule, unless a reclassification of the same list saves it.
SubvertAsWritten == OnlyReclassifySaves /\ SubvertRunsItsRule

\* A form that a block of main keeps often enough on the grid of ticks never
\* collapses, although next_due advances by the period and not from now.  A
\* block runs once a tick at most, whatever its period.
OnGrid(period) ==
    TickSeconds * (IF period = 0 THEN 1 ELSE (period + TickSeconds - 1) \div TickSeconds)
KeptFormsSurvive ==
    \A f \in Name :
        (\E k \in DOMAIN Blocks : f \in Blocks[k].keeps /\ OnGrid(Blocks[k].period) <= Deadline[f])
            => <<f, "collapse_maintenance">> \notin journal

\* FORMAL 4.1: seen from outside, the engine moves forms along the matrix of
\* legal transitions only (event is never reentered, and never becomes
\* nonequilibrium), and reclassification does not renew the horizon.
Life == INSTANCE FormLife WITH
    state <- [f \in Name |-> IF f \in active THEN forms[f].conj ELSE "none"],
    born <- [f \in Name |-> IF f \in active THEN forms[f].created ELSE 0],
    now <- sim_time
ImplementsLife == Life!Spec

\* Lei 1: every form that is registered is dissolved in the end.
Finitude == \A f \in Name : f \in active ~> f \notin active
=============================================================================
