-------------------------- MODULE EngineInvariant --------------------------
(***************************************************************************)
(* The inductive invariants of Engine: where, in the middle of a tick, the *)
(* live deadline entries of each form are, which forms and actions the     *)
(* tick is through with, and how long ago main kept a form.                *)
(***************************************************************************)
EXTENDS Engine

Live(e, f, kind, version) ==
    e.form = f /\ e.deadline = kind /\ e.version = version

\* The tick has not finished with form f.
InTick == pc \in {"visit", "rules", "actions", "horizon"}
Pending(f) == InTick /\ \E k \in DOMAIN order : k >= i /\ order[k] = f

\* The maintenance of f is still to be checked in this tick.
MaintenancePending(f) == Pending(f) /\ ~(pc = "horizon" /\ Current = f)

\* Before the check of a deadline, its live entry was drained for this tick
\* or waits in the heap for an instant still to come.
Drained(f, kind, version) == \E e \in due : Live(e, f, kind, version)
Ahead(f, kind, version, limit) ==
    sim_time < limit /\ \E e \in heap : Live(e, f, kind, version) /\ e.at <= limit

HorizonToCheck(f) ==
    \/ Drained(f, "Horizon", forms[f].hver)
    \/ Ahead(f, "Horizon", forms[f].hver, HorizonEnd(f))
HorizonChecked(f) ==
    /\ Covered(heap, f, "Horizon", forms[f].hver, HorizonEnd(f))
    /\ sim_time < HorizonEnd(f) \/ f \in fired \/ forms[f].created = sim_time
HorizonTrack(f) == IF Pending(f) THEN HorizonToCheck(f) ELSE HorizonChecked(f)
HorizonTracked == \A f \in active : HorizonTrack(f)

MaintenanceEnd(f) == forms[f].last + Deadline[f]
MaintenanceToCheck(f) ==
    \/ Drained(f, "Maintenance", forms[f].mver)
    \/ Ahead(f, "Maintenance", forms[f].mver, MaintenanceEnd(f))
MaintenanceChecked(f) ==
    /\ Covered(heap, f, "Maintenance", forms[f].mver, MaintenanceEnd(f))
    /\ sim_time <= MaintenanceEnd(f)
MaintenanceTrack(f) ==
    Unreviewed(f) =>
        IF MaintenancePending(f) THEN MaintenanceToCheck(f) ELSE MaintenanceChecked(f)
MaintenanceTracked == \A f \in active : MaintenanceTrack(f)

\* The inductive invariant: types and books, and the place of each deadline.
IInv == TypeOK /\ BooksAgree /\ HorizonTracked /\ MaintenanceTracked

----------------------------------------------------------------------------
(* The loop over `order`: which forms are still to visit, and what became  *)
(* of the actions carried out.                                             *)

\* The first index of `order` the tick has not visited.
Rest == IF pc = "visit" THEN i ELSE i + 1

\* The forms of the start of the tick are the visited ones, then the rest.
VisitsSoFar ==
    /\ Rest <= Len(order) + 1
    /\ Len(snapshot) = Len(visited) + (Len(order) + 1 - Rest)
    /\ \A k \in DOMAIN visited : snapshot[k] = visited[k]
    /\ \A k \in Rest .. Len(order) : snapshot[Len(visited) + 1 + k - Rest] = order[k]
VisitTracked ==
    /\ InTick => VisitsSoFar
    /\ pc = "idle" /\ clock > 0 => visited = snapshot

\* An action carried out belongs to a visited form, and if that form is under
\* review, to a rule or an action before the current one.
Behind(e) ==
    /\ \A k \in Rest .. Len(order) : order[k] # e[1]
    /\ InReview /\ e[1] = Current =>
          e[2] < r \/ (pc = "actions" /\ e[2] = r /\ e[3] < a)
\* The current list, of which all actions before `a` were carried out.
ListTracked ==
    /\ \A n \in 1 .. a - 1 : <<Current, r, n>> \in executed
    /\ doomed => \E n \in DOMAIN Rules[Current][r] : Rules[Current][r][n] = "subvert"
ExecutedTracked ==
    /\ executed \in SUBSET (Name \X Nat \X Nat)
    /\ InTick => \A e \in executed : Behind(e)
    /\ pc = "actions" => ListTracked

\* A subverted form is doomed, or was reclassified by the same list.  Between
\* ticks it may be declared anew, and is then not subverted any more.
Subverted(e) ==
    /\ e[1] \in active /\ (InTick \/ forms[e[1]].subverted)
    /\ Rules[e[1]][e[2]][e[3]] = "subvert"
Reclassified(e) ==
    \E n \in DOMAIN Rules[e[1]][e[2]] :
        /\ n > e[3] /\ <<e[1], e[2], n>> \in executed
        /\ Rules[e[1]][e[2]][n] \in {"reclassify_eq", "reclassify_neq"}
Doomed(e) == pc = "actions" /\ doomed /\ e[1] = Current /\ e[2] = r
SubvertsTracked ==
    /\ \A e \in executed : Subverted(e) => Reclassified(e) \/ Doomed(e)
    /\ SubvertRunsItsRule
    /\ InTick => \A f \in Name : <<f, "dissolve_subvert">> \in journal => f \notin active

RInv == VisitTracked /\ ExecutedTracked /\ SubvertsTracked

\* A form without rules that block k of main keeps is kept again when the
\* block's time comes, which is never more than a period away; behind main,
\* the block has run at this instant or has time left.
KeepsOften(k, f) == f \in Blocks[k].keeps /\ OnGrid(Blocks[k].period) <= Deadline[f]
KeptInTime(k, f) ==
    /\ next_due[k] <= forms[f].last + Blocks[k].period
    /\ pc = "main" /\ k < b => sim_time < next_due[k] \/ forms[f].last = sim_time
    /\ InTick => \/ sim_time - TickSeconds < next_due[k]
                 \/ forms[f].last >= sim_time - TickSeconds
KInv ==
    /\ \E n \in Nat : sim_time = n * TickSeconds
    /\ \A k \in DOMAIN Blocks : next_due[k] <= sim_time + Blocks[k].period
    /\ \A f \in active : forms[f].declared
    /\ \A f \in active : IsNeq(f) /\ Rules[f] = <<>> =>
          /\ \E n \in Nat : forms[f].last = n * TickSeconds
          /\ \A k \in DOMAIN Blocks : f \in Blocks[k].keeps => KeptInTime(k, f)
    /\ KeptFormsSurvive
=============================================================================
