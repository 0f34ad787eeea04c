--------------------------- MODULE EngineProofs ----------------------------
(***************************************************************************)
(* Engine for every program: its types, that `order`, `forms`, the labour  *)
(* book and the scheduler speak of the same forms, that it implements      *)
(* FormLife, and that a tick reviews each form once and subverts as        *)
(* written.                                                                *)
(***************************************************************************)
EXTENDS EngineInvariant, TLAPS

(***************************************************************************)
(* Lemmas about the operators.                                             *)
(***************************************************************************)

\* Removing the one occurrence of f shifts the elements after it by one.
LEMMA WithoutProperties ==
    ASSUME NEW S, NEW s \in Seq(S), NEW p \in DOMAIN s,
           \A k \in DOMAIN s : s[k] = s[p] => k = p
    PROVE  /\ Without(s, s[p]) \in Seq(S)
           /\ Len(Without(s, s[p])) = Len(s) - 1
           /\ \A k \in 1 .. Len(s) - 1 :
                Without(s, s[p])[k] = IF k < p THEN s[k] ELSE s[k + 1]
<1> DEFINE q == CHOOSE k \in DOMAIN s : s[k] = s[p]
           t == [k \in 1 .. Len(s) - 1 |-> IF k < q THEN s[k] ELSE s[k + 1]]
<1>1. q = p
  OBVIOUS
<1>2. t \in [1 .. Len(s) - 1 -> S] /\ Len(s) - 1 \in Nat
  BY <1>1
<1>3. t \in Seq(S) /\ Len(t) = Len(s) - 1
  BY <1>2
<1>4. QED
  BY <1>1, <1>3 DEF Without

\* Whichever occurrence it removes, Without leaves a sequence over S.
LEMMA WithoutType ==
    ASSUME NEW S, NEW s \in Seq(S), NEW p \in DOMAIN s
    PROVE  Without(s, s[p]) \in Seq(S)
<1> DEFINE q == CHOOSE k \in DOMAIN s : s[k] = s[p]
           t == [k \in 1 .. Len(s) - 1 |-> IF k < q THEN s[k] ELSE s[k + 1]]
<1>1. q \in DOMAIN s
  OBVIOUS
<1>2. t \in [1 .. Len(s) - 1 -> S] /\ Len(s) - 1 \in Nat
  BY <1>1
<1>3. t \in Seq(S)
  BY <1>2
<1>4. QED
  BY <1>3 DEF Without

(***************************************************************************)
(* Types.  A step that ends the body of the loop, then one per action.     *)
(***************************************************************************)

USE DEF Conjugation, EndKind, DeadlineKind, NoSidecar

LEMMA ConstantTypes ==
    /\ Conj \in [Name -> Conjugation] /\ Horizon \in [Name -> Nat]
    /\ Deadline \in [Name -> Nat] /\ TickSeconds \in Nat \ {0}
    /\ Len(Blocks) \in Nat
    /\ \A k \in DOMAIN Blocks : Blocks[k].period \in Nat /\ Blocks[k].keeps \in SUBSET Name
    /\ DOMAIN Blocks = 1 .. Len(Blocks)
<1> DEFINE B == [period : Nat, keeps : SUBSET Name]
<1>1. Blocks \in Seq(B)
  BY EngineAssumption DEF EngineAssumption
<1>2. \A k \in DOMAIN Blocks : Blocks[k] \in B
  <2> HIDE DEF B
  <2> QED BY <1>1
<1>3. Len(Blocks) \in Nat /\ DOMAIN Blocks = 1 .. Len(Blocks)
  <2> HIDE DEF B
  <2> QED BY <1>1
<1>4. \A k \in DOMAIN Blocks : Blocks[k].period \in Nat /\ Blocks[k].keeps \in SUBSET Name
  BY <1>2
<1>5. QED
  BY <1>3, <1>4, EngineAssumption DEF EngineAssumption

LEMMA CurrentType ==
    ASSUME TypeOK, InForm
    PROVE  Current \in Name /\ i \in DOMAIN order
BY DEF TypeOK, ControlTypes, IndexesInside, InForm, Current

LEMMA BindEntriesType ==
    ASSUME NEW f \in Name, NEW form \in FormRecord
    PROVE  BindEntries(f, form) \in SUBSET EntryRecord
<1>1. form.created + Horizon[f] \in Nat /\ form.last + Deadline[f] \in Nat
  BY ConstantTypes DEF FormRecord
<1>2. form.hver \in Nat /\ form.mver \in Nat
  BY DEF FormRecord
<1>3. Entry(f, "Horizon", form.created + Horizon[f], form.hver) \in EntryRecord
  BY <1>1, <1>2 DEF Entry, EntryRecord
<1>4. MaintenanceEntry(f, form) \in EntryRecord
  BY <1>1, <1>2 DEF MaintenanceEntry, Entry, EntryRecord
<1>5. QED
  BY <1>3, <1>4 DEF BindEntries

LEMMA PostponeType ==
    ASSUME TypeOK, NEW E \in SUBSET due
    PROVE  Postpone(E) \in SUBSET EntryRecord
<1>1. sim_time + TickSeconds \in Nat
  BY ConstantTypes DEF TypeOK, ControlTypes, IndexesInside
<1>2. ASSUME NEW e \in E
      PROVE  [e EXCEPT !.at = sim_time + TickSeconds] \in EntryRecord
  <2>1. e \in EntryRecord
    BY DEF TypeOK, ControlTypes, IndexesInside
  <2>2. QED
    BY <1>1, <2>1 DEF EntryRecord
<1>3. QED
  BY <1>2 DEF Postpone

LEMMA BlankType == Blank \in FormRecord
BY DEF Blank, FormRecord

\* The updates of a Form by keep, subvert and the two reclassifications.
LEMMA FormUpdates ==
    ASSUME NEW form \in FormRecord, NEW t \in Nat
    PROVE  /\ [form EXCEPT !.last = t, !.mver = @ + 1] \in FormRecord
           /\ [form EXCEPT !.subverted = TRUE] \in FormRecord
           /\ [form EXCEPT !.conj = "equilibrium", !.last = 0,
                           !.mver = 0, !.hver = @ + 1] \in FormRecord
           /\ [form EXCEPT !.conj = "nonequilibrium", !.last = t,
                           !.mver = @ + 1, !.hver = @ + 1] \in FormRecord
<1>1. form.mver + 1 \in Nat /\ form.hver + 1 \in Nat
  BY DEF FormRecord
<1>2. \A m \in Nat : [form EXCEPT !.last = t, !.mver = m] \in FormRecord
  BY DEF FormRecord
<1>3. [form EXCEPT !.last = t, !.mver = @ + 1] = [form EXCEPT !.last = t, !.mver = form.mver + 1]
  OBVIOUS
<1>4. [form EXCEPT !.subverted = TRUE] \in FormRecord
  BY DEF FormRecord
<1>5. \A h \in Nat : [form EXCEPT !.conj = "equilibrium", !.last = 0,
                                  !.mver = 0, !.hver = h] \in FormRecord
  BY DEF FormRecord
<1>6. [form EXCEPT !.conj = "equilibrium", !.last = 0, !.mver = 0, !.hver = @ + 1]
        = [form EXCEPT !.conj = "equilibrium", !.last = 0, !.mver = 0, !.hver = form.hver + 1]
  OBVIOUS
<1>7. \A m, h \in Nat : [form EXCEPT !.conj = "nonequilibrium", !.last = t,
                                     !.mver = m, !.hver = h] \in FormRecord
  BY DEF FormRecord
<1>8. [form EXCEPT !.conj = "nonequilibrium", !.last = t, !.mver = @ + 1, !.hver = @ + 1]
        = [form EXCEPT !.conj = "nonequilibrium", !.last = t,
                       !.mver = form.mver + 1, !.hver = form.hver + 1]
  OBVIOUS
<1>9. QED
  BY <1>1, <1>2, <1>3, <1>4, <1>5, <1>6, <1>7, <1>8, Zenon

LEMMA MaintenanceEntryType ==
    ASSUME NEW f \in Name, NEW form \in FormRecord
    PROVE  MaintenanceEntry(f, form) \in EntryRecord
<1>1. form.last + Deadline[f] \in Nat /\ form.mver \in Nat
  BY ConstantTypes DEF FormRecord
<1>2. QED
  BY <1>1 DEF MaintenanceEntry, Entry, EntryRecord

LEMMA DissolveFormType ==
    ASSUME TypeOK, InForm, NEW end, DissolveForm(Current, end),
           fired' \in SUBSET Name
    PROVE  TypeOK'
<1>1. Current \in Name /\ i \in DOMAIN order /\ order \in Seq(Name)
  BY CurrentType DEF TypeOK, ControlTypes, IndexesInside
<1>2. order' \in Seq(Name)
  BY <1>1, WithoutType DEF DissolveForm, Current
<1>3. forms' \in [Name -> FormRecord]
  BY <1>1, BlankType DEF TypeOK, ControlTypes, IndexesInside, DissolveForm
<1>4. QED
  BY <1>2, <1>3 DEF TypeOK, ControlTypes, IndexesInside, DissolveForm, RemoveForm, DueOf, InForm, time

LEMMA StopReviewType ==
    ASSUME TypeOK, InForm, NEW added \in SUBSET EntryRecord,
           StopReview(Current, added),
           forms' \in [Name -> FormRecord], active' \in SUBSET Name,
           order' \in Seq(Name), labor' \in SUBSET Name,
           disk' \in [Name -> [vl : BOOLEAN, sidecar : Nat \cup {NoSidecar}]]
    PROVE  TypeOK'
<1>1. DueOf(Current) \in SUBSET due
  BY DEF DueOf
<1>2. heap' \in SUBSET EntryRecord
  BY <1>1, PostponeType DEF StopReview, TypeOK, ControlTypes, IndexesInside
<1>3. due' \in SUBSET EntryRecord /\ fired' \in SUBSET Name
  BY CurrentType DEF StopReview, TypeOK, ControlTypes, IndexesInside
<1>4. QED
  BY <1>2, <1>3 DEF TypeOK, ControlTypes, IndexesInside, StopReview, InForm, time

LEMMA BindType ==
    ASSUME TypeOK, NEW f \in Name, NEW form \in FormRecord, Bind(f, form)
    PROVE  /\ forms' \in [Name -> FormRecord] /\ active' \in SUBSET Name
           /\ order' \in Seq(Name) /\ labor' \in SUBSET Name
BY DEF TypeOK, ControlTypes, IndexesInside, Bind

LEMMA InitType == Init => TypeOK
<1> SUFFICES ASSUME Init PROVE TypeOK
  OBVIOUS
<1>1. next_due \in [DOMAIN Blocks -> Nat]
  BY ConstantTypes DEF Init
<1>2. forms \in [Name -> FormRecord]
  BY BlankType DEF Init
<1>3. disk \in [Name -> [vl : BOOLEAN, sidecar : Nat \cup {NoSidecar}]]
  BY DEF Init
<1>4. /\ order \in Seq(Name) /\ visited \in Seq(Name) /\ snapshot \in Seq(Name)
      /\ heap \in SUBSET EntryRecord /\ due \in SUBSET EntryRecord
      /\ active \in SUBSET Name /\ labor \in SUBSET Name /\ fired \in SUBSET Name
  BY DEF Init
<1>5. /\ sim_time = 0 /\ clock = 0 /\ pc = "idle"
      /\ b = 1 /\ i = 1 /\ r = 1 /\ a = 1
  BY DEF Init
<1>6. doomed \in BOOLEAN
  BY Zenon DEF Init
<1>7. /\ sim_time \in Nat /\ clock \in Nat
      /\ b \in Nat \ {0} /\ i \in Nat \ {0} /\ r \in Nat \ {0} /\ a \in Nat \ {0}
  BY <1>5
<1>8. ControlTypes /\ IndexesInside
  BY <1>5, <1>6, <1>7 DEF InForm, ControlTypes, IndexesInside
<1>9. QED
  BY <1>1, <1>2, <1>3, <1>4, <1>7, <1>8 DEF TypeOK

LEMMA RegisterType ==
    ASSUME TypeOK, NEW f \in Name, Register(f)
    PROVE  TypeOK'
<1> DEFINE form == [conj |-> Conj[f], created |-> sim_time, last |-> sim_time,
                    hver |-> 1, subverted |-> FALSE, declared |-> TRUE,
                    mver |-> IF Conj[f] = "nonequilibrium" THEN 1 ELSE 0]
<1>1. form \in FormRecord
  BY ConstantTypes DEF FormRecord, TypeOK, ControlTypes, IndexesInside
<1>2. Bind(f, form) /\ heap' = heap \cup BindEntries(f, form)
  BY DEF Register
<1> HIDE DEF form
<1>3. BindEntries(f, form) \in SUBSET EntryRecord
  BY <1>1, BindEntriesType
<1>4. /\ forms' \in [Name -> FormRecord] /\ active' \in SUBSET Name
      /\ order' \in Seq(Name) /\ labor' \in SUBSET Name
  BY <1>1, <1>2, BindType
<1>5. QED
  BY <1>2, <1>3, <1>4 DEF TypeOK, ControlTypes, IndexesInside, Register, time, control, history, InForm

LEMMA RunBlockType == ASSUME TypeOK, RunBlock PROVE TypeOK'
<1> DEFINE kept == {f \in Blocks[b].keeps \cap active : IsNeq(f)}
<1>0. /\ pc = "main" /\ pc' = pc /\ b' = b + 1 /\ b <= Len(Blocks)
      /\ UNCHANGED <<sim_time, clock, active, order, due, labor, disk,
                     i, r, a, doomed, fired, visited, snapshot>>
  BY DEF RunBlock, history
<1>1. CASE BlockDue(b)
  <2>1. forms' = [f \in Name |-> IF f \in kept
                      THEN [forms[f] EXCEPT !.last = sim_time, !.mver = @ + 1]
                      ELSE forms[f]]
    BY <1>1 DEF RunBlock
  <2>2. heap' = heap \cup {MaintenanceEntry(f, forms'[f]) : f \in kept}
    BY <1>1 DEF RunBlock
  <2>3. kept \in SUBSET Name
    BY DEF TypeOK, ControlTypes, IndexesInside
  <2> HIDE DEF kept
  <2>4. ASSUME NEW f \in Name
        PROVE  forms'[f] \in FormRecord
    <3>1. forms[f] \in FormRecord /\ sim_time \in Nat
      BY DEF TypeOK, ControlTypes, IndexesInside
    <3>2. QED
      BY <2>1, <3>1, FormUpdates
  <2>5. forms' \in [Name -> FormRecord]
    BY <2>1, <2>4
  <2>6. ASSUME NEW f \in Name
        PROVE  MaintenanceEntry(f, forms'[f]) \in EntryRecord
    BY <2>4, MaintenanceEntryType
  <2>7. heap' \in SUBSET EntryRecord
    <3>1. heap \in SUBSET EntryRecord
      BY DEF TypeOK, ControlTypes, IndexesInside
    <3>2. QED
      BY <2>2, <2>3, <2>6, <3>1
  <2>8. next_due' \in [DOMAIN Blocks -> Nat]
    <3>1. b \in DOMAIN Blocks /\ Blocks[b].period \in Nat
      <4>1. b \in Nat \ {0}
        BY DEF TypeOK, ControlTypes, IndexesInside
      <4>2. QED
        BY <1>0, <4>1, ConstantTypes
    <3>2. next_due' = [next_due EXCEPT ![b] = @ + Blocks[b].period]
      BY <1>1 DEF RunBlock
    <3>3. next_due \in [DOMAIN Blocks -> Nat]
      BY DEF TypeOK, ControlTypes, IndexesInside
    <3>4. QED
      BY <3>1, <3>2, <3>3
  <2>9. QED
    BY <1>0, <2>5, <2>7, <2>8 DEF TypeOK, ControlTypes, IndexesInside, InForm
<1>2. CASE ~BlockDue(b)
  <2>1. UNCHANGED <<forms, heap, next_due>>
    BY <1>2 DEF RunBlock
  <2>2. QED
    BY <1>0, <2>1 DEF TypeOK, ControlTypes, IndexesInside, InForm
<1>3. QED
  BY <1>1, <1>2

LEMMA BeginTickType == ASSUME TypeOK, BeginTick PROVE TypeOK'
<1>1. sim_time' \in Nat /\ clock' \in Nat
  BY ConstantTypes DEF TypeOK, ControlTypes, IndexesInside, BeginTick
<1>2. due' \in SUBSET EntryRecord /\ heap' \in SUBSET EntryRecord
  BY DEF TypeOK, ControlTypes, IndexesInside, BeginTick
<1>3. QED
  BY <1>1, <1>2 DEF TypeOK, ControlTypes, IndexesInside, BeginTick, InForm

LEMMA PersistType ==
    ASSUME TypeOK, NEW f \in Name, forms[f].created \in Nat, Persist(f)
    PROVE  disk' \in [Name -> [vl : BOOLEAN, sidecar : Nat \cup {NoSidecar}]]
<1> DEFINE D == [vl : BOOLEAN, sidecar : Nat \cup {NoSidecar}]
<1>1. disk \in [Name -> D] /\ disk[f] \in D
  BY DEF TypeOK
<1>2. ASSUME NEW s \in {forms[f].created, disk[f].sidecar, NoSidecar}
      PROVE  [vl |-> TRUE, sidecar |-> s] \in D
  BY <1>1
<1>3. ASSUME NEW v \in {disk[f].vl, FALSE}
      PROVE  [disk[f] EXCEPT !.vl = v] \in D
  BY <1>1
<1> HIDE DEF D
<1>4. disk' \in [Name -> D]
  BY <1>1, <1>2, <1>3 DEF Persist
<1>5. QED
  BY <1>4 DEF D

LEMMA ReclassifyType ==
    ASSUME TypeOK, ReclassifyEquilibrium \/ ReclassifyNonequilibrium
    PROVE  TypeOK'
<1>1. InForm /\ Current \in Name /\ pc = "actions"
  BY CurrentType DEF ReclassifyEquilibrium, ReclassifyNonequilibrium, AtAction, InForm
<1>2. forms[Current] \in FormRecord /\ forms[Current].created \in Nat
  BY <1>1 DEF TypeOK, ControlTypes, IndexesInside, FormRecord
<1>3. CASE StopReview(Current, {}) /\ UNCHANGED <<forms, active, order, labor, disk>>
  BY <1>1, <1>3, StopReviewType DEF TypeOK, ControlTypes, IndexesInside
<1>4. ASSUME NEW form \in FormRecord, Bind(Current, form),
             StopReview(Current, BindEntries(Current, form)),
             disk' \in [Name -> [vl : BOOLEAN, sidecar : Nat \cup {NoSidecar}]]
      PROVE  TypeOK'
  BY <1>1, <1>4, BindType, BindEntriesType, StopReviewType
<1>5. CASE ReclassifyEquilibrium /\ forms[Current].conj # "equilibrium"
  <2> DEFINE form == [forms[Current] EXCEPT !.conj = "equilibrium", !.last = 0,
                                            !.mver = 0, !.hver = @ + 1]
  <2>1. form \in FormRecord
    BY <1>2, FormUpdates
  <2>2. Persist(Current)
    BY <1>5 DEF ReclassifyEquilibrium
  <2>3. disk' \in [Name -> [vl : BOOLEAN, sidecar : Nat \cup {NoSidecar}]]
    BY <1>1, <1>2, <2>2, PersistType
  <2>4. Bind(Current, form) /\ StopReview(Current, BindEntries(Current, form))
    BY <1>5 DEF ReclassifyEquilibrium
  <2> HIDE DEF form
  <2>5. QED
    BY <1>4, <2>1, <2>3, <2>4
<1>6. CASE ReclassifyNonequilibrium /\ HasDeadline(Current)
  <2> DEFINE form == [forms[Current] EXCEPT !.conj = "nonequilibrium",
                                            !.last = forms[Current].created,
                                            !.mver = @ + 1, !.hver = @ + 1]
  <2>1. form \in FormRecord
    BY <1>2, FormUpdates
  <2>2. disk' \in [Name -> [vl : BOOLEAN, sidecar : Nat \cup {NoSidecar}]]
    BY <1>6 DEF ReclassifyNonequilibrium, TypeOK, ControlTypes, IndexesInside
  <2>3. Bind(Current, form) /\ StopReview(Current, BindEntries(Current, form))
    BY <1>6 DEF ReclassifyNonequilibrium
  <2> HIDE DEF form
  <2>4. QED
    BY <1>4, <2>1, <2>2, <2>3
<1>7. QED
  BY <1>3, <1>5, <1>6 DEF ReclassifyEquilibrium, ReclassifyNonequilibrium

LEMMA ImplicitKeepType == ASSUME TypeOK, ImplicitKeep PROVE TypeOK'
<1>1. InForm /\ Current \in Name
  BY CurrentType DEF ImplicitKeep, ReviewDone, InForm
<1>2. forms[Current] \in FormRecord /\ sim_time \in Nat
  BY <1>1 DEF TypeOK, ControlTypes, IndexesInside
<1>3. forms' = [forms EXCEPT ![Current] = [forms[Current] EXCEPT !.last = sim_time, !.mver = @ + 1]]
  BY DEF ImplicitKeep
<1>4. forms' \in [Name -> FormRecord] /\ forms'[Current] \in FormRecord
  BY <1>1, <1>2, <1>3, FormUpdates DEF TypeOK, ControlTypes, IndexesInside
<1>5. heap' \in SUBSET EntryRecord
  <2>1. heap \in SUBSET EntryRecord
    BY DEF TypeOK, ControlTypes, IndexesInside
  <2>2. heap' = heap \cup {MaintenanceEntry(Current, forms'[Current])}
    BY DEF ImplicitKeep
  <2>3. QED
    BY <1>1, <1>4, <2>1, <2>2, MaintenanceEntryType
<1>6. QED
  BY <1>1, <1>4, <1>5 DEF TypeOK, ControlTypes, IndexesInside, ImplicitKeep, InForm, time, history

LEMMA SustainType == ASSUME TypeOK, Sustain PROVE TypeOK'
<1>1. InForm
  BY DEF Sustain, ReviewDone, InForm
<1>2. heap' \in SUBSET EntryRecord
  <2>1. heap \in SUBSET EntryRecord
    BY DEF TypeOK, ControlTypes, IndexesInside
  <2>2. LiveDue(Current, "Maintenance", forms[Current].mver) \in SUBSET due
    BY DEF LiveDue, DueOf
  <2>3. QED
    BY <2>1, <2>2, PostponeType DEF Sustain
<1>3. QED
  BY <1>1, <1>2 DEF TypeOK, ControlTypes, IndexesInside, Sustain, InForm, time, history

LEMMA SurviveTickType == ASSUME TypeOK, SurviveTick PROVE TypeOK'
<1>1. heap' \in SUBSET EntryRecord /\ due' \in SUBSET EntryRecord
  <2>1. heap \in SUBSET EntryRecord /\ due \in SUBSET EntryRecord
    BY DEF TypeOK, ControlTypes, IndexesInside
  <2>2. LiveDue(Current, "Horizon", forms[Current].hver) \in SUBSET due
    BY DEF LiveDue, DueOf
  <2>3. QED
    BY <2>1, <2>2, PostponeType DEF SurviveTick
<1>2. QED
  BY <1>1 DEF TypeOK, ControlTypes, IndexesInside, SurviveTick, InForm, time, history

LEMMA SubvertType == ASSUME TypeOK, Subvert PROVE TypeOK'
<1>1. InForm /\ Current \in Name
  BY CurrentType DEF Subvert, AtAction, InForm
<1>2. forms' = [forms EXCEPT ![Current] = [forms[Current] EXCEPT !.subverted = TRUE]]
  BY DEF Subvert
<1>3. forms[Current] \in FormRecord
  BY <1>1 DEF TypeOK, ControlTypes, IndexesInside
<1>4. [forms[Current] EXCEPT !.subverted = TRUE] \in FormRecord
  BY <1>3, FormUpdates
<1>5. forms' \in [Name -> FormRecord]
  BY <1>2, <1>4 DEF TypeOK, ControlTypes, IndexesInside
<1>6. RulesOf(Current)' = RulesOf(Current)
  <2>1. Current' = Current
    BY DEF Current, Subvert
  <2>2. forms'[Current].declared = forms[Current].declared
    BY <1>1, <1>2, <1>3 DEF FormRecord, TypeOK, ControlTypes, IndexesInside
  <2>3. QED
    BY <2>1, <2>2 DEF RulesOf
<1>7. /\ pc = "actions" /\ pc' = pc /\ r' = r /\ i' = i /\ order' = order
      /\ a \in Nat \ {0} /\ a' = a + 1 /\ doomed' = TRUE
      /\ UNCHANGED <<sim_time, clock, next_due, active, heap, due, labor, disk, b,
                     fired, visited, snapshot>>
  BY DEF Subvert, AtAction, TypeOK, ControlTypes, IndexesInside, time
<1>8. (InForm => i <= Len(order))' /\ (pc = "actions" => r <= Len(RulesOf(Current)))'
  BY <1>1, <1>6, <1>7 DEF TypeOK, ControlTypes, IndexesInside, InForm
<1>9. a' \in Nat \ {0} /\ doomed' \in BOOLEAN
  BY <1>7
<1>10. QED
  BY <1>5, <1>7, <1>8, <1>9 DEF TypeOK, ControlTypes, IndexesInside

LEMMA EndingType ==
    ASSUME TypeOK, Dissolve \/ Collapse \/ DissolveHorizon \/ (EndRule /\ doomed)
    PROVE  TypeOK'
<1>1. InForm
  BY DEF Dissolve, Collapse, DissolveHorizon, EndRule, AtAction, ReviewDone, InForm
<1>2. Current \in Name
  BY <1>1, CurrentType
<1>3. fired' \in SUBSET Name
  BY <1>2 DEF TypeOK, ControlTypes, IndexesInside, Dissolve, Collapse, DissolveHorizon, EndRule
<1>4. \E end : DissolveForm(Current, end)
  BY DEF Dissolve, Collapse, DissolveHorizon, EndRule
<1>5. QED
  BY <1>1, <1>3, <1>4, DissolveFormType

\* No step of a run loses the types.
LEMMA NextType == TypeOK /\ [Next]_vars => TypeOK'
<1> SUFFICES ASSUME TypeOK, [Next]_vars PROVE TypeOK'
  OBVIOUS
<1>1. CASE \E f \in Name : Register(f)
  BY <1>1, RegisterType
<1>2. CASE StartIteration
  BY <1>2 DEF StartIteration, TypeOK, ControlTypes, IndexesInside, InForm, time, history
<1>3. CASE RunBlock
  BY <1>3, RunBlockType
<1>4. CASE BeginTick
  BY <1>4, BeginTickType
<1>5. CASE EndTick
  BY <1>5 DEF EndTick, TypeOK, ControlTypes, IndexesInside, InForm, time, history
<1>6. CASE VisitForm
  <2>1. Current \in Name
    BY <1>6 DEF VisitForm, Current, TypeOK, ControlTypes, IndexesInside
  <2>2. QED
    BY <1>6, <2>1 DEF VisitForm, TypeOK, ControlTypes, IndexesInside, InForm, time
<1>7. CASE RuleDoesNotFire
  BY <1>7 DEF RuleDoesNotFire, TypeOK, ControlTypes, IndexesInside, InForm, time, history
<1>8. CASE RuleFires
  <2>1. RulesOf(Current)' = RulesOf(Current) /\ r <= Len(RulesOf(Current)) /\ r' = r
    BY <1>8 DEF RuleFires, RulesOf, Current
  <2>2. /\ pc = "rules" /\ pc' = "actions" /\ i' = i /\ a' = 1
        /\ UNCHANGED <<sim_time, clock, next_due, forms, active, order, heap, due,
                       labor, disk, b, fired, visited, snapshot>>
    BY <1>8 DEF RuleFires, time, history
  <2>3. (InForm => i <= Len(order))' /\ (pc = "actions" => r <= Len(RulesOf(Current)))'
    BY <2>1, <2>2 DEF TypeOK, ControlTypes, IndexesInside, InForm
  <2>4. IndexesInside'
    BY <2>3 DEF IndexesInside
  <2>5. doomed' \in BOOLEAN
    BY <1>8, Zenon DEF RuleFires
  <2>6. ControlTypes'
    BY <2>1, <2>2, <2>5 DEF TypeOK, ControlTypes
  <2>7. QED
    BY <2>2, <2>4, <2>6 DEF TypeOK
<1>9. CASE Dissolve \/ Collapse \/ DissolveHorizon \/ (EndRule /\ doomed)
  BY <1>9, EndingType
<1>10. CASE Subvert
  BY <1>10, SubvertType
<1>11. CASE ActOrNotify
  BY <1>11 DEF ActOrNotify, AtAction, TypeOK, ControlTypes, IndexesInside, InForm, RulesOf, Current, time
<1>12. CASE ReclassifyEquilibrium \/ ReclassifyNonequilibrium
  BY <1>12, ReclassifyType
<1>13. CASE EndRule /\ ~doomed
  BY <1>13 DEF EndRule, TypeOK, ControlTypes, IndexesInside, InForm, time
<1>14. CASE ImplicitKeep
  BY <1>14, ImplicitKeepType
<1>15. CASE Sustain
  BY <1>15, SustainType
<1>16. CASE SurviveTick
  BY <1>16, SurviveTickType
<1>17. CASE UNCHANGED vars
  BY <1>17 DEF vars, TypeOK, ControlTypes, IndexesInside, InForm, RulesOf, Current, time, control, history
<1>18. QED
  BY <1>1, <1>2, <1>3, <1>4, <1>5, <1>6, <1>7, <1>8, <1>9, <1>10, <1>11,
     <1>12, <1>13, <1>14, <1>15, <1>16, <1>17 DEF Next, Loop

\* Every variable keeps its type and every index of the tick's loops stays
\* within the list it runs over.
THEOREM TypeCorrect == Spec => []TypeOK
<1>1. Init => TypeOK
  BY InitType
<1>2. TypeOK /\ [Next]_vars => TypeOK'
  BY NextType
<1>3. QED
  BY <1>1, <1>2, PTL DEF Spec

----------------------------------------------------------------------------
(***************************************************************************)
(* The books.                                                              *)
(***************************************************************************)

\* A step that leaves the names, the labour and the conjugations alone keeps
\* the books if it adds entries of active forms only.
LEMMA BooksStable ==
    ASSUME BooksAgree, UNCHANGED <<active, order, labor>>,
           \A f \in active : forms'[f].conj = forms[f].conj,
           \A e \in heap' \cup due' : e.form \in active
    PROVE  BooksAgree'
BY DEF BooksAgree, NamesAgree, NoOrphans, LaborAgrees, IsNeq

LEMMA CurrentActive ==
    ASSUME TypeOK, BooksAgree, InForm
    PROVE  Current \in active
BY CurrentType DEF BooksAgree, NamesAgree, Current

LEMMA PostponeForm ==
    ASSUME NEW E \in SUBSET due, TypeOK, NEW e \in Postpone(E)
    PROVE  \E d \in E : e.form = d.form
<1>1. PICK d \in E : e = [d EXCEPT !.at = sim_time + TickSeconds]
  BY DEF Postpone
<1>2. d \in EntryRecord
  BY DEF TypeOK
<1>3. QED
  BY <1>1, <1>2 DEF EntryRecord

LEMMA BindEntriesForm ==
    ASSUME NEW f, NEW form, NEW e \in BindEntries(f, form)
    PROVE  e.form = f
BY DEF BindEntries, MaintenanceEntry, Entry

\* Binding a form, known or new, keeps `order` and the labour book in step.
LEMMA BindBooks ==
    ASSUME TypeOK, BooksAgree, NEW f \in Name, NEW form \in FormRecord, Bind(f, form)
    PROVE  NamesAgree' /\ LaborAgrees' /\ active \subseteq active' /\ f \in active'
<1>1. /\ forms \in [Name -> FormRecord] /\ order \in Seq(Name) /\ active \in SUBSET Name
      /\ labor = {g \in active : IsNeq(g)}
  BY DEF TypeOK, BooksAgree, LaborAgrees
<1>2. active' = active \cup {f} /\ forms' = [forms EXCEPT ![f] = form]
  BY DEF Bind
<1>3. LaborAgrees'
  <2>1. \A g \in Name : forms'[g] = IF g = f THEN form ELSE forms[g]
    BY <1>1, <1>2
  <2>2. labor' = IF form.conj = "nonequilibrium" THEN labor \cup {f} ELSE labor \ {f}
    BY DEF Bind
  <2>3. QED
    BY <1>1, <1>2, <2>1, <2>2 DEF LaborAgrees, IsNeq
<1>4. NamesAgree'
  <2>1. CASE f \in active
    <3>1. active' = active /\ order' = order
      BY <1>2, <2>1 DEF Bind
    <3>2. QED
      BY <3>1 DEF BooksAgree, NamesAgree
  <2>2. CASE f \notin active
    <3>1. order' = Append(order, f)
      BY <2>2 DEF Bind
    <3>2. /\ DOMAIN order' = 1 .. Len(order) + 1 /\ DOMAIN order = 1 .. Len(order)
          /\ order'[Len(order) + 1] = f /\ Len(order) \in Nat
          /\ \A k \in DOMAIN order : order'[k] = order[k]
      BY <1>1, <3>1
    <3>3. /\ \A g \in active : \E k \in DOMAIN order : order[k] = g
          /\ \A k \in DOMAIN order : order[k] \in active
          /\ \A k, l \in DOMAIN order : order[k] = order[l] => k = l
      BY DEF BooksAgree, NamesAgree
    <3>4. \A g \in active' : \E k \in DOMAIN order' : order'[k] = g
      BY <1>2, <3>2, <3>3
    <3>5. \A k \in DOMAIN order' : order'[k] \in active'
      BY <1>2, <3>2, <3>3
    <3>6. \A k, l \in DOMAIN order' : order'[k] = order'[l] => k = l
      BY <2>2, <3>2, <3>3
    <3>7. QED
      BY <3>4, <3>5, <3>6 DEF NamesAgree
  <2>3. QED
    BY <2>1, <2>2
<1>5. QED
  BY <1>2, <1>3, <1>4

\* Dissolving the form under the index removes it from all the books.
LEMMA DissolveFormBooks ==
    ASSUME TypeOK, BooksAgree, InForm, NEW end, DissolveForm(Current, end)
    PROVE  BooksAgree'
<1>1. /\ Current = order[i] /\ i \in DOMAIN order /\ Current \in Name
      /\ order \in Seq(Name) /\ forms \in [Name -> FormRecord] /\ active \in SUBSET Name
  BY CurrentType DEF TypeOK, Current
<1>2. /\ active' = active \ {Current} /\ labor' = labor \ {Current}
      /\ forms' = [forms EXCEPT ![Current] = Blank]
      /\ heap' = {e \in heap : e.form # Current}
      /\ due' = {e \in due : e.form # Current}
  BY DEF DissolveForm, RemoveForm, DueOf
<1>3. /\ \A g \in active : \E k \in DOMAIN order : order[k] = g
      /\ \A k \in DOMAIN order : order[k] \in active
      /\ \A k, l \in DOMAIN order : order[k] = order[l] => k = l
  BY DEF BooksAgree, NamesAgree
<1>4. NoOrphans'
  BY <1>2 DEF BooksAgree, NoOrphans
<1>5. LaborAgrees'
  <2>1. \A g \in active' : forms'[g] = forms[g]
    BY <1>1, <1>2
  <2>2. QED
    BY <1>1, <1>2, <2>1 DEF BooksAgree, LaborAgrees, IsNeq
<1>6. NamesAgree'
  <2>1. /\ order' \in Seq(Name) /\ Len(order') = Len(order) - 1
        /\ \A k \in 1 .. Len(order) - 1 :
             order'[k] = IF k < i THEN order[k] ELSE order[k + 1]
    <3>1. order' = Without(order, order[i])
      BY <1>1 DEF DissolveForm
    <3>2. \A k \in DOMAIN order : order[k] = order[i] => k = i
      BY <1>1, <1>3
    <3>3. QED
      BY <1>1, <3>1, <3>2, WithoutProperties
  <2>2. DOMAIN order' = 1 .. Len(order) - 1 /\ DOMAIN order = 1 .. Len(order) /\ Len(order) \in Nat
    BY <1>1, <2>1
  <2>3. \A g \in active' : \E k \in DOMAIN order' : order'[k] = g
    <3> SUFFICES ASSUME NEW g \in active' PROVE \E k \in DOMAIN order' : order'[k] = g
      OBVIOUS
    <3>1. PICK k \in DOMAIN order : order[k] = g
      BY <1>2, <1>3
    <3>2. k # i
      BY <1>1, <1>2, <3>1
    <3>3. CASE k < i
      BY <1>1, <2>1, <2>2, <3>1, <3>3
    <3>4. CASE k > i
      <4>1. k - 1 \in DOMAIN order' /\ ~(k - 1 < i) /\ (k - 1) + 1 = k
        BY <1>1, <2>2, <3>4
      <4>2. order'[k - 1] = order[k]
        BY <2>1, <2>2, <4>1
      <4>3. QED
        BY <3>1, <4>1, <4>2
    <3>5. QED
      BY <1>1, <2>2, <3>2, <3>3, <3>4
  <2>4. \A k \in DOMAIN order' : order'[k] \in active'
    <3> SUFFICES ASSUME NEW k \in DOMAIN order' PROVE order'[k] \in active'
      OBVIOUS
    <3>1. CASE k < i
      BY <1>1, <1>2, <1>3, <2>1, <2>2, <3>1
    <3>2. CASE ~(k < i)
      <4>1. k + 1 \in DOMAIN order /\ k + 1 # i /\ order'[k] = order[k + 1]
        BY <1>1, <2>1, <2>2, <3>2
      <4>2. QED
        BY <1>1, <1>2, <1>3, <4>1
    <3>3. QED
      BY <3>1, <3>2
  <2>5. \A k, l \in DOMAIN order' : order'[k] = order'[l] => k = l
    <3> SUFFICES ASSUME NEW k \in DOMAIN order', NEW l \in DOMAIN order',
                        order'[k] = order'[l]
                 PROVE  k = l
      OBVIOUS
    <3> DEFINE up(n) == IF n < i THEN n ELSE n + 1
    <3>1. up(k) \in DOMAIN order /\ up(l) \in DOMAIN order
      BY <1>1, <2>2
    <3>2. order'[k] = order[up(k)] /\ order'[l] = order[up(l)]
      BY <2>1, <2>2
    <3>3. up(k) = up(l)
      BY <1>3, <3>1, <3>2
    <3>4. QED
      BY <1>1, <2>2, <3>3
  <2>6. QED
    BY <2>3, <2>4, <2>5 DEF NamesAgree
<1>7. QED
  BY <1>4, <1>5, <1>6 DEF BooksAgree

LEMMA ReclassifyBooks ==
    ASSUME TypeOK, BooksAgree, ReclassifyEquilibrium \/ ReclassifyNonequilibrium
    PROVE  BooksAgree'
<1>1. InForm /\ Current \in Name /\ Current \in active
  BY CurrentType, CurrentActive DEF ReclassifyEquilibrium, ReclassifyNonequilibrium, AtAction, InForm
<1>2. \A e \in heap \cup due : e.form \in active
  BY DEF BooksAgree, NoOrphans
<1>3. \A e \in Postpone(DueOf(Current)) : e.form \in active
  BY <1>2, PostponeForm DEF DueOf
<1>4. CASE StopReview(Current, {}) /\ UNCHANGED <<forms, active, order, labor>>
  <2>1. \A e \in heap' \cup due' : e.form \in active
    BY <1>2, <1>3, <1>4 DEF StopReview
  <2>2. QED
    BY <1>4, <2>1, BooksStable
<1>5. ASSUME NEW form \in FormRecord, Bind(Current, form),
             StopReview(Current, BindEntries(Current, form))
      PROVE  BooksAgree'
  <2>1. NamesAgree' /\ LaborAgrees' /\ active \subseteq active'
    BY <1>1, <1>5, BindBooks
  <2>2. \A e \in heap' \cup due' : e.form \in active
    BY <1>1, <1>2, <1>3, <1>5, BindEntriesForm DEF StopReview
  <2>3. QED
    BY <2>1, <2>2 DEF BooksAgree, NoOrphans
<1>6. forms[Current] \in FormRecord /\ forms[Current].created \in Nat
  BY <1>1 DEF TypeOK, FormRecord
<1>7. CASE ReclassifyEquilibrium /\ forms[Current].conj # "equilibrium"
  <2> DEFINE form == [forms[Current] EXCEPT !.conj = "equilibrium", !.last = 0,
                                            !.mver = 0, !.hver = @ + 1]
  <2>1. form \in FormRecord
    BY <1>6, FormUpdates
  <2>2. Bind(Current, form) /\ StopReview(Current, BindEntries(Current, form))
    BY <1>7 DEF ReclassifyEquilibrium
  <2> HIDE DEF form
  <2>3. QED
    BY <1>5, <2>1, <2>2
<1>8. CASE ReclassifyNonequilibrium /\ HasDeadline(Current)
  <2> DEFINE form == [forms[Current] EXCEPT !.conj = "nonequilibrium",
                                            !.last = forms[Current].created,
                                            !.mver = @ + 1, !.hver = @ + 1]
  <2>1. form \in FormRecord
    BY <1>6, FormUpdates
  <2>2. Bind(Current, form) /\ StopReview(Current, BindEntries(Current, form))
    BY <1>8 DEF ReclassifyNonequilibrium
  <2> HIDE DEF form
  <2>3. QED
    BY <1>5, <2>1, <2>2
<1>9. QED
  BY <1>4, <1>7, <1>8 DEF ReclassifyEquilibrium, ReclassifyNonequilibrium

LEMMA RegisterBooks ==
    ASSUME TypeOK, BooksAgree, NEW f \in Name, Register(f)
    PROVE  BooksAgree'
<1> DEFINE form == [conj |-> Conj[f], created |-> sim_time, last |-> sim_time,
                    hver |-> 1, subverted |-> FALSE, declared |-> TRUE,
                    mver |-> IF Conj[f] = "nonequilibrium" THEN 1 ELSE 0]
<1>1. form \in FormRecord
  BY ConstantTypes DEF FormRecord, TypeOK
<1>2. Bind(f, form) /\ heap' = heap \cup BindEntries(f, form) /\ due' = due
  BY DEF Register
<1> HIDE DEF form
<1>3. NamesAgree' /\ LaborAgrees' /\ active \subseteq active' /\ f \in active'
  BY <1>1, <1>2, BindBooks
<1>4. NoOrphans'
  BY <1>2, <1>3, BindEntriesForm DEF BooksAgree, NoOrphans
<1>5. QED
  BY <1>3, <1>4 DEF BooksAgree

\* A keep changes neither the conjugation nor the form of an entry.
LEMMA RunBlockBooks == ASSUME TypeOK, BooksAgree, RunBlock PROVE BooksAgree'
<1> DEFINE kept == {f \in Blocks[b].keeps \cap active : IsNeq(f)}
<1>1. UNCHANGED <<active, order, labor, due>>
  BY DEF RunBlock
<1>2. \A e \in heap \cup due : e.form \in active
  BY DEF BooksAgree, NoOrphans
<1>3. CASE BlockDue(b)
  <2>1. forms' = [f \in Name |-> IF f \in kept
                      THEN [forms[f] EXCEPT !.last = sim_time, !.mver = @ + 1]
                      ELSE forms[f]]
    BY <1>3 DEF RunBlock
  <2>2. heap' = heap \cup {MaintenanceEntry(f, forms'[f]) : f \in kept}
    BY <1>3 DEF RunBlock
  <2>3. kept \in SUBSET active /\ active \in SUBSET Name /\ forms \in [Name -> FormRecord]
    BY DEF TypeOK
  <2> HIDE DEF kept
  <2>4. \A f \in active : forms'[f].conj = forms[f].conj
    BY <2>1, <2>3 DEF FormRecord
  <2>5. \A e \in heap' : e.form \in active
    BY <1>2, <2>2, <2>3 DEF MaintenanceEntry, Entry
  <2>6. QED
    BY <1>1, <1>2, <2>4, <2>5, BooksStable
<1>4. CASE ~BlockDue(b)
  BY <1>1, <1>2, <1>4, BooksStable DEF RunBlock
<1>5. QED
  BY <1>3, <1>4

\* The steps on the form under the index that leave it alive.
LEMMA ReviewBooks ==
    ASSUME TypeOK, BooksAgree, Subvert \/ ImplicitKeep \/ Sustain \/ SurviveTick
    PROVE  BooksAgree'
<1>1. InForm /\ Current \in Name /\ Current \in active
  BY CurrentType, CurrentActive
     DEF Subvert, ImplicitKeep, Sustain, SurviveTick, AtAction, ReviewDone, InForm
<1>2. UNCHANGED <<active, order, labor>> /\ due' \subseteq due
  BY DEF Subvert, ImplicitKeep, Sustain, SurviveTick
<1>3. \A e \in heap \cup due : e.form \in active
  BY DEF BooksAgree, NoOrphans
<1>4. forms \in [Name -> FormRecord] /\ active \in SUBSET Name
  BY DEF TypeOK
<1>5. \A f \in active : forms'[f].conj = forms[f].conj
  <2>1. CASE Subvert
    BY <1>1, <1>4, <2>1 DEF Subvert, FormRecord
  <2>2. CASE ImplicitKeep
    BY <1>1, <1>4, <2>2 DEF ImplicitKeep, FormRecord
  <2>3. CASE Sustain \/ SurviveTick
    BY <2>3 DEF Sustain, SurviveTick
  <2>4. QED
    BY <2>1, <2>2, <2>3
<1>6. \A e \in heap' : e.form \in active
  <2>1. CASE Subvert
    BY <1>3, <2>1 DEF Subvert
  <2>2. CASE ImplicitKeep
    BY <1>1, <1>3, <2>2 DEF ImplicitKeep, MaintenanceEntry, Entry
  <2>3. \A kind, version : \A e \in Postpone(LiveDue(Current, kind, version)) : e.form \in active
    <3>1. \A kind, version : LiveDue(Current, kind, version) \in SUBSET due
      BY DEF LiveDue, DueOf
    <3>2. QED
      BY <1>3, <3>1, PostponeForm
  <2>4. CASE Sustain \/ SurviveTick
    BY <1>3, <2>3, <2>4 DEF Sustain, SurviveTick
  <2>5. QED
    BY <2>1, <2>2, <2>4
<1>7. QED
  BY <1>2, <1>3, <1>5, <1>6, BooksStable

\* No step of a run loses the books.
LEMMA NextBooks == TypeOK /\ BooksAgree /\ [Next]_vars => BooksAgree'
<1> SUFFICES ASSUME TypeOK, BooksAgree, [Next]_vars PROVE BooksAgree'
  OBVIOUS
<1>1. CASE \E f \in Name : Register(f)
  BY <1>1, RegisterBooks
<1>2. CASE RunBlock
  BY <1>2, RunBlockBooks
<1>3. CASE BeginTick
  <2>1. UNCHANGED <<active, order, labor, forms>> /\ heap' \cup due' \subseteq heap
    BY <1>3 DEF BeginTick
  <2>2. QED
    BY <2>1, BooksStable DEF BooksAgree, NoOrphans
<1>4. CASE Dissolve \/ Collapse \/ DissolveHorizon \/ (EndRule /\ doomed)
  <2>1. InForm /\ \E end : DissolveForm(Current, end)
    BY <1>4 DEF Dissolve, Collapse, DissolveHorizon, EndRule, AtAction, ReviewDone, InForm
  <2>2. QED
    BY <2>1, DissolveFormBooks
<1>5. CASE Subvert \/ ImplicitKeep \/ Sustain \/ SurviveTick
  BY <1>5, ReviewBooks
<1>6. CASE ReclassifyEquilibrium \/ ReclassifyNonequilibrium
  BY <1>6, ReclassifyBooks
<1>7. CASE \/ StartIteration \/ EndTick \/ VisitForm \/ RuleDoesNotFire \/ RuleFires
           \/ ActOrNotify \/ (EndRule /\ ~doomed) \/ UNCHANGED vars
  <2>1. UNCHANGED <<active, order, labor, forms, heap, due>>
    BY <1>7 DEF StartIteration, EndTick, VisitForm, RuleDoesNotFire, RuleFires,
                ActOrNotify, EndRule, vars
  <2>2. QED
    BY <2>1, BooksStable DEF BooksAgree, NoOrphans
<1>8. QED
  BY <1>1, <1>2, <1>3, <1>4, <1>5, <1>6, <1>7 DEF Next, Loop

\* bind and dissolve_form keep the books of a form together (engine.rs:158).
THEOREM BooksCorrect == Spec => []BooksAgree
<1>1. Init => BooksAgree
  BY DEF Init, BooksAgree, NamesAgree, NoOrphans, LaborAgrees
<1>2. TypeOK /\ BooksAgree /\ [Next]_vars => BooksAgree'
  BY NextBooks
<1>3. QED
  BY <1>1, <1>2, TypeCorrect, PTL DEF Spec

----------------------------------------------------------------------------
(***************************************************************************)
(* The life of a form: each step is a legal transition.                    *)
(***************************************************************************)

\* A form whose program declares a maintenance deadline is never an event,
\* so reclassify_nonequilibrium (engine.rs:622) cannot start from one.
DeadlineNotEvent ==
    \A f \in active : HasDeadline(f) => forms[f].conj # "event"

LEMMA DeadlineStable ==
    ASSUME DeadlineNotEvent, active' \subseteq active,
           \A f \in active' : forms'[f].conj = forms[f].conj /\ forms'[f].declared = forms[f].declared
    PROVE  DeadlineNotEvent'
BY DEF DeadlineNotEvent, HasDeadline

(***************************************************************************)
(* Each kind of step, as a step of FormLife.                               *)
(***************************************************************************)

\* A step that changes no conjugation and no birth stutters.
LEMMA Stutters ==
    ASSUME UNCHANGED <<active, sim_time>>,
           \A f \in active : /\ forms'[f].conj = forms[f].conj
                             /\ forms'[f].created = forms[f].created
    PROVE  UNCHANGED Life!life
BY DEF Life!life

LEMMA EndingEnds ==
    ASSUME TypeOK, BooksAgree, DeadlineNotEvent, InForm,
           NEW end, DissolveForm(Current, end)
    PROVE  (\E f \in Name : Life!End(f)) /\ DeadlineNotEvent'
<1>1. Current \in Name /\ Current \in active
  BY CurrentType, CurrentActive
<1>2. PICK c \in Name : c = Current
  BY <1>1
<1>3. /\ active' = active \ {c} /\ forms' = [forms EXCEPT ![c] = Blank]
      /\ forms \in [Name -> FormRecord] /\ active \in SUBSET Name /\ c \in active
      /\ sim_time' = sim_time
  BY <1>1, <1>2 DEF DissolveForm, TypeOK, time
<1>4. forms[c].conj # "none"
  <2>1. forms[c] \in FormRecord
    BY <1>2, <1>3
  <2>2. QED
    BY <2>1 DEF FormRecord, Conjugation
<1>5. Life!End(c)
  <2> DEFINE S == [f \in Name |-> IF f \in active THEN forms[f].conj ELSE "none"]
             B == [f \in Name |-> IF f \in active THEN forms[f].created ELSE 0]
  <2>1. S' = [S EXCEPT ![c] = "none"]
    BY <1>3
  <2>2. B' = [B EXCEPT ![c] = 0]
    BY <1>3
  <2>3. S[c] # "none"
    BY <1>3, <1>4
  <2>4. QED
    BY <1>3, <2>1, <2>2, <2>3 DEF Life!End
<1>6. DeadlineNotEvent'
  <2>1. active' \subseteq active /\ \A f \in active' : forms'[f] = forms[f]
    BY <1>3
  <2>2. QED
    BY <2>1, DeadlineStable
<1>7. QED
  BY <1>2, <1>5, <1>6

\* A reclassification that is carried out follows the matrix and keeps the
\* instant of birth.
LEMMA BindReclassifies ==
    ASSUME TypeOK, DeadlineNotEvent, NEW c \in active, NEW form \in FormRecord,
           Bind(c, form), sim_time' = sim_time, form.created = forms[c].created,
           form.declared = forms[c].declared,
           <<forms[c].conj, form.conj>> \in Life!LegalTransition, form.conj # "event"
    PROVE  Life!Reclassify(c) /\ DeadlineNotEvent'
<1>1. /\ active' = active /\ forms' = [forms EXCEPT ![c] = form]
      /\ forms \in [Name -> FormRecord] /\ active \in SUBSET Name /\ c \in Name
  BY DEF Bind, TypeOK
<1> DEFINE S == [f \in Name |-> IF f \in active THEN forms[f].conj ELSE "none"]
           B == [f \in Name |-> IF f \in active THEN forms[f].created ELSE 0]
<1>2. S' = [S EXCEPT ![c] = form.conj] /\ S[c] = forms[c].conj
  BY <1>1
<1>3. B' = B
  BY <1>1
<1>4. form.conj \in {"event", "equilibrium", "nonequilibrium"}
  BY DEF FormRecord, Conjugation
<1>5. Life!Reclassify(c)
  BY <1>2, <1>3, <1>4 DEF Life!Reclassify
<1>6. DeadlineNotEvent'
  BY <1>1 DEF DeadlineNotEvent, HasDeadline
<1>7. QED
  BY <1>5, <1>6

LEMMA ReclassifyLegal ==
    ASSUME TypeOK, BooksAgree, DeadlineNotEvent,
           ReclassifyEquilibrium \/ ReclassifyNonequilibrium
    PROVE  (UNCHANGED Life!life \/ \E f \in Name : Life!Reclassify(f)) /\ DeadlineNotEvent'
<1>1. InForm
  BY DEF ReclassifyEquilibrium, ReclassifyNonequilibrium, AtAction, InForm
<1>2. PICK c \in active : c = Current /\ c \in Name
  BY <1>1, CurrentType, CurrentActive
<1>3. /\ forms[c] \in FormRecord /\ forms[c].created \in Nat
      /\ forms[c].conj \in Conjugation
  BY <1>2 DEF TypeOK, FormRecord
<1>4. sim_time' = sim_time
  BY DEF ReclassifyEquilibrium, ReclassifyNonequilibrium, StopReview, time
<1>5. CASE UNCHANGED <<forms, active>>
  <2>1. UNCHANGED Life!life
    BY <1>4, <1>5, Stutters
  <2>2. QED
    BY <1>5, <2>1, DeadlineStable
<1>6. CASE ReclassifyEquilibrium /\ forms[c].conj # "equilibrium"
  <2> DEFINE form == [forms[c] EXCEPT !.conj = "equilibrium", !.last = 0,
                                            !.mver = 0, !.hver = @ + 1]
  <2>1. form \in FormRecord
    BY <1>3, FormUpdates
  <2>2. /\ form.created = forms[c].created /\ form.declared = forms[c].declared
        /\ form.conj = "equilibrium"
    BY <1>3 DEF FormRecord
  <2>3. Bind(c, form)
    BY <1>2, <1>6 DEF ReclassifyEquilibrium
  <2>4. <<forms[c].conj, "equilibrium">> \in Life!LegalTransition
    BY <1>3, <1>6 DEF Conjugation, Life!LegalTransition
  <2> HIDE DEF form
  <2>5. Life!Reclassify(c) /\ DeadlineNotEvent'
    BY <1>2, <1>4, <2>1, <2>2, <2>3, <2>4, BindReclassifies
  <2>6. QED
    BY <1>2, <2>5
<1>7. CASE ReclassifyNonequilibrium /\ HasDeadline(c)
  <2> DEFINE form == [forms[c] EXCEPT !.conj = "nonequilibrium",
                                            !.last = forms[c].created,
                                            !.mver = @ + 1, !.hver = @ + 1]
  <2>1. form \in FormRecord
    BY <1>3, FormUpdates
  <2>2. /\ form.created = forms[c].created /\ form.declared = forms[c].declared
        /\ form.conj = "nonequilibrium"
    BY <1>3 DEF FormRecord
  <2>3. Bind(c, form)
    BY <1>2, <1>7 DEF ReclassifyNonequilibrium
  <2>4. forms[c].conj # "event"
    BY <1>2, <1>7 DEF DeadlineNotEvent
  <2>5. <<forms[c].conj, "nonequilibrium">> \in Life!LegalTransition
    BY <1>3, <2>4 DEF Conjugation, Life!LegalTransition
  <2> HIDE DEF form
  <2>6. Life!Reclassify(c) /\ DeadlineNotEvent'
    BY <1>2, <1>4, <2>1, <2>2, <2>3, <2>5, BindReclassifies
  <2>7. QED
    BY <1>2, <2>6
<1>8. QED
  BY <1>2, <1>5, <1>6, <1>7 DEF ReclassifyEquilibrium, ReclassifyNonequilibrium

LEMMA RegisterDeclares ==
    ASSUME TypeOK, DeadlineNotEvent, NEW g \in Name, Register(g)
    PROVE  Life!Declare(g) /\ DeadlineNotEvent'
<1> DEFINE form == [conj |-> Conj[g], created |-> sim_time, last |-> sim_time,
                    hver |-> 1, subverted |-> FALSE, declared |-> TRUE,
                    mver |-> IF Conj[g] = "nonequilibrium" THEN 1 ELSE 0]
           S == [f \in Name |-> IF f \in active THEN forms[f].conj ELSE "none"]
           B == [f \in Name |-> IF f \in active THEN forms[f].created ELSE 0]
<1>1. /\ active' = active \cup {g} /\ forms' = [forms EXCEPT ![g] = form]
      /\ forms \in [Name -> FormRecord] /\ active \in SUBSET Name /\ sim_time' = sim_time
  BY DEF Register, Bind, TypeOK, time
<1>2. form.conj = Conj[g] /\ form.created = sim_time
  OBVIOUS
<1> HIDE DEF form
<1>3. S' = [S EXCEPT ![g] = Conj[g]]
  BY <1>1, <1>2
<1>4. B' = [B EXCEPT ![g] = sim_time]
  BY <1>1, <1>2
<1>5. Life!Declare(g)
  BY <1>1, <1>3, <1>4 DEF Life!Declare
<1>6. DeadlineNotEvent'
  BY <1>1, <1>2 DEF DeadlineNotEvent, HasDeadline
<1>7. QED
  BY <1>5, <1>6

\* The engine moves forms along the matrix of legal transitions only, and
\* reclassification never renews a birth (FORMAL 4.1).
THEOREM EngineImplementsLife == Spec => ImplementsLife
<1>1. Init => Life!Init /\ DeadlineNotEvent
  BY DEF Init, Life!Init, DeadlineNotEvent
<1>2. TypeOK /\ BooksAgree /\ DeadlineNotEvent /\ [Next]_vars
         => [Life!Next]_(Life!life) /\ DeadlineNotEvent'
  <2> SUFFICES ASSUME TypeOK, BooksAgree, DeadlineNotEvent, [Next]_vars
               PROVE  [Life!Next]_(Life!life) /\ DeadlineNotEvent'
    OBVIOUS
  <2>1. CASE \E f \in Name : Register(f)
    BY <2>1, RegisterDeclares DEF Life!Next
  <2>2. CASE BeginTick
    <3>1. /\ UNCHANGED <<active, forms>> /\ sim_time' = sim_time + TickSeconds
          /\ sim_time \in Nat /\ TickSeconds \in Nat \ {0}
      BY <2>2, ConstantTypes DEF BeginTick, TypeOK
    <3>2. sim_time' > sim_time
      BY <3>1
    <3>3. Life!Advance
      BY <3>1, <3>2 DEF Life!Advance
    <3>4. QED
      BY <3>1, <3>3, DeadlineStable DEF Life!Next
  <2>3. CASE Dissolve \/ Collapse \/ DissolveHorizon \/ (EndRule /\ doomed)
    <3>1. InForm /\ \E end : DissolveForm(Current, end)
      BY <2>3 DEF Dissolve, Collapse, DissolveHorizon, EndRule, AtAction, ReviewDone, InForm
    <3>2. QED
      BY <3>1, EndingEnds DEF Life!Next
  <2>4. CASE ReclassifyEquilibrium \/ ReclassifyNonequilibrium
    BY <2>4, ReclassifyLegal DEF Life!Next
  <2>5. CASE \/ StartIteration \/ RunBlock \/ EndTick \/ VisitForm \/ RuleDoesNotFire
             \/ RuleFires \/ Subvert \/ ActOrNotify \/ (EndRule /\ ~doomed)
             \/ ImplicitKeep \/ Sustain \/ SurviveTick \/ UNCHANGED vars
    <3>1. UNCHANGED <<active, sim_time>>
      BY <2>5 DEF StartIteration, RunBlock, EndTick, VisitForm, RuleDoesNotFire, RuleFires,
                  Subvert, ActOrNotify, EndRule, ImplicitKeep, Sustain, SurviveTick, vars, time
    <3>2. active \in SUBSET Name /\ forms \in [Name -> FormRecord]
      BY DEF TypeOK
    <3>3. \A f \in active : /\ forms'[f].conj = forms[f].conj
                            /\ forms'[f].created = forms[f].created
                            /\ forms'[f].declared = forms[f].declared
      <4> SUFFICES ASSUME NEW f \in active
                   PROVE  /\ forms'[f].conj = forms[f].conj
                          /\ forms'[f].created = forms[f].created
                          /\ forms'[f].declared = forms[f].declared
        OBVIOUS
      <4>1. f \in Name /\ forms[f] \in FormRecord
        BY <3>2
      <4>2. \/ forms'[f] = forms[f]
            \/ forms'[f] = [forms[f] EXCEPT !.last = sim_time, !.mver = @ + 1]
            \/ forms'[f] = [forms[f] EXCEPT !.subverted = TRUE]
        <5>1. CASE RunBlock
          BY <4>1, <5>1 DEF RunBlock
        <5>2. CASE Subvert
          BY <3>2, <4>1, <5>2 DEF Subvert
        <5>3. CASE ImplicitKeep
          BY <3>2, <4>1, <5>3 DEF ImplicitKeep
        <5>4. CASE ~(RunBlock \/ Subvert \/ ImplicitKeep)
          BY <2>5, <5>4 DEF StartIteration, EndTick, VisitForm, RuleDoesNotFire, RuleFires,
                            ActOrNotify, EndRule, Sustain, SurviveTick, vars
        <5>5. QED
          BY <5>1, <5>2, <5>3, <5>4
      <4>3. QED
        BY <4>1, <4>2 DEF FormRecord
    <3>4. UNCHANGED Life!life
      BY <3>1, <3>3, Stutters
    <3>5. DeadlineNotEvent'
      BY <3>1, <3>3, DeadlineStable
    <3>6. QED
      BY <3>4, <3>5
  <2>6. QED
    BY <2>1, <2>2, <2>3, <2>4, <2>5 DEF Next, Loop
<1>3. QED
  BY <1>1, <1>2, TypeCorrect, BooksCorrect, PTL DEF Spec, ImplementsLife, Life!Spec

----------------------------------------------------------------------------
(***************************************************************************)
(* The loop over `order`.                                                  *)
(***************************************************************************)

\* What dissolving the current form leaves of `order`.
LEMMA OrderWithout ==
    ASSUME TypeOK, BooksAgree, InForm, NEW end, DissolveForm(Current, end)
    PROVE  /\ i \in DOMAIN order /\ Len(order') = Len(order) - 1
           /\ \A k \in i .. Len(order) - 1 : order'[k] = order[k + 1]
<1>1. i \in DOMAIN order /\ order \in Seq(Name) /\ Current = order[i]
  BY CurrentType DEF TypeOK, Current
<1>2. \A k \in DOMAIN order : order[k] = order[i] => k = i
  BY <1>1 DEF BooksAgree, NamesAgree
<1>3. order' = Without(order, order[i])
  BY <1>1 DEF DissolveForm
<1>4. /\ Len(order') = Len(order) - 1
      /\ \A k \in 1 .. Len(order) - 1 : order'[k] = IF k < i THEN order[k] ELSE order[k + 1]
  BY <1>1, <1>2, <1>3, WithoutProperties
<1>5. QED
  BY <1>1, <1>4

\* A reclassification, carried out or refused, ends the review of its form.
LEMMA ReclassifyShape ==
    ASSUME TypeOK, BooksAgree, ReclassifyEquilibrium \/ ReclassifyNonequilibrium
    PROVE  /\ AtAction("reclassify_eq") \/ AtAction("reclassify_neq")
           /\ \E added : StopReview(Current, added)
           /\ UNCHANGED <<active, order>>
           /\ \A f \in Name : forms'[f].subverted <=> forms[f].subverted
           /\ \A f \in Name : /\ forms'[f].declared <=> forms[f].declared
                              /\ f # Current => forms'[f] = forms[f]
<1>1. InForm /\ Current \in Name /\ Current \in active
  BY CurrentType, CurrentActive DEF ReclassifyEquilibrium, ReclassifyNonequilibrium, AtAction, InForm
<1>2. AtAction("reclassify_eq") \/ AtAction("reclassify_neq")
  BY DEF ReclassifyEquilibrium, ReclassifyNonequilibrium
<1>3. forms \in [Name -> FormRecord] /\ forms[Current] \in FormRecord
  BY <1>1 DEF TypeOK
<1>4. CASE StopReview(Current, {}) /\ UNCHANGED <<forms, active, order, labor>>
  BY <1>2, <1>4
<1>5. ASSUME NEW form, Bind(Current, form), StopReview(Current, BindEntries(Current, form)),
             form.subverted <=> forms[Current].subverted,
             form.declared <=> forms[Current].declared
      PROVE  /\ \E added : StopReview(Current, added)
             /\ UNCHANGED <<active, order>>
             /\ \A f \in Name : forms'[f].subverted <=> forms[f].subverted
             /\ \A f \in Name : /\ forms'[f].declared <=> forms[f].declared
                                /\ f # Current => forms'[f] = forms[f]
  <2>1. forms' = [forms EXCEPT ![Current] = form]
    BY <1>5 DEF Bind
  <2>2. forms'[Current] = form /\ \A f \in Name : f # Current => forms'[f] = forms[f]
    BY <1>1, <1>3, <2>1
  <2>3. active' = active /\ order' = order
    BY <1>1, <1>5 DEF Bind
  <2>4. \E added : StopReview(Current, added)
    BY <1>5
  <2>5. \A f \in Name : /\ forms'[f].subverted <=> forms[f].subverted
                        /\ forms'[f].declared <=> forms[f].declared
    BY <1>5, <2>2, Zenon
  <2>6. QED
    BY <2>2, <2>3, <2>4, <2>5
<1>6. CASE ReclassifyEquilibrium /\ forms[Current].conj # "equilibrium"
  <2> DEFINE form == [forms[Current] EXCEPT !.conj = "equilibrium", !.last = 0,
                                            !.mver = 0, !.hver = @ + 1]
  <2>1. Bind(Current, form) /\ StopReview(Current, BindEntries(Current, form))
    BY <1>6 DEF ReclassifyEquilibrium
  <2>2. form.subverted = forms[Current].subverted /\ form.declared = forms[Current].declared
    BY <1>3 DEF FormRecord
  <2> HIDE DEF form
  <2>3. QED
    BY <1>2, <1>5, <2>1, <2>2
<1>7. CASE ReclassifyNonequilibrium /\ HasDeadline(Current)
  <2> DEFINE form == [forms[Current] EXCEPT !.conj = "nonequilibrium",
                                            !.last = forms[Current].created,
                                            !.mver = @ + 1, !.hver = @ + 1]
  <2>1. Bind(Current, form) /\ StopReview(Current, BindEntries(Current, form))
    BY <1>7 DEF ReclassifyNonequilibrium
  <2>2. form.subverted = forms[Current].subverted /\ form.declared = forms[Current].declared
    BY <1>3 DEF FormRecord
  <2> HIDE DEF form
  <2>3. QED
    BY <1>2, <1>5, <2>1, <2>2
<1>8. QED
  BY <1>4, <1>6, <1>7 DEF ReclassifyEquilibrium, ReclassifyNonequilibrium

\* The steps on a form that stay on it, those that go on to the next form,
\* and those that end it.
Stays == /\ InForm /\ InForm' /\ UNCHANGED <<i, order, active, visited, snapshot>>
Passes == /\ InForm /\ pc' = "visit" /\ i' = i + 1
          /\ UNCHANGED <<order, active, visited, snapshot>>
Ends == InForm /\ \E end : DissolveForm(Current, end)

LEMMA StepKinds ==
    ASSUME TypeOK, BooksAgree, Next
    PROVE  \/ \E f \in Name : Register(f)
           \/ StartIteration \/ RunBlock \/ BeginTick \/ EndTick \/ VisitForm
           \/ /\ Stays
              /\ \/ RuleDoesNotFire \/ RuleFires \/ Subvert \/ ActOrNotify
                 \/ (EndRule /\ ~doomed) \/ ImplicitKeep \/ Sustain
           \/ /\ Passes
              /\ ReclassifyEquilibrium \/ ReclassifyNonequilibrium \/ SurviveTick
           \/ /\ Ends
              /\ Dissolve \/ (EndRule /\ doomed) \/ Collapse \/ DissolveHorizon
<1>1. CASE RuleDoesNotFire \/ RuleFires \/ Subvert \/ ActOrNotify \/ (EndRule /\ ~doomed)
  <2>1. pc \in {"rules", "actions"} /\ pc' \in {"rules", "actions"}
    BY <1>1 DEF RuleDoesNotFire, RuleFires, Subvert, ActOrNotify, EndRule, AtAction
  <2>2. UNCHANGED <<i, order, active, visited, snapshot>>
    BY <1>1 DEF RuleDoesNotFire, RuleFires, Subvert, ActOrNotify, EndRule, history
  <2>3. QED
    BY <1>1, <2>1, <2>2 DEF Stays, InForm
<1>2. CASE ImplicitKeep \/ Sustain
  <2>1. pc = "rules" /\ pc' = "horizon"
    BY <1>2 DEF ImplicitKeep, Sustain, ReviewDone
  <2>2. UNCHANGED <<i, order, active, visited, snapshot>>
    BY <1>2 DEF ImplicitKeep, Sustain, history
  <2>3. QED
    BY <1>2, <2>1, <2>2 DEF Stays, InForm
<1>3. CASE ReclassifyEquilibrium \/ ReclassifyNonequilibrium
  <2>1. AtAction("reclassify_eq") \/ AtAction("reclassify_neq")
    BY <1>3, ReclassifyShape
  <2>2. (\E added : StopReview(Current, added)) /\ UNCHANGED <<active, order>>
    BY <1>3, ReclassifyShape
  <2>3. QED
    BY <1>3, <2>1, <2>2 DEF AtAction, StopReview, Passes, InForm
<1>4. CASE SurviveTick
  BY <1>4 DEF SurviveTick, Passes, InForm, history
<1>5. CASE Dissolve \/ (EndRule /\ doomed) \/ Collapse \/ DissolveHorizon
  BY <1>5 DEF Dissolve, EndRule, Collapse, DissolveHorizon, AtAction, ReviewDone, InForm, Ends
<1>6. QED
  BY <1>1, <1>2, <1>3, <1>4, <1>5, Zenon DEF Next, Loop

LEMMA VisitStep ==
    ASSUME TypeOK, BooksAgree, VisitTracked, [Next]_vars
    PROVE  VisitTracked'
<1>t. /\ i \in Nat \ {0} /\ order \in Seq(Name) /\ visited \in Seq(Name) /\ snapshot \in Seq(Name)
      /\ Len(order) \in Nat /\ Len(visited) \in Nat /\ Len(snapshot) \in Nat
      /\ DOMAIN order = 1 .. Len(order) /\ DOMAIN visited = 1 .. Len(visited)
      /\ DOMAIN snapshot = 1 .. Len(snapshot)
  BY DEF TypeOK, ControlTypes
<1>n. i \in Nat \ {0} /\ Len(order) \in Nat /\ Len(visited) \in Nat /\ Len(snapshot) \in Nat
  BY <1>t
<1>f. InForm => InTick /\ Rest = i + 1 /\ i <= Len(order)
  BY DEF InForm, InTick, Rest, TypeOK, IndexesInside
<1>1. CASE \E f \in Name : Register(f)
  <2>1. pc = "idle" /\ UNCHANGED <<clock, pc, visited, snapshot>>
    BY <1>1 DEF Register, time, control, history
  <2>2. QED
    BY <2>1 DEF VisitTracked, InTick
<1>2. CASE StartIteration \/ RunBlock
  <2>1. pc' = "main"
    BY <1>2 DEF StartIteration, RunBlock
  <2>2. QED
    BY <2>1 DEF VisitTracked, InTick
<1>3. CASE BeginTick
  <2>1. pc' = "visit" /\ i' = 1 /\ visited' = <<>> /\ snapshot' = order /\ order' = order
    BY <1>3 DEF BeginTick
  <2>2. VisitsSoFar'
    BY <1>t, <2>1 DEF VisitsSoFar, Rest
  <2>3. QED
    BY <2>1, <2>2 DEF VisitTracked
<1>4. CASE EndTick
  <2>1. /\ pc = "visit" /\ pc' = "idle" /\ i > Len(order)
        /\ UNCHANGED <<visited, snapshot>>
    BY <1>4 DEF EndTick, history
  <2>2. VisitsSoFar /\ Rest = i
    BY <2>1 DEF VisitTracked, InTick, Rest
  <2>r. /\ i <= Len(order) + 1 /\ Len(snapshot) = Len(visited) + (Len(order) + 1 - i)
        /\ \A k \in DOMAIN visited : snapshot[k] = visited[k]
    BY <2>2 DEF VisitsSoFar
  <2>3. Len(snapshot) = Len(visited) /\ \A k \in 1 .. Len(visited) : snapshot[k] = visited[k]
    <3>1. Len(order) + 1 - i = 0
      BY <1>n, <2>1, <2>r
    <3>2. Len(snapshot) = Len(visited)
      BY <1>n, <2>r, <3>1
    <3>3. DOMAIN visited = 1 .. Len(visited)
      BY <1>t
    <3>4. QED
      BY <2>r, <3>2, <3>3
  <2>4. visited = snapshot
    BY <1>t, <2>3
  <2>5. QED
    BY <2>1, <2>4 DEF VisitTracked, InTick
<1>5. CASE VisitForm
  <2>1. /\ pc = "visit" /\ pc' = "rules" /\ i <= Len(order) /\ visited' = Append(visited, order[i])
        /\ UNCHANGED <<i, order, snapshot>>
    BY <1>5 DEF VisitForm, Current
  <2>2. VisitsSoFar /\ Rest = i /\ Rest' = i + 1
    BY <2>1 DEF VisitTracked, InTick, Rest
  <2>3. order[i] \in Name
    BY <1>t, <2>1
  <2>4. /\ Len(visited') = Len(visited) + 1 /\ DOMAIN visited' = 1 .. Len(visited) + 1
        /\ \A k \in 1 .. Len(visited) : visited'[k] = visited[k]
        /\ visited'[Len(visited) + 1] = order[i]
    BY <1>t, <2>1, <2>3
  <2>r. \A k \in i .. Len(order) : snapshot[Len(visited) + 1 + k - i] = order[k]
    BY <2>2 DEF VisitsSoFar
  <2>5. snapshot[Len(visited) + 1] = order[i]
    <3>1. i \in i .. Len(order) /\ Len(visited) + 1 + i - i = Len(visited) + 1
      BY <1>n, <2>1
    <3>2. QED
      BY <2>r, <3>1
  <2>6. \A k \in DOMAIN visited' : snapshot[k] = visited'[k]
    BY <1>t, <2>2, <2>4, <2>5 DEF VisitsSoFar
  <2>7. ASSUME NEW k \in i + 1 .. Len(order)
        PROVE  snapshot[(Len(visited) + 1) + 1 + k - (i + 1)] = order[k]
    <3>1. k \in i .. Len(order) /\ (Len(visited) + 1) + 1 + k - (i + 1) = Len(visited) + 1 + k - i
      BY <1>n
    <3>2. QED
      BY <2>r, <3>1
  <2>8. i + 1 <= Len(order) + 1
    BY <1>n, <2>1
  <2>9. Len(snapshot) = (Len(visited) + 1) + (Len(order) + 1 - (i + 1))
    <3>1. Len(snapshot) = Len(visited) + (Len(order) + 1 - i)
      BY <2>2 DEF VisitsSoFar
    <3>2. QED
      BY <1>n, <3>1
  <2>10. VisitsSoFar'
    BY <2>1, <2>2, <2>4, <2>6, <2>7, <2>8, <2>9 DEF VisitsSoFar
  <2>11. QED
    BY <2>1, <2>10 DEF VisitTracked
<1>6. CASE Stays
  <2>1. VisitsSoFar /\ Rest = i + 1 /\ Rest' = i + 1 /\ UNCHANGED <<order, visited, snapshot>>
    BY <1>6, <1>f DEF Stays, Rest, InForm, VisitTracked
  <2>2. VisitsSoFar' /\ pc' # "idle"
    BY <1>6, <2>1 DEF VisitsSoFar, Stays, InForm
  <2>3. QED
    BY <2>2 DEF VisitTracked
<1>7. CASE Passes
  <2>1. VisitsSoFar /\ Rest = i + 1 /\ Rest' = i + 1 /\ UNCHANGED <<order, visited, snapshot>>
    BY <1>7, <1>f DEF Passes, Rest, VisitTracked
  <2>2. VisitsSoFar' /\ pc' # "idle"
    BY <1>7, <2>1 DEF VisitsSoFar, Passes
  <2>3. QED
    BY <2>2 DEF VisitTracked
<1>8. CASE Ends
  <2>1. PICK end : DissolveForm(Current, end)
    BY <1>8 DEF Ends
  <2>2. /\ i \in DOMAIN order /\ Len(order') = Len(order) - 1
        /\ \A k \in i .. Len(order) - 1 : order'[k] = order[k + 1]
    BY <1>8, <2>1, OrderWithout DEF Ends
  <2>3. pc' = "visit" /\ UNCHANGED <<i, visited, snapshot>>
    BY <2>1 DEF DissolveForm
  <2>4. VisitsSoFar /\ Rest = i + 1 /\ Rest' = i
    BY <1>8, <1>f, <2>3 DEF Ends, Rest, VisitTracked
  <2>5. \A k \in i .. Len(order') : snapshot[Len(visited) + 1 + k - i] = order'[k]
    <3> SUFFICES ASSUME NEW k \in i .. Len(order') PROVE snapshot[Len(visited) + 1 + k - i] = order'[k]
      OBVIOUS
    <3>1. k + 1 \in i + 1 .. Len(order) /\ order'[k] = order[k + 1]
      BY <1>t, <2>2
    <3>2. snapshot[Len(visited) + 1 + (k + 1) - (i + 1)] = order[k + 1]
      BY <2>4, <3>1 DEF VisitsSoFar
    <3>3. Len(visited) + 1 + (k + 1) - (i + 1) = Len(visited) + 1 + k - i
      BY <1>t, <2>2
    <3>4. QED
      BY <3>1, <3>2, <3>3
  <2>6. VisitsSoFar'
    BY <1>t, <2>2, <2>3, <2>4, <2>5 DEF VisitsSoFar
  <2>7. QED
    BY <2>3, <2>6 DEF VisitTracked
<1>9. CASE UNCHANGED vars
  BY <1>9 DEF vars, control, history, time, VisitTracked, VisitsSoFar, Rest, InTick
<1>10. QED
  BY <1>1, <1>2, <1>3, <1>4, <1>5, <1>6, <1>7, <1>8, <1>9, StepKinds, Zenon

\* The action about to be carried out, in the program's own text.
LEMMA AtActionIn ==
    ASSUME TypeOK, NEW kind, AtAction(kind)
    PROVE  /\ pc = "actions" /\ InForm /\ Current \in Name
           /\ r \in DOMAIN Rules[Current] /\ a \in DOMAIN Rules[Current][r]
           /\ Rules[Current][r][a] = kind /\ RulesOf(Current) = Rules[Current]
           /\ executed' = executed \cup {<<Current, r, a>>}
           /\ r \in Nat /\ a \in Nat
<1>1. /\ pc = "actions" /\ a <= Len(RulesOf(Current)[r]) /\ RulesOf(Current)[r][a] = kind
      /\ executed' = executed \cup {<<Current, r, a>>}
  BY DEF AtAction
<1>2. InForm /\ r \in Nat \ {0} /\ a \in Nat \ {0} /\ r <= Len(RulesOf(Current))
  BY <1>1 DEF InForm, TypeOK, ControlTypes, IndexesInside
<1>3. Current \in Name
  BY <1>2, CurrentType
<1>4. Rules[Current] \in Seq(Seq(ActionKind))
  BY <1>3, EngineAssumption
<1>5. RulesOf(Current) = Rules[Current]
  <2>1. CASE forms[Current].declared
    BY <2>1 DEF RulesOf
  <2>2. CASE ~forms[Current].declared
    <3>1. RulesOf(Current) = <<>>
      BY <2>2 DEF RulesOf
    <3>2. QED
      BY <1>2, <3>1
  <2>3. QED
    BY <2>1, <2>2
<1>6. r \in DOMAIN Rules[Current] /\ Rules[Current][r] \in Seq(ActionKind)
  BY <1>2, <1>4, <1>5
<1>7. a \in DOMAIN Rules[Current][r]
  BY <1>1, <1>2, <1>5, <1>6
<1>8. QED
  BY <1>1, <1>2, <1>3, <1>5, <1>6, <1>7

\* The entry of that action among those carried out.
LEMMA ExecutedGrows ==
    ASSUME TypeOK, BooksAgree, ExecutedTracked, NEW kind, AtAction(kind)
    PROVE  /\ executed' \in SUBSET (Name \X Nat \X Nat)
           /\ \A e \in executed' :
                 /\ \A k \in i + 1 .. Len(order) : order[k] # e[1]
                 /\ e[1] = Current => e[2] < r \/ (e[2] = r /\ e[3] < a + 1)
           /\ \A n \in 1 .. a : <<Current, r, n>> \in executed'
<1>1. /\ pc = "actions" /\ InForm /\ Current \in Name /\ r \in Nat /\ a \in Nat
      /\ executed' = executed \cup {<<Current, r, a>>}
  BY AtActionIn
<1>2. /\ executed \in SUBSET (Name \X Nat \X Nat) /\ ListTracked
      /\ \A e \in executed : Behind(e)
  BY <1>1 DEF ExecutedTracked, InTick
<1>3. <<Current, r, a>> \in Name \X Nat \X Nat
  BY <1>1
<1>4. i \in DOMAIN order /\ order \in Seq(Name) /\ Current = order[i]
  BY <1>1, CurrentType DEF TypeOK, Current
<1>5. \A k \in i + 1 .. Len(order) : order[k] # Current
  BY <1>4 DEF BooksAgree, NamesAgree
<1>6. ASSUME NEW e \in executed
      PROVE  /\ \A k \in i + 1 .. Len(order) : order[k] # e[1]
             /\ e[1] = Current => e[2] < r \/ (e[2] = r /\ e[3] < a + 1)
  <2>1. e[2] \in Nat /\ e[3] \in Nat
    BY <1>2
  <2>2. /\ \A k \in i + 1 .. Len(order) : order[k] # e[1]
        /\ e[1] = Current => e[2] < r \/ (e[2] = r /\ e[3] < a)
    BY <1>1, <1>2 DEF Behind, Rest, InReview
  <2>3. QED
    BY <1>1, <2>1, <2>2
<1>7. ASSUME NEW n \in 1 .. a PROVE <<Current, r, n>> \in executed'
  <2>1. n \in 1 .. a - 1 \/ n = a
    BY <1>1
  <2>2. QED
    BY <1>1, <1>2, <2>1 DEF ListTracked
<1>8. \A e \in {<<Current, r, a>>} : e[1] = Current /\ e[2] = r /\ e[3] = a /\ a < a + 1
  BY <1>1
<1>9. QED
  BY <1>1, <1>2, <1>3, <1>5, <1>6, <1>7, <1>8

LEMMA ExecutedStays ==
    ASSUME TypeOK, BooksAgree, ExecutedTracked, Stays,
           \/ RuleDoesNotFire \/ RuleFires \/ Subvert \/ ActOrNotify
           \/ (EndRule /\ ~doomed) \/ ImplicitKeep \/ Sustain
    PROVE  ExecutedTracked'
<1>1. /\ UNCHANGED <<i, order>> /\ Current' = Current /\ Rest = i + 1 /\ Rest' = i + 1
      /\ InTick /\ r \in Nat /\ a \in Nat
  BY DEF Stays, InForm, InTick, Rest, Current, TypeOK, ControlTypes
<1>2. executed \in SUBSET (Name \X Nat \X Nat) /\ \A e \in executed : Behind(e)
  BY <1>1 DEF ExecutedTracked
<1>3. \A e \in executed : e[2] \in Nat
  BY <1>2
<1>4. CASE RuleDoesNotFire \/ RuleFires
  <2>1. /\ executed' = executed /\ pc = "rules"
        /\ (pc' = "rules" /\ r' = r + 1) \/ (pc' = "actions" /\ r' = r)
    BY <1>4 DEF RuleDoesNotFire, RuleFires, history
  <2>2. ASSUME NEW e \in executed PROVE Behind(e)'
    <3>1. Behind(e)
      BY <1>2
    <3>2. e[1] = Current => e[2] < r
      BY <2>1, <3>1 DEF Behind, InReview
    <3>3. e[1] = Current => e[2] < r'
      BY <1>1, <1>3, <2>1, <3>2
    <3>4. QED
      BY <1>1, <3>1, <3>3 DEF Behind
  <2>3. pc' = "actions" => a' = 1 /\ ~doomed'
    BY <1>4, <2>1 DEF RuleDoesNotFire, RuleFires
  <2>4. pc' = "actions" => ListTracked'
    BY <2>3 DEF ListTracked
  <2>5. QED
    BY <1>2, <2>1, <2>2, <2>4 DEF ExecutedTracked
<1>5. CASE Subvert \/ ActOrNotify
  <2>1. PICK kind : AtAction(kind)
    BY <1>5 DEF Subvert, ActOrNotify
  <2>2. /\ executed' \in SUBSET (Name \X Nat \X Nat)
        /\ \A e \in executed' :
              /\ \A k \in i + 1 .. Len(order) : order[k] # e[1]
              /\ e[1] = Current => e[2] < r \/ (e[2] = r /\ e[3] < a + 1)
        /\ \A n \in 1 .. a : <<Current, r, n>> \in executed'
    BY <2>1, ExecutedGrows
  <2>3. /\ pc = "actions" /\ pc' = "actions" /\ r' = r /\ a' = a + 1
        /\ doomed' => doomed \/ AtAction("subvert")
    BY <1>5 DEF Subvert, ActOrNotify, AtAction
  <2>4. \A e \in executed' : Behind(e)'
    BY <1>1, <2>2, <2>3 DEF Behind
  <2>5. \A n \in 1 .. a' - 1 : <<Current', r', n>> \in executed'
    BY <1>1, <2>2, <2>3
  <2>6. doomed' => \E n \in DOMAIN Rules[Current'][r'] : Rules[Current'][r'][n] = "subvert"
    <3>1. CASE doomed
      BY <1>1, <2>3, <3>1 DEF ExecutedTracked, ListTracked
    <3>2. CASE AtAction("subvert")
      <4>1. a \in DOMAIN Rules[Current][r] /\ Rules[Current][r][a] = "subvert"
        BY <3>2, AtActionIn
      <4>2. QED
        BY <1>1, <2>3, <4>1
    <3>3. QED
      BY <2>3, <3>1, <3>2
  <2>7. QED
    BY <2>2, <2>3, <2>4, <2>5, <2>6 DEF ExecutedTracked, ListTracked
<1>6. CASE EndRule /\ ~doomed
  <2>1. executed' = executed /\ pc = "actions" /\ pc' = "rules" /\ r' = r + 1
    BY <1>6 DEF EndRule
  <2>2. ASSUME NEW e \in executed PROVE Behind(e)'
    <3>1. Behind(e)
      BY <1>2
    <3>2. e[1] = Current => e[2] < r'
      BY <1>1, <1>3, <2>1, <3>1 DEF Behind, InReview
    <3>3. QED
      BY <1>1, <3>1, <3>2 DEF Behind
  <2>3. QED
    BY <1>2, <2>1, <2>2 DEF ExecutedTracked
<1>7. CASE ImplicitKeep \/ Sustain
  <2>1. executed' = executed /\ pc' = "horizon"
    BY <1>7 DEF ImplicitKeep, Sustain, history
  <2>2. \A e \in executed : Behind(e)'
    BY <1>1, <1>2, <2>1 DEF Behind, InReview
  <2>3. QED
    BY <1>2, <2>1, <2>2 DEF ExecutedTracked
<1>8. QED
  BY <1>4, <1>5, <1>6, <1>7

\* What a step that leaves the current form carries out.
LEMMA ExecutedLeaving ==
    ASSUME TypeOK, BooksAgree, ExecutedTracked, InForm,
           executed' = executed \/ \E kind : AtAction(kind)
    PROVE  /\ executed' \in SUBSET (Name \X Nat \X Nat)
           /\ \A e \in executed' : \A k \in i + 1 .. Len(order) : order[k] # e[1]
<1>1. CASE executed' = executed
  BY <1>1 DEF ExecutedTracked, InForm, InTick, Behind, Rest
<1>2. CASE \E kind : AtAction(kind)
  BY <1>2, ExecutedGrows
<1>3. QED
  BY <1>1, <1>2

LEMMA ExecutedPasses ==
    ASSUME TypeOK, BooksAgree, ExecutedTracked, Passes,
           ReclassifyEquilibrium \/ ReclassifyNonequilibrium \/ SurviveTick
    PROVE  ExecutedTracked'
<1>1. executed' = executed \/ \E kind : AtAction(kind)
  BY ReclassifyShape DEF SurviveTick, history
<1>2. /\ executed' \in SUBSET (Name \X Nat \X Nat)
      /\ \A e \in executed' : \A k \in i + 1 .. Len(order) : order[k] # e[1]
  BY <1>1, ExecutedLeaving DEF Passes
<1>3. pc' = "visit" /\ Rest' = i + 1 /\ order' = order
  BY DEF Passes, Rest
<1>4. \A e \in executed' : Behind(e)'
  BY <1>2, <1>3 DEF Behind, InReview
<1>5. QED
  BY <1>2, <1>3, <1>4 DEF ExecutedTracked

LEMMA ExecutedEnds ==
    ASSUME TypeOK, BooksAgree, ExecutedTracked, Ends,
           Dissolve \/ (EndRule /\ doomed) \/ Collapse \/ DissolveHorizon
    PROVE  ExecutedTracked'
<1>1. executed' = executed \/ \E kind : AtAction(kind)
  BY DEF Dissolve, EndRule, Collapse, DissolveHorizon
<1>2. /\ executed' \in SUBSET (Name \X Nat \X Nat)
      /\ \A e \in executed' : \A k \in i + 1 .. Len(order) : order[k] # e[1]
  BY <1>1, ExecutedLeaving DEF Ends
<1>3. PICK end : DissolveForm(Current, end)
  BY DEF Ends
<1>4. /\ i \in DOMAIN order /\ Len(order') = Len(order) - 1
      /\ \A k \in i .. Len(order) - 1 : order'[k] = order[k + 1]
  BY <1>3, OrderWithout DEF Ends
<1>5. pc' = "visit" /\ Rest' = i /\ order \in Seq(Name)
  BY <1>3 DEF DissolveForm, Rest, TypeOK
<1>6. \A k \in i .. Len(order') : k + 1 \in i + 1 .. Len(order) /\ order'[k] = order[k + 1]
  BY <1>4, <1>5
<1>7. \A e \in executed' : Behind(e)'
  BY <1>2, <1>5, <1>6 DEF Behind, InReview
<1>8. QED
  BY <1>2, <1>5, <1>7 DEF ExecutedTracked

LEMMA ExecutedStep ==
    ASSUME TypeOK, BooksAgree, ExecutedTracked, [Next]_vars
    PROVE  ExecutedTracked'
<1>1. CASE (\E f \in Name : Register(f)) \/ StartIteration \/ RunBlock \/ EndTick
  <2>1. executed' = executed /\ pc' \in {"idle", "main"}
    BY <1>1 DEF Register, StartIteration, RunBlock, EndTick, history, control
  <2>2. QED
    BY <2>1 DEF ExecutedTracked, InTick
<1>2. CASE BeginTick
  <2>1. executed' = {} /\ pc' = "visit"
    BY <1>2 DEF BeginTick
  <2>2. QED
    BY <2>1 DEF ExecutedTracked
<1>3. CASE VisitForm
  <2>1. /\ pc = "visit" /\ pc' = "rules" /\ i <= Len(order)
        /\ UNCHANGED <<i, order, executed>> /\ Rest = i /\ Rest' = i + 1 /\ Current' = order[i]
    BY <1>3 DEF VisitForm, Rest, Current
  <2>2. i \in Nat /\ Len(order) \in Nat
    BY DEF TypeOK, ControlTypes
  <2>3. ASSUME NEW e \in executed PROVE Behind(e)'
    <3>1. \A k \in i .. Len(order) : order[k] # e[1]
      BY <2>1 DEF ExecutedTracked, InTick, Behind
    <3>2. Current' # e[1] /\ \A k \in i + 1 .. Len(order) : order[k] # e[1]
      BY <2>1, <2>2, <3>1
    <3>3. QED
      BY <2>1, <3>2 DEF Behind
  <2>4. QED
    BY <2>1, <2>3 DEF ExecutedTracked
<1>4. CASE UNCHANGED vars
  BY <1>4 DEF vars, control, history, time, ExecutedTracked, Behind, ListTracked,
              Rest, Current, InTick, InReview
<1>5. QED
  BY <1>1, <1>2, <1>3, <1>4, StepKinds, ExecutedStays, ExecutedPasses, ExecutedEnds, Zenon

----------------------------------------------------------------------------
(***************************************************************************)
(* Subversion.                                                             *)
(***************************************************************************)

\* A step that carries out no action and ends no subverted form.
LEMMA SubvertSame ==
    ASSUME SubvertsTracked, executed' = executed,
           \A f \in Name : <<f, "dissolve_subvert">> \in journal'
                              => <<f, "dissolve_subvert">> \in journal,
           \A e \in executed : Subverted(e)' => Subverted(e),
           \A e \in executed : Doomed(e) => Doomed(e)',
           InTick' => InTick /\ active' \subseteq active
    PROVE  SubvertsTracked'
<1>1. ASSUME NEW e \in executed', Subverted(e)' PROVE (Reclassified(e) \/ Doomed(e))'
  BY <1>1 DEF SubvertsTracked, Reclassified
<1>2. SubvertRunsItsRule'
  BY DEF SubvertsTracked, SubvertRunsItsRule
<1>3. InTick' => \A f \in Name : <<f, "dissolve_subvert">> \in journal' => f \notin active'
  BY DEF SubvertsTracked
<1>4. QED
  BY <1>1, <1>2, <1>3 DEF SubvertsTracked

\* The rule of a form dissolved by subversion stays the last that was run.
LEMMA RanStays ==
    ASSUME TypeOK, BooksAgree, SubvertsTracked, NEW kind, AtAction(kind),
           \A f \in Name : <<f, "dissolve_subvert">> \in journal'
                              => <<f, "dissolve_subvert">> \in journal,
           active' \subseteq active
    PROVE  /\ SubvertRunsItsRule'
           /\ \A f \in Name : <<f, "dissolve_subvert">> \in journal' => f \notin active'
<1>1. /\ pc = "actions" /\ InForm /\ Current \in Name
      /\ executed' = executed \cup {<<Current, r, a>>}
  BY AtActionIn
<1>2. Current \in active
  BY <1>1, CurrentActive
<1>3. \A f \in Name : <<f, "dissolve_subvert">> \in journal => f \notin active
  BY <1>1 DEF SubvertsTracked, InTick
<1>4. ASSUME NEW f \in Name, <<f, "dissolve_subvert">> \in journal'
      PROVE  \E k \in DOMAIN Rules[f] :
                /\ \E n \in DOMAIN Rules[f][k] : Rules[f][k][n] = "subvert"
                /\ \A n \in DOMAIN Rules[f][k] : <<f, k, n>> \in executed'
                /\ \A e \in executed' : e[1] = f => e[2] <= k
  <2>1. <<f, "dissolve_subvert">> \in journal /\ f # Current
    BY <1>2, <1>3, <1>4
  <2>2. PICK k \in DOMAIN Rules[f] :
                /\ \E n \in DOMAIN Rules[f][k] : Rules[f][k][n] = "subvert"
                /\ \A n \in DOMAIN Rules[f][k] : <<f, k, n>> \in executed
                /\ \A e \in executed : e[1] = f => e[2] <= k
    BY <2>1 DEF SubvertsTracked, SubvertRunsItsRule
  <2>3. \A e \in {<<Current, r, a>>} : e[1] # f
    BY <2>1
  <2>4. \A e \in executed' : e[1] = f => e[2] <= k
    BY <1>1, <2>2, <2>3
  <2>5. QED
    BY <1>1, <2>2, <2>4
<1>5. QED
  BY <1>3, <1>4 DEF SubvertRunsItsRule

LEMMA SubvertStays ==
    ASSUME TypeOK, BooksAgree, ExecutedTracked, SubvertsTracked, Stays,
           \/ RuleDoesNotFire \/ RuleFires \/ Subvert \/ ActOrNotify
           \/ (EndRule /\ ~doomed) \/ ImplicitKeep \/ Sustain
    PROVE  SubvertsTracked'
<1>1. InTick /\ InTick' /\ active' = active /\ Current' = Current
  BY DEF Stays, InForm, InTick, Current
<1>2. journal' = journal
  BY DEF RuleDoesNotFire, RuleFires, Subvert, ActOrNotify, EndRule, ImplicitKeep, Sustain, history
<1>3. CASE RuleDoesNotFire \/ RuleFires \/ (EndRule /\ ~doomed) \/ ImplicitKeep \/ Sustain
  <2>1. executed' = executed /\ (pc # "actions" \/ ~doomed)
    BY <1>3 DEF RuleDoesNotFire, RuleFires, EndRule, ImplicitKeep, Sustain, ReviewDone, history
  <2>2. \A e \in executed : Subverted(e)' => Subverted(e)
    BY <1>1 DEF Subverted
  <2>3. \A e \in executed : ~Doomed(e)
    BY <2>1 DEF Doomed
  <2>4. QED
    BY <1>1, <1>2, <2>1, <2>2, <2>3, SubvertSame
<1>4. CASE Subvert \/ ActOrNotify
  <2>1. PICK kind : AtAction(kind) /\ (kind = "subvert" => Subvert)
    BY <1>4 DEF Subvert, ActOrNotify
  <2>2. /\ Current \in Name /\ Rules[Current][r][a] = kind
        /\ executed' = executed \cup {<<Current, r, a>>}
    BY <2>1, AtActionIn
  <2>3. /\ SubvertRunsItsRule'
        /\ \A f \in Name : <<f, "dissolve_subvert">> \in journal' => f \notin active'
    BY <1>1, <1>2, <2>1, RanStays
  <2>4. pc = "actions" /\ pc' = "actions" /\ r' = r /\ (Subvert => doomed') /\ (doomed => doomed')
    BY <1>4 DEF Subvert, ActOrNotify, AtAction
  <2>5. ASSUME NEW e \in executed, Subverted(e)' PROVE (Reclassified(e) \/ Doomed(e))'
    <3>1. Subverted(e)
      BY <1>1, <2>5 DEF Subverted
    <3>2. Reclassified(e) => Reclassified(e)'
      BY <2>2 DEF Reclassified
    <3>3. Doomed(e) => Doomed(e)'
      BY <1>1, <2>4 DEF Doomed
    <3>4. QED
      BY <3>1, <3>2, <3>3 DEF SubvertsTracked
  <2>6. ASSUME NEW e \in {<<Current, r, a>>}, Subverted(e)' PROVE Doomed(e)'
    <3>1. e[1] = Current /\ e[2] = r /\ e[3] = a
      OBVIOUS
    <3>2. kind = "subvert"
      BY <2>2, <2>6, <3>1 DEF Subverted
    <3>3. QED
      BY <1>1, <2>1, <2>4, <3>1, <3>2 DEF Doomed
  <2>7. QED
    BY <2>2, <2>3, <2>5, <2>6 DEF SubvertsTracked
<1>5. QED
  BY <1>3, <1>4

LEMMA SubvertPasses ==
    ASSUME TypeOK, BooksAgree, ExecutedTracked, SubvertsTracked, Passes,
           ReclassifyEquilibrium \/ ReclassifyNonequilibrium \/ SurviveTick
    PROVE  SubvertsTracked'
<1>1. InTick /\ InTick' /\ active' = active /\ pc' = "visit"
  BY DEF Passes, InForm, InTick
<1>2. CASE SurviveTick
  <2>1. executed' = executed /\ journal' = journal /\ pc = "horizon"
    BY <1>2 DEF SurviveTick, history
  <2>2. \A e \in executed : (Subverted(e)' => Subverted(e)) /\ ~Doomed(e)
    BY <1>1, <2>1 DEF Subverted, Doomed
  <2>3. QED
    BY <1>1, <2>1, <2>2, SubvertSame
<1>3. CASE ReclassifyEquilibrium \/ ReclassifyNonequilibrium
  <2>1. /\ AtAction("reclassify_eq") \/ AtAction("reclassify_neq")
        /\ \E added : StopReview(Current, added)
    BY <1>3, ReclassifyShape
  <2>2. PICK kind \in {"reclassify_eq", "reclassify_neq"} : AtAction(kind)
    BY <2>1
  <2>3. /\ pc = "actions" /\ Current \in Name /\ Rules[Current][r][a] = kind
        /\ a \in DOMAIN Rules[Current][r]
        /\ executed' = executed \cup {<<Current, r, a>>} /\ r \in Nat /\ a \in Nat
    BY <2>2, AtActionIn
  <2>4. journal' = journal \cup ShortCircuit(Current)
    BY <2>1 DEF StopReview
  <2>5. \A f \in Name : <<f, "dissolve_subvert">> \in journal'
                            => <<f, "dissolve_subvert">> \in journal
    BY <2>4 DEF ShortCircuit
  <2>6. /\ SubvertRunsItsRule'
        /\ \A f \in Name : <<f, "dissolve_subvert">> \in journal' => f \notin active'
    BY <1>1, <2>2, <2>5, RanStays
  <2>7. ASSUME NEW e \in executed, Subverted(e)' PROVE Reclassified(e)'
    <3>1. Subverted(e)
      BY <1>1, <2>7 DEF Subverted
    <3>2. CASE Reclassified(e)
      BY <2>3, <3>2 DEF Reclassified
    <3>3. CASE Doomed(e)
      <4>1. e[1] = Current /\ e[2] = r /\ e[3] < a
        <5>1. Behind(e) /\ e[3] \in Nat /\ e[2] \in Nat
          BY <1>1 DEF ExecutedTracked
        <5>2. e[1] = Current /\ e[2] = r
          BY <3>3 DEF Doomed
        <5>3. QED
          BY <2>3, <5>1, <5>2 DEF Behind, InReview
      <4>2. e[3] \in Nat
        BY DEF ExecutedTracked
      <4>3. a > e[3] /\ <<e[1], e[2], a>> \in executed'
        BY <2>3, <4>1, <4>2
      <4>4. QED
        BY <2>3, <4>1, <4>3 DEF Reclassified
    <3>4. QED
      BY <3>1, <3>2, <3>3 DEF SubvertsTracked
  <2>8. ASSUME NEW e \in {<<Current, r, a>>} PROVE ~Subverted(e)'
    <3>1. e[1] = Current /\ e[2] = r /\ e[3] = a
      OBVIOUS
    <3>2. QED
      BY <2>3, <3>1 DEF Subverted
  <2>9. QED
    BY <2>3, <2>6, <2>7, <2>8 DEF SubvertsTracked
<1>4. QED
  BY <1>2, <1>3

LEMMA SubvertEnds ==
    ASSUME TypeOK, BooksAgree, ExecutedTracked, SubvertsTracked, Ends,
           Dissolve \/ (EndRule /\ doomed) \/ Collapse \/ DissolveHorizon
    PROVE  SubvertsTracked'
<1>1. InTick /\ InForm /\ Current \in Name /\ Current \in active
  BY CurrentType, CurrentActive DEF Ends, InForm, InTick
<1>2. PICK end : /\ DissolveForm(Current, end)
                 /\ end = "dissolve_subvert" => EndRule /\ doomed
                 /\ end = "dissolve_rule" => AtAction("dissolve")
                 /\ end \notin {"dissolve_subvert", "dissolve_rule"} =>
                       executed' = executed /\ pc # "actions"
                 /\ end \in EndKind
  BY DEF Dissolve, EndRule, Collapse, DissolveHorizon, ReviewDone, EndKind
<1>3. /\ active' = active \ {Current} /\ pc' = "visit"
      /\ journal' = journal \cup {<<Current, end>>} \cup ShortCircuit(Current)
  BY <1>2 DEF DissolveForm
<1>4. InTick'
  BY <1>3 DEF InTick
<1>5. \A e : (Subverted(e)' => Subverted(e) /\ e[1] # Current)
  BY <1>1, <1>3, <1>4 DEF Subverted
<1>6. CASE end = "dissolve_rule"
  <2>1. AtAction("dissolve")
    BY <1>2, <1>6
  <2>2. executed' = executed \cup {<<Current, r, a>>}
    BY <2>1, AtActionIn
  <2>3. \A f \in Name : <<f, "dissolve_subvert">> \in journal'
                            => <<f, "dissolve_subvert">> \in journal
    BY <1>3, <1>6 DEF ShortCircuit
  <2>4. /\ SubvertRunsItsRule'
        /\ \A f \in Name : <<f, "dissolve_subvert">> \in journal' => f \notin active'
    BY <1>3, <2>1, <2>3, RanStays
  <2>5. ASSUME NEW e \in executed, Subverted(e)' PROVE Reclassified(e)'
    <3>1. Subverted(e) /\ e[1] # Current
      BY <1>5, <2>5
    <3>2. Reclassified(e)
      BY <3>1 DEF SubvertsTracked, Doomed
    <3>3. QED
      BY <2>2, <3>2 DEF Reclassified
  <2>6. \A e \in {<<Current, r, a>>} : ~Subverted(e)'
    BY <1>5
  <2>7. QED
    BY <2>2, <2>4, <2>5, <2>6 DEF SubvertsTracked
<1>7. CASE end \notin {"dissolve_subvert", "dissolve_rule"}
  <2>1. executed' = executed /\ pc # "actions"
    BY <1>2, <1>7
  <2>2. \A f \in Name : <<f, "dissolve_subvert">> \in journal'
                            => <<f, "dissolve_subvert">> \in journal
    BY <1>3, <1>7 DEF ShortCircuit
  <2>3. \A e \in executed : ~Doomed(e)
    BY <2>1 DEF Doomed
  <2>4. QED
    BY <1>1, <1>3, <1>5, <2>1, <2>2, <2>3, SubvertSame
<1>8. CASE end = "dissolve_subvert"
  <2>1. EndRule /\ doomed /\ pc = "actions" /\ executed' = executed /\ a > Len(RulesOf(Current)[r])
    BY <1>2, <1>8 DEF EndRule
  <2>2. /\ r \in Nat \ {0} /\ a \in Nat \ {0} /\ r <= Len(RulesOf(Current))
    BY <2>1 DEF TypeOK, ControlTypes, IndexesInside
  <2>3. Rules[Current] \in Seq(Seq(ActionKind))
    BY <1>1, EngineAssumption
  <2>4. RulesOf(Current) = Rules[Current]
    <3>1. RulesOf(Current) = Rules[Current] \/ RulesOf(Current) = <<>>
      BY DEF RulesOf
    <3>2. QED
      BY <2>2, <3>1
  <2>5. r \in DOMAIN Rules[Current] /\ Rules[Current][r] \in Seq(ActionKind)
    BY <2>2, <2>3, <2>4
  <2>6. \A n \in DOMAIN Rules[Current][r] : n \in 1 .. a - 1
    BY <2>1, <2>2, <2>4, <2>5
  <2>7. /\ \E n \in DOMAIN Rules[Current][r] : Rules[Current][r][n] = "subvert"
        /\ \A n \in DOMAIN Rules[Current][r] : <<Current, r, n>> \in executed
    BY <2>1, <2>6 DEF ExecutedTracked, ListTracked
  <2>8. ASSUME NEW e \in executed, e[1] = Current PROVE e[2] <= r
    <3>1. Behind(e) /\ e[2] \in Nat
      BY <1>1 DEF ExecutedTracked
    <3>2. QED
      BY <2>1, <2>2, <2>8, <3>1 DEF Behind, InReview
  <2>9. \A f \in Name : <<f, "dissolve_subvert">> \in journal'
                            => f = Current \/ <<f, "dissolve_subvert">> \in journal
    BY <1>3, <1>8 DEF ShortCircuit
  <2>10. SubvertRunsItsRule'
    <3> SUFFICES ASSUME NEW f \in Name, <<f, "dissolve_subvert">> \in journal'
                 PROVE  \E k \in DOMAIN Rules[f] :
                          /\ \E n \in DOMAIN Rules[f][k] : Rules[f][k][n] = "subvert"
                          /\ \A n \in DOMAIN Rules[f][k] : <<f, k, n>> \in executed
                          /\ \A e \in executed : e[1] = f => e[2] <= k
      BY <2>1 DEF SubvertRunsItsRule
    <3>1. CASE f = Current
      BY <2>5, <2>7, <2>8, <3>1
    <3>2. CASE <<f, "dissolve_subvert">> \in journal
      BY <3>2 DEF SubvertsTracked, SubvertRunsItsRule
    <3>3. QED
      BY <2>9, <3>1, <3>2
  <2>11. \A f \in Name : <<f, "dissolve_subvert">> \in journal' => f \notin active'
    BY <1>1, <1>3, <2>9 DEF SubvertsTracked
  <2>12. ASSUME NEW e \in executed', Subverted(e)' PROVE Reclassified(e)'
    <3>1. Subverted(e) /\ e[1] # Current
      BY <1>5, <2>12
    <3>2. Reclassified(e)
      BY <2>1, <3>1 DEF SubvertsTracked, Doomed
    <3>3. QED
      BY <2>1, <3>2 DEF Reclassified
  <2>13. QED
    BY <2>10, <2>11, <2>12 DEF SubvertsTracked
<1>9. QED
  BY <1>6, <1>7, <1>8

LEMMA SubvertStep ==
    ASSUME TypeOK, BooksAgree, ExecutedTracked, SubvertsTracked, [Next]_vars
    PROVE  SubvertsTracked'
<1>1. CASE \E f \in Name : Register(f)
  <2>1. PICK f \in Name : Register(f)
    BY <1>1
  <2> DEFINE form == [conj |-> Conj[f], created |-> sim_time, last |-> sim_time,
                      hver |-> 1, subverted |-> FALSE, declared |-> TRUE,
                      mver |-> IF Conj[f] = "nonequilibrium" THEN 1 ELSE 0]
  <2>2. /\ Bind(f, form) /\ pc = "idle" /\ pc' = "idle"
        /\ executed' = executed /\ journal' = journal
    BY <2>1 DEF Register, control, history
  <2>3. form.subverted = FALSE
    OBVIOUS
  <2>4. forms' = [forms EXCEPT ![f] = form] /\ active' = active \cup {f}
    BY <2>2 DEF Bind
  <2> HIDE DEF form
  <2>5. forms'[f] = form /\ \A g \in Name : g # f => forms'[g] = forms[g]
    BY <2>4 DEF TypeOK
  <2>6. ~InTick /\ ~InTick' /\ \A e \in executed : ~Doomed(e)
    BY <2>2 DEF InTick, Doomed
  <2>7. \A e \in executed : e[1] \in Name
    BY DEF ExecutedTracked
  <2>8. ASSUME NEW e \in executed, Subverted(e)' PROVE Subverted(e)
    <3>1. e[1] \in active' /\ forms'[e[1]].subverted /\ Rules[e[1]][e[2]][e[3]] = "subvert"
      BY <2>6, <2>8, Zenon DEF Subverted
    <3>2. e[1] # f
      BY <2>3, <2>5, <3>1, Zenon
    <3>3. forms'[e[1]] = forms[e[1]] /\ e[1] \in active
      BY <2>4, <2>5, <2>7, <3>1, <3>2
    <3>4. QED
      BY <3>1, <3>3, Zenon DEF Subverted
  <2>9. QED
    BY <2>2, <2>6, <2>8, SubvertSame
<1>2. CASE StartIteration \/ RunBlock \/ EndTick
  <2>1. /\ pc \in {"idle", "main", "visit"} /\ pc' \in {"idle", "main"}
        /\ executed' = executed /\ journal' = journal /\ active' = active
        /\ RunBlock \/ forms' = forms
    BY <1>2 DEF StartIteration, RunBlock, EndTick, history
  <2>2. ~InTick' /\ \A e \in executed : ~Doomed(e)
    BY <2>1 DEF InTick, Doomed
  <2>3. \A f \in Name : forms'[f].subverted <=> forms[f].subverted
    <3>1. CASE forms' = forms
      BY <3>1, Zenon
    <3>2. CASE RunBlock
      <4>1. \A f \in Name : \/ forms'[f] = forms[f]
                            \/ forms'[f] = [forms[f] EXCEPT !.last = sim_time, !.mver = @ + 1]
        BY <3>2 DEF RunBlock
      <4>2. ASSUME NEW f \in Name PROVE forms'[f].subverted = forms[f].subverted
        <5>1. forms[f] \in FormRecord
          BY DEF TypeOK
        <5>2. QED
          BY <4>1, <5>1 DEF FormRecord
      <4>3. QED
        BY <4>2, Zenon
    <3>3. QED
      BY <2>1, <3>1, <3>2
  <2>4. ASSUME NEW e \in executed, Subverted(e)' PROVE Subverted(e)
    <3>1. e[1] \in Name
      BY DEF ExecutedTracked
    <3>2. QED
      BY <2>1, <2>2, <2>3, <2>4, <3>1, Zenon DEF Subverted
  <2>5. QED
    BY <2>1, <2>2, <2>4, SubvertSame
<1>3. CASE BeginTick
  <2>1. executed' = {} /\ journal' = {}
    BY <1>3 DEF BeginTick
  <2>2. QED
    BY <2>1 DEF SubvertsTracked, SubvertRunsItsRule
<1>4. CASE VisitForm
  <2>1. /\ pc = "visit" /\ pc' = "rules" /\ executed' = executed /\ journal' = journal
        /\ active' = active
    BY <1>4 DEF VisitForm
  <2>2. InTick /\ InTick' /\ \A e \in executed : ~Doomed(e)
    BY <2>1 DEF InTick, Doomed
  <2>3. \A e \in executed : Subverted(e)' => Subverted(e)
    BY <2>1, <2>2 DEF Subverted
  <2>4. QED
    BY <2>1, <2>2, <2>3, SubvertSame
<1>5. CASE UNCHANGED vars
  <2>1. UNCHANGED <<pc, i, r, order, doomed, executed, journal, active, forms>>
    BY <1>5 DEF vars, control, history
  <2>2. (InTick' <=> InTick) /\ \A e \in executed : (Subverted(e)' => Subverted(e)) /\ (Doomed(e) => Doomed(e)')
    BY <2>1, Zenon DEF InTick, Subverted, Doomed, Current
  <2>3. QED
    BY <2>1, <2>2, SubvertSame
<1>6. QED
  BY <1>1, <1>2, <1>3, <1>4, <1>5, StepKinds, SubvertStays, SubvertPasses, SubvertEnds, Zenon

\* Every tick visits each form once, in order, and carries out the actions of
\* a review in theirs.
THEOREM ReviewsTracked == Spec => []RInv
<1>1. Init => RInv
  <2> SUFFICES ASSUME Init PROVE RInv
    OBVIOUS
  <2>1. pc = "idle" /\ clock = 0 /\ executed = {} /\ journal = {}
    BY DEF Init
  <2>2. QED
    BY <2>1 DEF RInv, VisitTracked, ExecutedTracked, SubvertsTracked, SubvertRunsItsRule, InTick
<1>2. TypeOK /\ BooksAgree /\ RInv /\ [Next]_vars => RInv'
  BY VisitStep, ExecutedStep, SubvertStep DEF RInv
<1>3. QED
  BY <1>1, <1>2, TypeCorrect, BooksCorrect, PTL DEF Spec

\* The index loop of tick visits each form that was active at its start once
\* and in order, whatever it dissolves under way.
THEOREM FormsVisitedOnce == Spec => []EveryFormOncePerTick
<1>1. RInv => EveryFormOncePerTick
  BY DEF RInv, VisitTracked, EveryFormOncePerTick
<1>2. QED
  BY <1>1, ReviewsTracked, PTL

\* Subversion ends a form in its tick and after its whole rule, unless a
\* reclassification of the same list saves it.
THEOREM SubversionHolds == Spec => []SubvertAsWritten
<1>1. RInv => SubvertAsWritten
  <2> SUFFICES ASSUME RInv PROVE SubvertAsWritten
    OBVIOUS
  <2>1. ASSUME pc = "idle", NEW e \in executed, e[1] \in active, forms[e[1]].subverted,
               Rules[e[1]][e[2]][e[3]] = "subvert"
        PROVE  Reclassified(e)
    <3>1. Subverted(e) /\ ~Doomed(e)
      BY <2>1, Zenon DEF Subverted, Doomed
    <3>2. QED
      BY <3>1 DEF RInv, SubvertsTracked
  <2>2. OnlyReclassifySaves
    BY <2>1, Zenon DEF OnlyReclassifySaves, Reclassified
  <2>3. QED
    BY <2>2 DEF RInv, SubvertsTracked, SubvertAsWritten
<1>2. QED
  BY <1>1, ReviewsTracked, PTL
=============================================================================
