------------------------ MODULE EngineDeadlineProofs ------------------------
(***************************************************************************)
(* "O heap nunca perde um prazo" (scheduler.rs:10) for every program: IInv *)
(* is inductive, and between ticks it gives NoLostDeadline, HorizonPrompt  *)
(* and CollapsePrompt, also over several runs of the process that reload   *)
(* forms from the disk.  And a form that main keeps often enough stays.    *)
(***************************************************************************)
EXTENDS EngineProofs, EngineRestart

Tracked(f) == HorizonTrack(f) /\ MaintenanceTrack(f)

(***************************************************************************)
(* A form that a step does not concern.                                    *)
(***************************************************************************)

\* The horizon of f stays tracked if the step keeps its entries and its place
\* relative to the index.
LEMMA HorizonStable ==
    ASSUME NEW f \in Name, HorizonTrack(f),
           forms'[f].hver = forms[f].hver, forms'[f].created = forms[f].created,
           sim_time' = sim_time, Pending(f)' <=> Pending(f), fired \subseteq fired',
           \A e \in heap : e.form = f => e \in heap',
           \A e \in due : e.form = f => e \in due'
    PROVE  HorizonTrack(f)'
<1>1. HorizonEnd(f)' = HorizonEnd(f)
  BY DEF HorizonEnd
<1>2. CASE Pending(f)
  BY <1>1, <1>2 DEF HorizonTrack, HorizonToCheck, Drained, Ahead, Live
<1>3. CASE ~Pending(f)
  BY <1>1, <1>3 DEF HorizonTrack, HorizonChecked, Covered
<1>4. QED
  BY <1>2, <1>3

LEMMA MaintenanceStable ==
    ASSUME NEW f \in Name, MaintenanceTrack(f),
           forms'[f].mver = forms[f].mver, forms'[f].last = forms[f].last,
           forms'[f].conj = forms[f].conj, forms'[f].declared = forms[f].declared,
           sim_time' = sim_time, MaintenancePending(f)' <=> MaintenancePending(f),
           \A e \in heap : e.form = f => e \in heap',
           \A e \in due : e.form = f => e \in due'
    PROVE  MaintenanceTrack(f)'
<1>1. MaintenanceEnd(f)' = MaintenanceEnd(f) /\ (Unreviewed(f)' <=> Unreviewed(f))
  BY DEF MaintenanceEnd, Unreviewed, IsNeq, RulesOf
<1>2. CASE MaintenancePending(f)
  BY <1>1, <1>2 DEF MaintenanceTrack, MaintenanceToCheck, Drained, Ahead, Live
<1>3. CASE ~MaintenancePending(f)
  BY <1>1, <1>3 DEF MaintenanceTrack, MaintenanceChecked, Covered
<1>4. QED
  BY <1>2, <1>3

\* Both deadlines of a form that is neither changed nor passed by the step.
LEMMA TrackedStable ==
    ASSUME NEW f \in Name, Tracked(f), forms'[f] = forms[f],
           sim_time' = sim_time, Pending(f)' <=> Pending(f),
           MaintenancePending(f)' <=> MaintenancePending(f), fired \subseteq fired',
           \A e \in heap : e.form = f => e \in heap',
           \A e \in due : e.form = f => e \in due'
    PROVE  Tracked(f)'
BY HorizonStable, MaintenanceStable DEF Tracked

\* A drained entry put back for the next tick, or one still ahead, covers the
\* deadline.
LEMMA CheckedCovers ==
    ASSUME TypeOK, NEW f \in Name, NEW kind, NEW version, NEW limit, NEW E,
           \/ /\ Drained(f, kind, version)
              /\ Postpone(LiveDue(f, kind, version)) \subseteq E
           \/ /\ Ahead(f, kind, version, limit)
              /\ heap \subseteq E
    PROVE  Covered(E, f, kind, version, limit)
<1>1. CASE /\ Drained(f, kind, version)
           /\ Postpone(LiveDue(f, kind, version)) \subseteq E
  <2>1. PICK e \in due : Live(e, f, kind, version)
    BY <1>1 DEF Drained
  <2>2. e \in LiveDue(f, kind, version)
    BY <2>1 DEF LiveDue, DueOf, Live
  <2> DEFINE d == [e EXCEPT !.at = sim_time + TickSeconds]
  <2>3. d \in E
    BY <1>1, <2>2 DEF Postpone
  <2>4. e \in EntryRecord /\ sim_time + TickSeconds \in Nat
    BY ConstantTypes DEF TypeOK
  <2>5. /\ d.form = f /\ d.deadline = kind /\ d.version = version
        /\ d.at = sim_time + TickSeconds
    BY <2>1, <2>4 DEF Live, EntryRecord
  <2> HIDE DEF d
  <2>6. d.at <= sim_time + TickSeconds
    BY <2>4, <2>5
  <2>7. QED
    BY <2>3, <2>5, <2>6 DEF Covered
<1>2. CASE Ahead(f, kind, version, limit) /\ heap \subseteq E
  BY <1>2 DEF Ahead, Covered, Live
<1>3. QED
  BY <1>1, <1>2

(***************************************************************************)
(* The place of a form relative to the index.                              *)
(***************************************************************************)

LEMMA CurrentPending ==
    ASSUME TypeOK, InForm
    PROVE  Pending(Current)
BY CurrentType DEF Pending, InTick, InForm, Current, TypeOK, ControlTypes

\* Moving the index past the current form takes this form alone out of the
\* pending ones.
LEMMA PassCurrent ==
    ASSUME TypeOK, BooksAgree, InForm, pc' = "visit", i' = i + 1, order' = order,
           NEW f \in active
    PROVE  Pending(f)' <=> Pending(f) /\ f # Current
<1>1. /\ Current = order[i] /\ i \in DOMAIN order /\ order \in Seq(Name)
      /\ i \in Nat
      /\ \A k, l \in DOMAIN order : order[k] = order[l] => k = l
  BY CurrentType DEF BooksAgree, NamesAgree, Current, TypeOK, ControlTypes
<1>2. InTick /\ InTick'
  BY DEF InTick, InForm
<1>3. Pending(f)' <=> \E k \in DOMAIN order : k >= i + 1 /\ order[k] = f
  BY <1>2 DEF Pending
<1>4. Pending(f) <=> \E k \in DOMAIN order : k >= i /\ order[k] = f
  BY <1>2 DEF Pending
<1>5. \A k \in DOMAIN order : k >= i + 1 <=> k >= i /\ k # i
  BY <1>1
<1>6. QED
  BY <1>1, <1>3, <1>4, <1>5

\* Dissolving the current form moves no other form across the index.
LEMMA PendingAfterDissolve ==
    ASSUME TypeOK, BooksAgree, InForm, pc' = "visit", i' = i,
           order' = Without(order, Current)
    PROVE  \A f \in active : f # Current => (Pending(f)' <=> Pending(f))
<1>1. /\ Current = order[i] /\ i \in DOMAIN order /\ order \in Seq(Name) /\ i \in Nat
      /\ \A k, l \in DOMAIN order : order[k] = order[l] => k = l
  BY CurrentType DEF BooksAgree, NamesAgree, Current, TypeOK, ControlTypes
<1>2. /\ order' \in Seq(Name) /\ Len(order') = Len(order) - 1
      /\ \A k \in 1 .. Len(order) - 1 :
           order'[k] = IF k < i THEN order[k] ELSE order[k + 1]
  <2>1. \A k \in DOMAIN order : order[k] = order[i] => k = i
    BY <1>1
  <2>2. QED
    BY <1>1, <2>1, WithoutProperties
<1>3. DOMAIN order' = 1 .. Len(order) - 1 /\ DOMAIN order = 1 .. Len(order) /\ Len(order) \in Nat
  BY <1>1, <1>2
<1>4. InTick /\ InTick'
  BY DEF InTick, InForm
<1>5. ASSUME NEW f \in active, f # Current, NEW k \in DOMAIN order, k >= i, order[k] = f
      PROVE  \E l \in DOMAIN order' : l >= i /\ order'[l] = f
  <2>1. k > i
    BY <1>1, <1>5
  <2>2. k - 1 \in DOMAIN order' /\ k - 1 >= i /\ ~(k - 1 < i) /\ (k - 1) + 1 = k
    BY <1>1, <1>3, <2>1
  <2>3. order'[k - 1] = f
    BY <1>2, <1>3, <1>5, <2>2
  <2>4. QED
    BY <2>2, <2>3
<1>6. ASSUME NEW f \in active, NEW l \in DOMAIN order', l >= i, order'[l] = f
      PROVE  \E k \in DOMAIN order : k >= i /\ order[k] = f
  <2>1. l + 1 \in DOMAIN order /\ l + 1 >= i /\ ~(l < i)
    BY <1>1, <1>3, <1>6
  <2>2. order[l + 1] = f
    BY <1>2, <1>3, <1>6, <2>1
  <2>3. QED
    BY <2>1, <2>2
<1>7. QED
  BY <1>1, <1>4, <1>5, <1>6 DEF Pending

(***************************************************************************)
(* One lemma per action that moves time, the index, a form or an entry.    *)
(***************************************************************************)

LEMMA RegisterTracked ==
    ASSUME IInv, NEW g \in Name, Register(g), NEW f \in active'
    PROVE  Tracked(f)'
<1> DEFINE form == [conj |-> Conj[g], created |-> sim_time, last |-> sim_time,
                    hver |-> 1, subverted |-> FALSE, declared |-> TRUE,
                    mver |-> IF Conj[g] = "nonequilibrium" THEN 1 ELSE 0]
<1>1. /\ forms' = [forms EXCEPT ![g] = form] /\ active' = active \cup {g}
      /\ heap' = heap \cup BindEntries(g, form)
      /\ sim_time' = sim_time /\ due' = due /\ fired' = fired /\ pc' = pc /\ pc = "idle"
  BY DEF Register, Bind, time, control, history
<1>2. /\ forms \in [Name -> FormRecord] /\ active \in SUBSET Name /\ sim_time \in Nat
      /\ Horizon[g] \in Nat /\ Deadline[g] \in Nat
  BY ConstantTypes DEF IInv, TypeOK
<1>3. ~Pending(f) /\ ~Pending(f)' /\ ~MaintenancePending(f) /\ ~MaintenancePending(f)'
  BY <1>1 DEF MaintenancePending, Pending, InTick
<1>4. CASE f = g
  <2>1. /\ forms'[f].created = sim_time /\ forms'[f].last = sim_time
        /\ forms'[f].hver = form.hver /\ forms'[f].mver = form.mver
        /\ forms'[f].conj = form.conj
    BY <1>1, <1>2, <1>4
  <2>2. HorizonTrack(f)'
    <3>1. Entry(f, "Horizon", sim_time + Horizon[f], form.hver) \in heap'
      BY <1>1, <1>4 DEF BindEntries
    <3>2. Covered(heap, f, "Horizon", forms[f].hver, HorizonEnd(f))'
      BY <1>2, <1>4, <2>1, <3>1 DEF Covered, Entry, HorizonEnd
    <3>3. QED
      BY <1>1, <1>3, <2>1, <3>2 DEF HorizonTrack, HorizonChecked
  <2>3. MaintenanceTrack(f)'
    <3>1. SUFFICES ASSUME Unreviewed(f)' PROVE MaintenanceChecked(f)'
      BY <1>3 DEF MaintenanceTrack
    <3>2. form.conj = "nonequilibrium"
      BY <2>1, <3>1 DEF Unreviewed, IsNeq
    <3>3. Entry(f, "Maintenance", sim_time + Deadline[f], form.mver) \in heap'
      BY <1>1, <1>4, <3>2 DEF BindEntries, MaintenanceEntry
    <3>4. Covered(heap, f, "Maintenance", forms[f].mver, MaintenanceEnd(f))'
      BY <1>2, <1>4, <2>1, <3>3 DEF Covered, Entry, MaintenanceEnd
    <3>5. QED
      BY <1>1, <1>2, <1>4, <2>1, <3>4 DEF MaintenanceChecked, MaintenanceEnd
  <2>4. QED
    BY <2>2, <2>3 DEF Tracked
<1>5. CASE f # g
  <2>1. f \in active /\ forms'[f] = forms[f]
    BY <1>1, <1>2, <1>5
  <2>2. Tracked(f)
    BY <2>1 DEF IInv, HorizonTracked, MaintenanceTracked, Tracked
  <2> HIDE DEF form
  <2>3. QED
    BY <1>1, <1>2, <1>3, <2>1, <2>2, TrackedStable
<1>6. QED
  BY <1>4, <1>5

\* A keep moves the maintenance of the kept forms, with a new entry for it.
LEMMA RunBlockTracked ==
    ASSUME IInv, RunBlock, NEW f \in active'
    PROVE  Tracked(f)'
<1> DEFINE kept == {g \in Blocks[b].keeps \cap active : IsNeq(g)}
<1>1. /\ pc = "main" /\ pc' = pc /\ active' = active
      /\ sim_time' = sim_time /\ due' = due /\ fired' = fired
  BY DEF RunBlock, history
<1>2. /\ forms \in [Name -> FormRecord] /\ active \in SUBSET Name /\ sim_time \in Nat
      /\ f \in Name /\ f \in active /\ Deadline[f] \in Nat
  BY <1>1, ConstantTypes DEF IInv, TypeOK
<1>3. ~Pending(f) /\ ~Pending(f)' /\ ~MaintenancePending(f) /\ ~MaintenancePending(f)'
  BY <1>1 DEF MaintenancePending, Pending, InTick
<1>4. Tracked(f) /\ HorizonTrack(f)
  BY <1>2 DEF IInv, HorizonTracked, MaintenanceTracked, Tracked
<1>5. heap \subseteq heap'
  BY DEF RunBlock
<1>6. CASE BlockDue(b) /\ f \in kept
  <2>1. /\ forms'[f] = [forms[f] EXCEPT !.last = sim_time, !.mver = @ + 1]
        /\ MaintenanceEntry(f, forms'[f]) \in heap'
    BY <1>2, <1>6 DEF RunBlock
  <2>2. /\ forms'[f].hver = forms[f].hver /\ forms'[f].created = forms[f].created
        /\ forms'[f].last = sim_time
    <3>1. forms[f] \in FormRecord
      BY <1>2
    <3>2. QED
      BY <2>1, <3>1 DEF FormRecord
  <2>3. HorizonTrack(f)'
    BY <1>1, <1>2, <1>3, <1>4, <1>5, <2>2, HorizonStable
  <2>4. Covered(heap, f, "Maintenance", forms[f].mver, MaintenanceEnd(f))'
    BY <1>2, <2>1, <2>2 DEF Covered, MaintenanceEntry, Entry, MaintenanceEnd
  <2>5. MaintenanceTrack(f)'
    BY <1>1, <1>2, <1>3, <2>2, <2>4 DEF MaintenanceTrack, MaintenanceChecked, MaintenanceEnd
  <2>6. QED
    BY <2>3, <2>5 DEF Tracked
<1>7. CASE ~(BlockDue(b) /\ f \in kept)
  <2>1. forms'[f] = forms[f]
    BY <1>2, <1>7 DEF RunBlock
  <2> HIDE DEF kept
  <2>2. QED
    BY <1>1, <1>2, <1>3, <1>4, <1>5, <2>1, TrackedStable
<1>8. QED
  BY <1>6, <1>7

\* The entries that the heap held for the old instant are drained for the new
\* one, or still ahead of it.
LEMMA BeginTickTracked ==
    ASSUME IInv, BeginTick, NEW f \in active'
    PROVE  Tracked(f)'
<1>1. /\ pc = "main" /\ pc' = "visit" /\ i' = 1 /\ active' = active /\ order' = order
      /\ forms' = forms /\ sim_time' = sim_time + TickSeconds
      /\ due' = {e \in heap : e.at <= sim_time'} /\ heap' = heap \ due'
  BY DEF BeginTick
<1>2. /\ f \in Name /\ f \in active /\ sim_time \in Nat /\ TickSeconds \in Nat
      /\ heap \in SUBSET EntryRecord /\ forms[f] \in FormRecord /\ order \in Seq(Name)
      /\ Deadline[f] \in Nat /\ Horizon[f] \in Nat
  BY <1>1, ConstantTypes DEF IInv, TypeOK
<1>3. ~Pending(f) /\ ~MaintenancePending(f)
  BY <1>1 DEF MaintenancePending, Pending, InTick
<1>4. Pending(f)' /\ MaintenancePending(f)'
  <2>1. PICK k \in DOMAIN order : order[k] = f
    BY <1>2 DEF IInv, BooksAgree, NamesAgree
  <2>2. k >= 1
    BY <1>2
  <2>3. QED
    BY <1>1, <2>1, <2>2 DEF MaintenancePending, Pending, InTick
<1>5. ASSUME NEW kind, NEW version, NEW limit \in Nat,
             Covered(heap, f, kind, version, limit)
      PROVE  \/ \E e \in due' : Live(e, f, kind, version)
             \/ sim_time' < limit /\ \E e \in heap' : Live(e, f, kind, version) /\ e.at <= limit
  <2>1. PICK e \in heap : /\ e.form = f /\ e.deadline = kind /\ e.version = version
                          /\ (e.at <= limit \/ e.at <= sim_time + TickSeconds)
    BY <1>5 DEF Covered
  <2>2. e.at \in Nat
    BY <1>2 DEF EntryRecord
  <2>3. CASE e.at <= sim_time'
    BY <1>1, <2>1, <2>3 DEF Live
  <2>4. CASE ~(e.at <= sim_time')
    BY <1>1, <1>2, <2>1, <2>2, <2>4 DEF Live
  <2>5. QED
    BY <2>3, <2>4
<1>6. HorizonTrack(f)'
  <2>1. Covered(heap, f, "Horizon", forms[f].hver, HorizonEnd(f))
    BY <1>2, <1>3 DEF IInv, HorizonTracked, HorizonTrack, HorizonChecked
  <2>2. HorizonEnd(f) \in Nat /\ HorizonEnd(f)' = HorizonEnd(f)
    BY <1>1, <1>2 DEF HorizonEnd, FormRecord
  <2>3. QED
    BY <1>1, <1>4, <1>5, <2>1, <2>2 DEF HorizonTrack, HorizonToCheck, Drained, Ahead
<1>7. MaintenanceTrack(f)'
  <2>1. SUFFICES ASSUME Unreviewed(f)' PROVE MaintenanceToCheck(f)'
    BY <1>4 DEF MaintenanceTrack
  <2>2. Unreviewed(f)
    BY <1>1, <2>1 DEF Unreviewed, IsNeq, RulesOf
  <2>3. Covered(heap, f, "Maintenance", forms[f].mver, MaintenanceEnd(f))
    BY <1>2, <1>3, <2>2 DEF IInv, MaintenanceTracked, MaintenanceTrack, MaintenanceChecked
  <2>4. MaintenanceEnd(f) \in Nat /\ MaintenanceEnd(f)' = MaintenanceEnd(f)
    BY <1>1, <1>2 DEF MaintenanceEnd, FormRecord
  <2>5. QED
    BY <1>1, <1>5, <2>3, <2>4 DEF MaintenanceToCheck, Drained, Ahead
<1>8. QED
  BY <1>6, <1>7 DEF Tracked

\* Dissolving the current form touches no entry and no deadline of another.
LEMMA EndingTracked ==
    ASSUME IInv, Dissolve \/ Collapse \/ DissolveHorizon \/ (EndRule /\ doomed),
           NEW f \in active'
    PROVE  Tracked(f)'
<1>1. InForm /\ fired \subseteq fired' /\ \E end : DissolveForm(Current, end)
  BY DEF Dissolve, Collapse, DissolveHorizon, EndRule, AtAction, ReviewDone, InForm
<1>2. /\ active' = active \ {Current} /\ forms' = [forms EXCEPT ![Current] = Blank]
      /\ order' = Without(order, Current)
      /\ heap' = {e \in heap : e.form # Current} /\ due' = {e \in due : e.form # Current}
      /\ pc' = "visit" /\ i' = i /\ sim_time' = sim_time
  BY <1>1 DEF DissolveForm, RemoveForm, DueOf, time
<1>3. f \in active /\ f # Current /\ f \in Name /\ forms'[f] = forms[f]
  BY <1>2 DEF IInv, TypeOK
<1>4. Pending(f)' <=> Pending(f)
  BY <1>1, <1>2, <1>3, PendingAfterDissolve DEF IInv
<1>5. MaintenancePending(f)' <=> MaintenancePending(f)
  BY <1>2, <1>3, <1>4 DEF MaintenancePending
<1>6. Tracked(f)
  BY <1>3 DEF IInv, HorizonTracked, MaintenanceTracked, Tracked
<1>7. (\A e \in heap : e.form = f => e \in heap') /\ (\A e \in due : e.form = f => e \in due')
  BY <1>2, <1>3
<1>8. QED
  BY <1>1, <1>2, <1>3, <1>4, <1>5, <1>6, <1>7, TrackedStable

\* What StopReview and SurviveTick leave to the other forms.
LEMMA PassedOther ==
    ASSUME IInv, InForm, NEW f \in active, f # Current, forms'[f] = forms[f],
           pc' = "visit", i' = i + 1, order' = order, sim_time' = sim_time,
           fired \subseteq fired', heap \subseteq heap', due' = due \ DueOf(Current)
    PROVE  Tracked(f)'
<1>1. Pending(f)' <=> Pending(f)
  BY PassCurrent DEF IInv
<1>2. MaintenancePending(f)' <=> MaintenancePending(f)
  BY <1>1 DEF MaintenancePending
<1>3. Tracked(f) /\ f \in Name
  BY DEF IInv, TypeOK, HorizonTracked, MaintenanceTracked, Tracked
<1>4. \A e \in due : e.form = f => e \in due'
  BY DEF DueOf
<1>5. QED
  BY <1>1, <1>2, <1>3, <1>4, TrackedStable

\* A reclassification rebinds the deadlines, a refused one postpones them;
\* a form under review has rules, so its maintenance is not at stake.
LEMMA ReclassifyTracked ==
    ASSUME IInv, ReclassifyEquilibrium \/ ReclassifyNonequilibrium, NEW f \in active'
    PROVE  Tracked(f)'
<1>1. InForm /\ pc = "actions" /\ Current \in Name /\ Current \in active
  <2>1. InForm /\ pc = "actions"
    BY DEF ReclassifyEquilibrium, ReclassifyNonequilibrium, AtAction, InForm
  <2>2. QED
    BY <2>1, CurrentType, CurrentActive DEF IInv
<1>2. /\ forms \in [Name -> FormRecord] /\ active \in SUBSET Name /\ order \in Seq(Name)
      /\ Horizon[Current] \in Nat
  BY <1>1, ConstantTypes DEF IInv, TypeOK
<1>3. \E added : StopReview(Current, added)
  BY DEF ReclassifyEquilibrium, ReclassifyNonequilibrium
<1>4. /\ heap \subseteq heap' /\ Postpone(DueOf(Current)) \subseteq heap'
      /\ due' = due \ DueOf(Current) /\ fired' = fired \cup {Current}
      /\ pc' = "visit" /\ i' = i + 1 /\ sim_time' = sim_time
  BY <1>3 DEF StopReview, time
<1>5. active' = active /\ order' = order
  BY <1>1 DEF ReclassifyEquilibrium, ReclassifyNonequilibrium, Bind
<1>6. CASE f # Current
  <2>1. forms'[f] = forms[f]
    BY <1>1, <1>2, <1>5, <1>6 DEF ReclassifyEquilibrium, ReclassifyNonequilibrium, Bind
  <2>2. QED
    BY <1>1, <1>4, <1>5, <1>6, <2>1, PassedOther
<1>7. CASE f = Current
  <2>1. ~Pending(f)'
    BY <1>1, <1>4, <1>5, <1>7, PassCurrent DEF IInv
  <2>2. forms[f] \in FormRecord /\ f \in Name /\ HorizonTrack(f) /\ Pending(f)
    BY <1>1, <1>2, <1>7, CurrentPending DEF IInv, HorizonTracked
  <2>3. /\ forms'[f].declared = forms[f].declared
        /\ Covered(heap, f, "Horizon", forms[f].hver, HorizonEnd(f))'
    <3>1. CASE UNCHANGED forms
      <4>1. HorizonToCheck(f) /\ HorizonEnd(f)' = HorizonEnd(f)
        BY <2>2, <3>1 DEF HorizonTrack, HorizonEnd
      <4>2. Postpone(LiveDue(f, "Horizon", forms[f].hver)) \subseteq heap'
        BY <1>4, <1>7 DEF LiveDue, Postpone
      <4>3. Covered(heap', f, "Horizon", forms[f].hver, HorizonEnd(f))
        BY <1>4, <2>2, <4>1, <4>2, CheckedCovers DEF IInv, HorizonToCheck
      <4>4. QED
        BY <1>4, <3>1, <4>1, <4>3 DEF Covered
    <3>2. ASSUME NEW form \in FormRecord, form.declared = forms[f].declared,
                 Bind(f, form), StopReview(f, BindEntries(f, form))
          PROVE  /\ forms'[f].declared = forms[f].declared
                 /\ Covered(heap, f, "Horizon", forms[f].hver, HorizonEnd(f))'
      <4>1. forms'[f] = form
        BY <1>2, <2>2, <3>2 DEF Bind
      <4>2. Entry(f, "Horizon", form.created + Horizon[f], form.hver) \in heap'
        BY <3>2 DEF StopReview, BindEntries
      <4>3. form.created + Horizon[f] \in Nat
        BY <1>2, <1>7 DEF FormRecord
      <4>4. QED
        BY <3>2, <4>1, <4>2, <4>3 DEF Covered, Entry, HorizonEnd
    <3>3. CASE ReclassifyEquilibrium /\ forms[Current].conj # "equilibrium"
      <4> DEFINE form == [forms[f] EXCEPT !.conj = "equilibrium", !.last = 0,
                                          !.mver = 0, !.hver = @ + 1]
      <4>1. form \in FormRecord
        BY <2>2, FormUpdates
      <4>2. form.declared = forms[f].declared
        BY <2>2 DEF FormRecord
      <4>3. Bind(f, form) /\ StopReview(f, BindEntries(f, form))
        BY <1>7, <3>3 DEF ReclassifyEquilibrium
      <4> HIDE DEF form
      <4>4. QED
        BY <3>2, <4>1, <4>2, <4>3
    <3>4. CASE ReclassifyNonequilibrium /\ HasDeadline(Current)
      <4> DEFINE form == [forms[f] EXCEPT !.conj = "nonequilibrium",
                                          !.last = forms[f].created,
                                          !.mver = @ + 1, !.hver = @ + 1]
      <4>1. forms[f].created \in Nat
        BY <2>2 DEF FormRecord
      <4>2. form \in FormRecord
        BY <2>2, <4>1, FormUpdates
      <4>3. form.declared = forms[f].declared
        BY <2>2 DEF FormRecord
      <4>4. Bind(f, form) /\ StopReview(f, BindEntries(f, form))
        BY <1>7, <3>4 DEF ReclassifyNonequilibrium
      <4> HIDE DEF form
      <4>5. QED
        BY <3>2, <4>2, <4>3, <4>4
    <3>5. QED
      BY <3>1, <3>3, <3>4 DEF ReclassifyEquilibrium, ReclassifyNonequilibrium
  <2>4. HorizonTrack(f)'
    BY <1>4, <1>7, <2>1, <2>3 DEF HorizonTrack, HorizonChecked
  <2>5. MaintenanceTrack(f)'
    <3>1. RulesOf(f)' = RulesOf(f)
      BY <2>3 DEF RulesOf
    <3>2. RulesOf(f) # <<>>
      <4>1. r \in Nat \ {0} /\ r <= Len(RulesOf(f))
        BY <1>1, <1>7 DEF IInv, TypeOK, ControlTypes, IndexesInside
      <4>2. Len(<<>>) = 0
        OBVIOUS
      <4>3. QED
        BY <4>1, <4>2
    <3>3. QED
      BY <3>1, <3>2 DEF MaintenanceTrack, Unreviewed
  <2>6. QED
    BY <2>4, <2>5 DEF Tracked
<1>8. QED
  BY <1>6, <1>7

\* Within the review a form keeps its deadlines and its place.
LEMMA SubvertTracked ==
    ASSUME IInv, Subvert, NEW f \in active'
    PROVE  Tracked(f)'
<1>1. /\ forms' = [forms EXCEPT ![Current] = [forms[Current] EXCEPT !.subverted = TRUE]]
      /\ UNCHANGED <<sim_time, active, order, heap, due, pc, i, fired>>
  BY DEF Subvert, time
<1>2. f \in Name /\ f \in active /\ forms \in [Name -> FormRecord] /\ Tracked(f)
  BY <1>1 DEF IInv, TypeOK, HorizonTracked, MaintenanceTracked, Tracked
<1>3. /\ forms'[f].hver = forms[f].hver /\ forms'[f].created = forms[f].created
      /\ forms'[f].mver = forms[f].mver /\ forms'[f].last = forms[f].last
      /\ forms'[f].conj = forms[f].conj /\ forms'[f].declared = forms[f].declared
  BY <1>1, <1>2 DEF FormRecord
<1>4. (Pending(f)' <=> Pending(f)) /\ (MaintenancePending(f)' <=> MaintenancePending(f))
  BY <1>1 DEF MaintenancePending, Pending, InTick, Current
<1>5. QED
  BY <1>1, <1>2, <1>3, <1>4, HorizonStable, MaintenanceStable DEF Tracked

\* After the maintenance check only the current form stops waiting for it.
LEMMA PlaceAtHorizon ==
    ASSUME pc = "rules", pc' = "horizon", i' = i, order' = order, NEW f
    PROVE  /\ Pending(f)' <=> Pending(f)
           /\ MaintenancePending(f)' <=> (MaintenancePending(f) /\ f # Current)
BY DEF MaintenancePending, Pending, InTick, Current

LEMMA ImplicitKeepTracked ==
    ASSUME IInv, ImplicitKeep, NEW f \in active'
    PROVE  Tracked(f)'
<1>1. /\ forms' = [forms EXCEPT ![Current] = [forms[Current] EXCEPT !.last = sim_time, !.mver = @ + 1]]
      /\ pc = "rules" /\ pc' = "horizon" /\ RulesOf(Current) # <<>> /\ heap \subseteq heap'
      /\ UNCHANGED <<sim_time, active, order, due, i, fired>>
  BY DEF ImplicitKeep, ReviewDone, time, history
<1>2. f \in Name /\ f \in active /\ forms \in [Name -> FormRecord] /\ Tracked(f)
  BY <1>1 DEF IInv, TypeOK, HorizonTracked, MaintenanceTracked, Tracked
<1>3. (Pending(f)' <=> Pending(f)) /\ (MaintenancePending(f)' <=> (MaintenancePending(f) /\ f # Current))
  BY <1>1, PlaceAtHorizon
<1>4. CASE f # Current
  BY <1>1, <1>2, <1>3, <1>4, TrackedStable
<1>5. CASE f = Current
  <2>1. /\ forms'[f].hver = forms[f].hver /\ forms'[f].created = forms[f].created
        /\ forms'[f].declared = forms[f].declared
    BY <1>1, <1>2, <1>5 DEF FormRecord
  <2>2. HorizonTrack(f)'
    BY <1>1, <1>2, <1>3, <2>1, HorizonStable DEF Tracked
  <2>3. MaintenanceTrack(f)'
    BY <1>1, <1>5, <2>1 DEF MaintenanceTrack, Unreviewed, RulesOf
  <2>4. QED
    BY <2>2, <2>3 DEF Tracked
<1>6. QED
  BY <1>4, <1>5

\* A form whose maintenance is not overdue goes on with a live entry.
LEMMA SustainTracked ==
    ASSUME IInv, Sustain, NEW f \in active'
    PROVE  Tracked(f)'
<1>1. /\ pc = "rules" /\ pc' = "horizon" /\ heap \subseteq heap'
      /\ UNCHANGED <<sim_time, forms, active, order, due, i, fired>>
  BY DEF Sustain, ReviewDone, time, history
<1>2. /\ f \in Name /\ f \in active /\ forms[f] \in FormRecord /\ Tracked(f)
      /\ sim_time \in Nat /\ Deadline[f] \in Nat
  BY <1>1, ConstantTypes DEF IInv, TypeOK, HorizonTracked, MaintenanceTracked, Tracked
<1>3. (Pending(f)' <=> Pending(f)) /\ (MaintenancePending(f)' <=> (MaintenancePending(f) /\ f # Current))
  BY <1>1, PlaceAtHorizon
<1>4. CASE f # Current
  BY <1>1, <1>2, <1>3, <1>4, TrackedStable
<1>5. CASE f = Current
  <2>1. HorizonTrack(f)'
    BY <1>1, <1>2, <1>3, HorizonStable DEF Tracked
  <2>2. MaintenanceTrack(f)'
    <3>1. SUFFICES ASSUME Unreviewed(f) PROVE MaintenanceChecked(f)'
      BY <1>1, <1>3, <1>5 DEF MaintenanceTrack, Unreviewed, IsNeq, RulesOf
    <3>2. InForm /\ MaintenancePending(f)
      BY <1>1, <1>5, CurrentPending DEF IInv, InForm, MaintenancePending
    <3>3. MaintenanceToCheck(f)
      BY <1>2, <3>1, <3>2 DEF Tracked, MaintenanceTrack
    <3>4. IsNeq(f)
      BY <3>1 DEF Unreviewed
    <3>5. /\ Postpone(LiveDue(f, "Maintenance", forms[f].mver)) \subseteq heap'
          /\ ~(DueNow(f, "Maintenance") /\ MaintenanceDue(f))
      BY <1>5, <3>4 DEF Sustain
    <3>6. Covered(heap', f, "Maintenance", forms[f].mver, MaintenanceEnd(f))
      BY <1>1, <1>2, <3>3, <3>5, CheckedCovers DEF IInv, MaintenanceToCheck
    <3>7. sim_time <= MaintenanceEnd(f)
      <4>1. forms[f].last \in Nat
        BY <1>2 DEF FormRecord
      <4>2. CASE Drained(f, "Maintenance", forms[f].mver)
        BY <1>2, <3>5, <4>1, <4>2 DEF Drained, Live, DueNow, DueOf, MaintenanceDue, MaintenanceEnd
      <4>3. CASE Ahead(f, "Maintenance", forms[f].mver, MaintenanceEnd(f))
        BY <1>2, <4>1, <4>3 DEF Ahead, MaintenanceEnd
      <4>4. QED
        BY <3>3, <4>2, <4>3 DEF MaintenanceToCheck
    <3>8. QED
      BY <1>1, <3>6, <3>7 DEF MaintenanceChecked, MaintenanceEnd, Covered
  <2>3. QED
    BY <2>1, <2>2 DEF Tracked
<1>6. QED
  BY <1>4, <1>5

\* A form inside its horizon leaves the tick with a live entry.
LEMMA SurviveTickTracked ==
    ASSUME IInv, SurviveTick, NEW f \in active'
    PROVE  Tracked(f)'
<1>1. /\ pc = "horizon" /\ pc' = "visit" /\ i' = i + 1 /\ heap \subseteq heap'
      /\ due' = due \ DueOf(Current)
      /\ UNCHANGED <<sim_time, forms, active, order, fired>>
  BY DEF SurviveTick, time, history
<1>2. InForm
  BY <1>1 DEF InForm
<1>3. /\ f \in Name /\ f \in active /\ forms[f] \in FormRecord /\ Tracked(f)
      /\ sim_time \in Nat /\ Horizon[f] \in Nat
  BY <1>1, ConstantTypes DEF IInv, TypeOK, HorizonTracked, MaintenanceTracked, Tracked
<1>4. CASE f # Current
  BY <1>1, <1>2, <1>3, <1>4, PassedOther
<1>5. CASE f = Current
  <2>1. ~Pending(f)' /\ ~MaintenancePending(f)'
    BY <1>1, <1>2, <1>3, <1>5, PassCurrent DEF IInv, MaintenancePending
  <2>2. Pending(f) /\ ~MaintenancePending(f)
    BY <1>1, <1>2, <1>5, CurrentPending DEF IInv, MaintenancePending
  <2>3. HorizonToCheck(f)
    BY <1>3, <2>2 DEF Tracked, HorizonTrack
  <2>4. /\ Postpone(LiveDue(f, "Horizon", forms[f].hver)) \subseteq heap'
        /\ ~(DueNow(f, "Horizon") /\ HorizonExhausted(f))
    BY <1>5 DEF SurviveTick
  <2>5. Covered(heap', f, "Horizon", forms[f].hver, HorizonEnd(f))
    BY <1>1, <1>3, <2>3, <2>4, CheckedCovers DEF IInv, HorizonToCheck
  <2>6. sim_time < HorizonEnd(f)
    <3>1. forms[f].created \in Nat
      BY <1>3 DEF FormRecord
    <3>2. CASE Drained(f, "Horizon", forms[f].hver)
      BY <1>3, <2>4, <3>1, <3>2 DEF Drained, Live, DueNow, DueOf, HorizonExhausted, HorizonEnd
    <3>3. CASE Ahead(f, "Horizon", forms[f].hver, HorizonEnd(f))
      BY <3>3 DEF Ahead
    <3>4. QED
      BY <2>3, <3>2, <3>3 DEF HorizonToCheck
  <2>7. HorizonTrack(f)'
    BY <1>1, <2>1, <2>5, <2>6 DEF HorizonTrack, HorizonChecked, HorizonEnd, Covered
  <2>8. MaintenanceTrack(f)'
    BY <1>1, <1>3, <2>1, <2>2
       DEF Tracked, MaintenanceTrack, MaintenanceChecked, MaintenanceEnd, Covered, Unreviewed, IsNeq, RulesOf
  <2>9. QED
    BY <2>7, <2>8 DEF Tracked
<1>6. QED
  BY <1>4, <1>5

\* The steps that only move the control.
LEMMA ControlTracked ==
    ASSUME IInv, NEW f \in active',
           UNCHANGED <<sim_time, forms, active, order, heap, due, fired, i>>,
           \/ pc' = pc
           \/ pc = "idle" /\ pc' = "main"
           \/ pc = "visit" /\ i > Len(order) /\ pc' = "idle"
           \/ pc \in {"visit", "rules", "actions"} /\ pc' \in {"rules", "actions"}
    PROVE  Tracked(f)'
<1>1. f \in Name /\ f \in active /\ Tracked(f) /\ order \in Seq(Name) /\ i \in Nat
  BY DEF IInv, TypeOK, ControlTypes, HorizonTracked, MaintenanceTracked, Tracked
<1>2. (Pending(f)' <=> Pending(f)) /\ (MaintenancePending(f)' <=> MaintenancePending(f))
  <2>1. \A k \in DOMAIN order : k <= Len(order)
    BY <1>1
  <2>2. Len(order) \in Nat /\ DOMAIN order = 1 .. Len(order)
    BY <1>1
  <2>3. QED
    BY <1>1, <2>1, <2>2 DEF MaintenancePending, Pending, InTick, Current
<1>3. QED
  BY <1>1, <1>2, TrackedStable

(***************************************************************************)
(* The theorems.                                                           *)
(***************************************************************************)

\* No step of a run loses a deadline.
LEMMA NextTracked == IInv /\ [Next]_vars => HorizonTracked' /\ MaintenanceTracked'
<1> SUFFICES ASSUME IInv, [Next]_vars, NEW f \in active' PROVE Tracked(f)'
  BY DEF Tracked, HorizonTracked, MaintenanceTracked
<1>1. CASE \E g \in Name : Register(g)
  BY <1>1, RegisterTracked
<1>2. CASE RunBlock
  BY <1>2, RunBlockTracked
<1>3. CASE BeginTick
  BY <1>3, BeginTickTracked
<1>4. CASE Dissolve \/ Collapse \/ DissolveHorizon \/ (EndRule /\ doomed)
  BY <1>4, EndingTracked
<1>5. CASE Subvert
  BY <1>5, SubvertTracked
<1>6. CASE ReclassifyEquilibrium \/ ReclassifyNonequilibrium
  BY <1>6, ReclassifyTracked
<1>7. CASE ImplicitKeep
  BY <1>7, ImplicitKeepTracked
<1>8. CASE Sustain
  BY <1>8, SustainTracked
<1>9. CASE SurviveTick
  BY <1>9, SurviveTickTracked
<1>10. CASE \/ StartIteration \/ EndTick \/ VisitForm \/ RuleDoesNotFire \/ RuleFires
            \/ ActOrNotify \/ (EndRule /\ ~doomed) \/ UNCHANGED vars
  <2>1. UNCHANGED <<sim_time, forms, active, order, heap, due, fired, i>>
    BY <1>10 DEF StartIteration, EndTick, VisitForm, RuleDoesNotFire, RuleFires,
                 ActOrNotify, EndRule, vars, control, history, time
  <2>2. \/ pc' = pc
        \/ pc = "idle" /\ pc' = "main"
        \/ pc = "visit" /\ i > Len(order) /\ pc' = "idle"
        \/ pc \in {"visit", "rules", "actions"} /\ pc' \in {"rules", "actions"}
    BY <1>10 DEF StartIteration, EndTick, VisitForm, RuleDoesNotFire, RuleFires,
                 ActOrNotify, EndRule, vars, control
  <2>3. QED
    BY <2>1, <2>2, ControlTracked
<1>11. QED
  BY <1>1, <1>2, <1>3, <1>4, <1>5, <1>6, <1>7, <1>8, <1>9, <1>10 DEF Next, Loop

\* In the middle of a tick every live deadline is drained for a form still to
\* be visited, or in the heap at an instant that covers it.
THEOREM DeadlinesTracked == Spec => []IInv
<1>1. Init => HorizonTracked /\ MaintenanceTracked
  BY DEF Init, HorizonTracked, MaintenanceTracked
<1>2. IInv /\ [Next]_vars => HorizonTracked' /\ MaintenanceTracked'
  BY NextTracked
<1>3. QED
  BY <1>1, <1>2, TypeCorrect, BooksCorrect, PTL DEF Spec, IInv

LEMMA IdleNotPending ==
    ASSUME pc = "idle", NEW f
    PROVE  ~Pending(f) /\ ~MaintenancePending(f)
BY DEF MaintenancePending, Pending, InTick

LEMMA TrackedBetweenTicks == IInv => NoLostDeadline
BY IdleNotPending DEF IInv, HorizonTracked, HorizonTrack, HorizonChecked,
   MaintenanceTracked, MaintenanceTrack, MaintenanceChecked, MaintenanceEnd, NoLostDeadline

\* Between ticks every form has a live entry for each of its deadlines.
THEOREM NoDeadlineLost == Spec => []NoLostDeadline
BY TrackedBetweenTicks, DeadlinesTracked, PTL

\* A form outlives its horizon only through ticks in which its review stopped.
THEOREM HorizonKept == Spec => []HorizonPrompt
<1>1. IInv => HorizonPrompt
  <2> SUFFICES ASSUME IInv, pc = "idle", NEW f \in active, sim_time >= HorizonEnd(f)
               PROVE  f \in fired \/ forms[f].created = sim_time
    BY DEF HorizonPrompt
  <2>1. HorizonChecked(f)
    BY IdleNotPending DEF IInv, HorizonTracked, HorizonTrack
  <2>2. sim_time \in Nat /\ HorizonEnd(f) \in Nat
    BY ConstantTypes DEF IInv, TypeOK, HorizonEnd, FormRecord
  <2>3. QED
    BY <2>1, <2>2 DEF HorizonChecked
<1>2. QED
  BY <1>1, DeadlinesTracked, PTL

\* No nonequilibrium form without rules is found overdue between ticks.
THEOREM CollapseKept == Spec => []CollapsePrompt
<1>1. IInv => CollapsePrompt
  BY IdleNotPending DEF IInv, MaintenanceTracked, MaintenanceTrack, MaintenanceChecked,
     MaintenanceEnd, CollapsePrompt
<1>2. QED
  BY <1>1, DeadlinesTracked, PTL

----------------------------------------------------------------------------
(***************************************************************************)
(* The keeps of main.                                                      *)
(***************************************************************************)

LEMMA TimesMonotone ==
    ASSUME NEW m \in Int, NEW n \in Int, NEW t \in Nat, m <= n
    PROVE  m * t <= n * t
<1>1. n - m \in Nat
  OBVIOUS
<1>2. (n - m) * t >= 0
  BY <1>1
<1>3. (n - m) * t = n * t - m * t
  BY <1>1
<1>4. QED
  BY <1>2, <1>3

LEMMA Quotient ==
    ASSUME NEW x \in Nat, NEW t \in Nat \ {0}
    PROVE  /\ x \div t \in Nat
           /\ (x \div t) * t <= x /\ x < (x \div t + 1) * t
OBVIOUS

\* From one instant of the grid to another it is at most OnGrid(period), if
\* the tick before the second one is less than a period after the first, or
\* is no later than it.
LEMMA GridCovers ==
    ASSUME NEW m \in Nat, NEW n \in Nat, NEW period \in Nat,
           \/ n * TickSeconds - TickSeconds < m * TickSeconds + period
           \/ m * TickSeconds >= n * TickSeconds - TickSeconds
    PROVE  n * TickSeconds - m * TickSeconds <= OnGrid(period)
<1> DEFINE t == TickSeconds
           d == n - m
           q == IF period = 0 THEN 1 ELSE (period + t - 1) \div t
<1>1. t \in Nat \ {0} /\ d \in Int
  BY ConstantTypes
<1>2. d * t = n * t - m * t
  BY <1>1
<1>3. OnGrid(period) = t * q
  BY DEF OnGrid
<1>4. n * t \in Nat /\ m * t \in Nat
  BY <1>1
<1>5. d * t < period + t \/ d * t <= t
  BY <1>1, <1>2, <1>4
<1> HIDE DEF t, d
<1>6. CASE period = 0
  <2>1. d * t <= 1 * t
    BY <1>1, <1>5, <1>6
  <2>2. q = 1
    BY <1>6
  <2>3. t * q = 1 * t
    BY <1>1, <2>2
  <2>4. QED
    BY <1>2, <1>3, <2>1, <2>3 DEF t
<1>7. CASE period # 0
  <2>1. q = (period + t - 1) \div t /\ period + t - 1 \in Nat
    BY <1>1, <1>7
  <2>2. q \in Nat /\ q * t <= period + t - 1 /\ period + t - 1 < (q + 1) * t
    BY <1>1, <2>1, Quotient
  <2> HIDE DEF q
  <2>3. d <= q
    <3> SUFFICES ASSUME q + 1 <= d PROVE FALSE
      BY <1>1, <2>2
    <3>1. (q + 1) * t <= d * t
      BY <1>1, <2>2, TimesMonotone
    <3>2. d * t \in Int /\ (q + 1) * t \in Int
      BY <1>1, <2>2
    <3>3. QED
      BY <1>1, <1>5, <1>7, <2>2, <3>1, <3>2
  <2>4. d * t <= q * t
    BY <1>1, <2>2, <2>3, TimesMonotone
  <2>5. q * t = t * q
    BY <1>1, <2>2
  <2>6. QED
    BY <1>2, <1>3, <2>4, <2>5 DEF t
<1>8. QED
  BY <1>6, <1>7

\* A form whose deadline main's keeps meet is not overdue in a tick.
LEMMA KeptNotDue ==
    ASSUME TypeOK, KInv, InTick, NEW f \in active, IsNeq(f), Rules[f] = <<>>,
           NEW k \in DOMAIN Blocks, KeepsOften(k, f)
    PROVE  ~MaintenanceDue(f)
<1>1. KeptInTime(k, f)
  BY DEF KInv, KeepsOften
<1>2. PICK n \in Nat : sim_time = n * TickSeconds
  BY DEF KInv
<1>3. PICK m \in Nat : forms[f].last = m * TickSeconds
  BY DEF KInv
<1>4. /\ next_due[k] \in Nat /\ Blocks[k].period \in Nat /\ f \in Name
      /\ TickSeconds \in Nat /\ Deadline[f] \in Nat
  BY ConstantTypes DEF TypeOK
<1>5. sim_time \in Nat /\ forms[f].last \in Nat
  BY <1>4 DEF TypeOK, FormRecord
<1>6. \/ sim_time - TickSeconds < forms[f].last + Blocks[k].period
      \/ forms[f].last >= sim_time - TickSeconds
  BY <1>1, <1>4, <1>5 DEF KeptInTime
<1>7. sim_time - forms[f].last <= OnGrid(Blocks[k].period)
  BY <1>2, <1>3, <1>4, <1>6, GridCovers
<1>8. OnGrid(Blocks[k].period) <= Deadline[f]
  BY DEF KeepsOften
<1>9. OnGrid(Blocks[k].period) \in Int
  <2> DEFINE q == IF Blocks[k].period = 0 THEN 1
                  ELSE (Blocks[k].period + TickSeconds - 1) \div TickSeconds
  <2>1. TickSeconds \in Nat \ {0}
    BY ConstantTypes
  <2>2. q \in Nat
    <3>1. CASE Blocks[k].period = 0
      BY <3>1
    <3>2. CASE Blocks[k].period # 0
      <4>1. Blocks[k].period + TickSeconds - 1 \in Nat
        BY <1>4, <2>1
      <4>2. QED
        BY <2>1, <3>2, <4>1, Quotient
    <3>3. QED
      BY <3>1, <3>2
  <2>3. OnGrid(Blocks[k].period) = TickSeconds * q
    BY DEF OnGrid
  <2> HIDE DEF q
  <2>4. QED
    BY <1>4, <2>2, <2>3
<1>10. QED
  BY <1>4, <1>5, <1>7, <1>8, <1>9 DEF MaintenanceDue

\* A step that takes no time and renews no form without rules.
LEMMA KeptSame ==
    ASSUME KInv, UNCHANGED <<sim_time, next_due>>, active' \subseteq active,
           \A f \in active' : /\ forms'[f].declared <=> forms[f].declared
                              /\ Rules[f] = <<>> => /\ forms'[f].last = forms[f].last
                                                    /\ forms'[f].conj = forms[f].conj,
           InTick' => InTick, pc' = "main" => b' = 1 \/ (pc = "main" /\ b' = b),
           KeptFormsSurvive'
    PROVE  KInv'
<1>1. \A f \in active' : forms'[f].declared
  BY Zenon DEF KInv
<1>2. ASSUME NEW f \in active', IsNeq(f)', Rules[f] = <<>>
      PROVE  /\ \E n \in Nat : forms'[f].last = n * TickSeconds
             /\ \A k \in DOMAIN Blocks : f \in Blocks[k].keeps => KeptInTime(k, f)'
  <2>1. /\ f \in active /\ IsNeq(f) /\ forms'[f].last = forms[f].last
    BY <1>2 DEF IsNeq
  <2>2. \E n \in Nat : forms'[f].last = n * TickSeconds
    BY <1>2, <2>1 DEF KInv
  <2>3. ASSUME NEW k \in DOMAIN Blocks, f \in Blocks[k].keeps PROVE KeptInTime(k, f)'
    <3>1. KeptInTime(k, f)
      BY <1>2, <2>1, <2>3 DEF KInv
    <3>2. k \in Nat \ {0}
      BY ConstantTypes
    <3>3. pc' = "main" /\ k < b' => pc = "main" /\ k < b
      BY <3>2
    <3>4. QED
      BY <2>1, <3>1, <3>3 DEF KeptInTime
  <2>4. QED
    BY <2>2, <2>3
<1>3. QED
  BY <1>1, <1>2 DEF KInv

LEMMA RegisterKept ==
    ASSUME TypeOK, KInv, NEW f \in Name, Register(f)
    PROVE  KInv'
<1> DEFINE form == [conj |-> Conj[f], created |-> sim_time, last |-> sim_time,
                    hver |-> 1, subverted |-> FALSE, declared |-> TRUE,
                    mver |-> IF Conj[f] = "nonequilibrium" THEN 1 ELSE 0]
<1>1. /\ Bind(f, form) /\ pc = "idle" /\ pc' = "idle" /\ journal' = journal
      /\ UNCHANGED <<sim_time, next_due>>
  BY DEF Register, control, history, time
<1>2. form.declared = TRUE /\ form.last = sim_time
  OBVIOUS
<1>3. forms' = [forms EXCEPT ![f] = form] /\ active' = active \cup {f}
  BY <1>1 DEF Bind
<1> HIDE DEF form
<1>4. forms'[f] = form /\ (\A g \in Name : g # f => forms'[g] = forms[g]) /\ active \subseteq Name
  BY <1>3 DEF TypeOK
<1>5. \A g \in active' : forms'[g].declared
  <2>1. forms'[f].declared
    BY <1>2, <1>4, Zenon
  <2>2. ASSUME NEW g \in active', g # f PROVE forms'[g].declared
    <3>1. g \in active /\ forms'[g] = forms[g]
      BY <1>3, <1>4, <2>2
    <3>2. QED
      BY <3>1, Zenon DEF KInv
  <2>3. QED
    BY <2>1, <2>2
<1>6. ASSUME NEW g \in active', IsNeq(g)', Rules[g] = <<>>
      PROVE  /\ \E n \in Nat : forms'[g].last = n * TickSeconds
             /\ \A k \in DOMAIN Blocks : g \in Blocks[k].keeps => KeptInTime(k, g)'
  <2>1. CASE g = f
    <3>1. forms'[g].last = sim_time
      BY <1>2, <1>4, <2>1
    <3>2. QED
      BY <1>1, <3>1 DEF KInv, KeptInTime, InTick
  <2>2. CASE g # f
    <3>1. g \in active /\ forms'[g] = forms[g] /\ IsNeq(g)
      BY <1>3, <1>4, <1>6, <2>2 DEF IsNeq
    <3>2. QED
      BY <1>1, <1>6, <3>1 DEF KInv, KeptInTime, InTick
  <2>3. QED
    BY <2>1, <2>2
<1>7. QED
  BY <1>1, <1>5, <1>6 DEF KInv, KeptFormsSurvive

LEMMA RunBlockKept ==
    ASSUME TypeOK, KInv, RunBlock
    PROVE  KInv'
<1> DEFINE kept == {f \in Blocks[b].keeps \cap active : IsNeq(f)}
<1>1. /\ pc = "main" /\ pc' = "main" /\ b' = b + 1 /\ b \in DOMAIN Blocks /\ b \in Nat
      /\ UNCHANGED <<sim_time, active, journal>> /\ active \subseteq Name
      /\ sim_time \in Nat /\ next_due \in [DOMAIN Blocks -> Nat]
      /\ \A k \in DOMAIN Blocks : Blocks[k].period \in Nat /\ k \in Nat
  <2>1. /\ pc = "main" /\ pc' = "main" /\ b' = b + 1 /\ b <= Len(Blocks)
        /\ UNCHANGED <<sim_time, active, journal>>
    BY DEF RunBlock, history
  <2>2. /\ active \subseteq Name /\ b \in Nat \ {0}
        /\ sim_time \in Nat /\ next_due \in [DOMAIN Blocks -> Nat]
    BY DEF TypeOK, ControlTypes
  <2>3. /\ DOMAIN Blocks = 1 .. Len(Blocks) /\ Len(Blocks) \in Nat
        /\ \A k \in DOMAIN Blocks : Blocks[k].period \in Nat
    BY ConstantTypes
  <2>4. b \in DOMAIN Blocks /\ \A k \in DOMAIN Blocks : k \in Nat
    BY <2>1, <2>2, <2>3
  <2>5. QED
    BY <2>1, <2>2, <2>3, <2>4
<1>2. /\ BlockDue(b) =>
           /\ forms' = [f \in Name |-> IF f \in kept
                          THEN [forms[f] EXCEPT !.last = sim_time, !.mver = @ + 1]
                          ELSE forms[f]]
           /\ next_due' = [next_due EXCEPT ![b] = @ + Blocks[b].period]
      /\ ~BlockDue(b) => UNCHANGED <<forms, next_due>>
  BY DEF RunBlock
<1> HIDE DEF kept
<1>3. ASSUME NEW f \in Name
      PROVE  /\ forms'[f].conj = forms[f].conj
             /\ forms'[f].declared = forms[f].declared
             /\ forms'[f].last = IF BlockDue(b) /\ f \in kept THEN sim_time ELSE forms[f].last
  <2>1. forms[f] \in FormRecord
    BY DEF TypeOK
  <2>2. \/ forms'[f] = forms[f] /\ ~(BlockDue(b) /\ f \in kept)
        \/ /\ forms'[f] = [forms[f] EXCEPT !.last = sim_time, !.mver = @ + 1]
           /\ BlockDue(b) /\ f \in kept
    BY <1>2
  <2>3. QED
    BY <2>1, <2>2 DEF FormRecord
<1>4. \A k \in DOMAIN Blocks :
         /\ next_due'[k] = IF BlockDue(b) /\ k = b THEN next_due[k] + Blocks[k].period ELSE next_due[k]
         /\ next_due[k] \in Nat
  BY <1>1, <1>2
<1>5. \A k \in DOMAIN Blocks : next_due'[k] <= sim_time' + Blocks[k].period
  BY <1>1, <1>4 DEF KInv, BlockDue
<1>6. \A f \in active' : forms'[f].declared
  BY <1>1, <1>3, Zenon DEF KInv
<1>7. ASSUME NEW f \in active', IsNeq(f)', Rules[f] = <<>>
      PROVE  /\ \E n \in Nat : forms'[f].last = n * TickSeconds
             /\ \A k \in DOMAIN Blocks : f \in Blocks[k].keeps => KeptInTime(k, f)'
  <2>1. f \in Name /\ f \in active /\ IsNeq(f)
    BY <1>1, <1>3, <1>7 DEF IsNeq
  <2>2. forms[f].last \in Nat
    BY <2>1 DEF TypeOK, FormRecord
  <2>3. \E n \in Nat : forms'[f].last = n * TickSeconds
    <3>1. forms'[f].last = sim_time \/ forms'[f].last = forms[f].last
      BY <1>3, <2>1
    <3>2. QED
      BY <1>7, <2>1, <3>1 DEF KInv
  <2>4. ASSUME NEW k \in DOMAIN Blocks, f \in Blocks[k].keeps PROVE KeptInTime(k, f)'
    <3>1. KeptInTime(k, f)
      BY <1>7, <2>1, <2>4 DEF KInv
    <3>2. k < b + 1 => k < b \/ k = b
      BY <1>1
    <3>3. BlockDue(b) /\ k = b => f \in kept
      BY <2>1, <2>4 DEF kept
    <3>4. next_due'[k] <= forms'[f].last + Blocks[k].period
      <4>1. CASE BlockDue(b) /\ f \in kept
        <5>1. forms'[f].last = sim_time
          BY <1>3, <2>1, <4>1
        <5>2. QED
          BY <1>1, <1>5, <5>1
      <4>2. CASE ~(BlockDue(b) /\ f \in kept)
        <5>1. forms'[f].last = forms[f].last
          BY <1>3, <2>1, <4>2
        <5>2. next_due'[k] = next_due[k]
          BY <1>4, <3>3, <4>2
        <5>3. QED
          BY <3>1, <5>1, <5>2 DEF KeptInTime
      <4>3. QED
        BY <4>1, <4>2
    <3>5. ASSUME k < b' PROVE sim_time' < next_due'[k] \/ forms'[f].last = sim_time'
      <4>1. CASE k = b
        <5>1. CASE BlockDue(b)
          BY <1>1, <1>3, <2>1, <3>3, <4>1, <5>1
        <5>2. CASE ~BlockDue(b)
          BY <1>1, <1>4, <4>1, <5>2 DEF BlockDue
        <5>3. QED
          BY <5>1, <5>2
      <4>2. CASE k # b
        <5>1. sim_time < next_due[k] \/ forms[f].last = sim_time
          BY <1>1, <3>1, <3>2, <3>5, <4>2 DEF KeptInTime
        <5>2. next_due'[k] = next_due[k]
          BY <1>4, <4>2
        <5>3. forms'[f].last = sim_time \/ forms'[f].last = forms[f].last
          BY <1>3, <2>1
        <5>4. QED
          BY <1>1, <5>1, <5>2, <5>3
      <4>3. QED
        BY <4>1, <4>2
    <3>6. QED
      BY <1>1, <3>4, <3>5 DEF KeptInTime, InTick
  <2>5. QED
    BY <2>3, <2>4
<1>8. KeptFormsSurvive' /\ \E n \in Nat : sim_time' = n * TickSeconds
  BY <1>1 DEF KInv, KeptFormsSurvive
<1>9. QED
  BY <1>5, <1>6, <1>7, <1>8 DEF KInv

LEMMA BeginTickKept ==
    ASSUME TypeOK, KInv, BeginTick
    PROVE  KInv'
<1>1. /\ pc = "main" /\ b > Len(Blocks) /\ pc' = "visit" /\ journal' = {}
      /\ sim_time' = sim_time + TickSeconds /\ UNCHANGED <<next_due, forms, active>>
      /\ sim_time \in Nat /\ b \in Nat /\ next_due \in [DOMAIN Blocks -> Nat]
  BY DEF BeginTick, TypeOK, ControlTypes
<1>2. /\ TickSeconds \in Nat \ {0} /\ Len(Blocks) \in Nat /\ DOMAIN Blocks = 1 .. Len(Blocks)
      /\ \A k \in DOMAIN Blocks : Blocks[k].period \in Nat
  BY ConstantTypes
<1>3. \E n \in Nat : sim_time' = n * TickSeconds
  <2>1. PICK n \in Nat : sim_time = n * TickSeconds
    BY DEF KInv
  <2>2. (n + 1) * TickSeconds = n * TickSeconds + TickSeconds /\ n + 1 \in Nat
    BY <1>2
  <2>3. sim_time' = (n + 1) * TickSeconds
    BY <1>1, <2>1, <2>2
  <2>4. QED
    BY <2>2, <2>3
<1>4. \A k \in DOMAIN Blocks : next_due'[k] <= sim_time' + Blocks[k].period
  BY <1>1, <1>2 DEF KInv
<1>5. ASSUME NEW f \in active', IsNeq(f)', Rules[f] = <<>>
      PROVE  /\ \E n \in Nat : forms'[f].last = n * TickSeconds
             /\ \A k \in DOMAIN Blocks : f \in Blocks[k].keeps => KeptInTime(k, f)'
  <2>1. f \in active /\ IsNeq(f) /\ forms' = forms
    BY <1>1, <1>5 DEF IsNeq
  <2>2. ASSUME NEW k \in DOMAIN Blocks, f \in Blocks[k].keeps PROVE KeptInTime(k, f)'
    <3>1. KeptInTime(k, f)
      BY <1>5, <2>1, <2>2 DEF KInv
    <3>2. sim_time < next_due[k] \/ forms[f].last = sim_time
      BY <1>1, <1>2, <3>1 DEF KeptInTime
    <3>3. sim_time' - TickSeconds = sim_time
      BY <1>1, <1>2
    <3>4. QED
      BY <1>1, <2>1, <3>1, <3>2, <3>3 DEF KeptInTime
  <2>3. QED
    BY <1>5, <2>1, <2>2 DEF KInv
<1>6. KeptFormsSurvive' /\ \A f \in active' : forms'[f].declared
  <2>1. \A f \in active' : forms'[f].declared
    BY <1>1, Zenon DEF KInv
  <2>2. QED
    BY <1>1, <2>1 DEF KeptFormsSurvive
<1>7. QED
  BY <1>3, <1>4, <1>5, <1>6 DEF KInv

LEMMA StaysKept ==
    ASSUME TypeOK, BooksAgree, KInv, Stays,
           \/ RuleDoesNotFire \/ RuleFires \/ Subvert \/ ActOrNotify
           \/ (EndRule /\ ~doomed) \/ ImplicitKeep \/ Sustain
    PROVE  KInv'
<1>1. InTick /\ InTick' /\ pc' # "main" /\ active' = active /\ InForm
  BY DEF Stays, InForm, InTick
<1>2. UNCHANGED <<sim_time, next_due, journal>>
  BY DEF RuleDoesNotFire, RuleFires, Subvert, ActOrNotify, EndRule, ImplicitKeep, Sustain,
         time, history
<1>3. Current \in Name /\ forms \in [Name -> FormRecord] /\ sim_time \in Nat /\ Current \in active
  BY <1>1, CurrentType, CurrentActive DEF TypeOK
<1>4. ASSUME NEW f \in active
      PROVE  /\ forms'[f].declared = forms[f].declared
             /\ Rules[f] = <<>> => /\ forms'[f].last = forms[f].last
                                   /\ forms'[f].conj = forms[f].conj
  <2>1. f \in Name /\ forms[f] \in FormRecord
    BY <1>3 DEF TypeOK
  <2>2. CASE ImplicitKeep
    <3>1. Rules[Current] # <<>>
      BY <2>2 DEF ImplicitKeep, RulesOf
    <3>2. forms' = [forms EXCEPT ![Current].last = sim_time, ![Current].mver = @ + 1]
      BY <2>2 DEF ImplicitKeep
    <3>3. CASE f # Current
      BY <1>3, <2>1, <3>2, <3>3
    <3>4. CASE f = Current
      <4>1. forms'[f].declared = forms[f].declared
        BY <1>3, <2>1, <3>2, <3>4 DEF FormRecord
      <4>2. QED
        BY <3>1, <3>4, <4>1
    <3>5. QED
      BY <3>3, <3>4
  <2>3. CASE Subvert
    <3>1. forms' = [forms EXCEPT ![Current].subverted = TRUE]
      BY <2>3 DEF Subvert
    <3>2. QED
      BY <1>3, <2>1, <3>1 DEF FormRecord
  <2>4. CASE RuleDoesNotFire \/ RuleFires \/ ActOrNotify \/ (EndRule /\ ~doomed) \/ Sustain
    <3>1. forms' = forms
      BY <2>4 DEF RuleDoesNotFire, RuleFires, ActOrNotify, EndRule, Sustain
    <3>2. QED
      BY <3>1
  <2>5. QED
    BY <2>2, <2>3, <2>4
<1>5. \A f \in active : forms'[f].declared <=> forms[f].declared
  BY <1>4, Zenon
<1>6. KeptFormsSurvive'
  BY <1>2 DEF KInv, KeptFormsSurvive
<1>7. QED
  BY <1>1, <1>2, <1>4, <1>5, <1>6, KeptSame

LEMMA PassesKept ==
    ASSUME TypeOK, BooksAgree, KInv, Passes,
           ReclassifyEquilibrium \/ ReclassifyNonequilibrium \/ SurviveTick
    PROVE  KInv'
<1>1. InTick /\ InTick' /\ pc' # "main" /\ active' = active /\ active \subseteq Name
  BY DEF Passes, InForm, InTick, TypeOK
<1>2. CASE SurviveTick
  <2>1. UNCHANGED <<sim_time, next_due, journal, forms>>
    BY <1>2 DEF SurviveTick, time, history
  <2>2. \A f \in active : forms'[f].declared <=> forms[f].declared
    BY <2>1, Zenon
  <2>3. KeptFormsSurvive'
    BY <2>1 DEF KInv, KeptFormsSurvive
  <2>4. QED
    BY <1>1, <2>1, <2>2, <2>3, KeptSame
<1>3. CASE ReclassifyEquilibrium \/ ReclassifyNonequilibrium
  <2>1. /\ AtAction("reclassify_eq") \/ AtAction("reclassify_neq")
        /\ \A f \in Name : /\ forms'[f].declared <=> forms[f].declared
                           /\ f # Current => forms'[f] = forms[f]
    BY <1>3, ReclassifyShape, Zenon
  <2>2. PICK added : StopReview(Current, added)
    BY <1>3, ReclassifyShape, Zenon
  <2>3. Current \in Name /\ r \in DOMAIN Rules[Current]
    BY <2>1, AtActionIn
  <2>4. Rules[Current] # <<>>
    BY <2>3
  <2>5. UNCHANGED <<sim_time, next_due>> /\ journal' = journal \cup ShortCircuit(Current)
    BY <2>2 DEF StopReview, time
  <2>6. \A f \in Name : <<f, "collapse_maintenance">> \in journal'
                            => <<f, "collapse_maintenance">> \in journal
    BY <2>5 DEF ShortCircuit
  <2>7. \A f \in active : Rules[f] = <<>> => /\ forms'[f].last = forms[f].last
                                             /\ forms'[f].conj = forms[f].conj
    BY <1>1, <2>1, <2>4
  <2>8. \A f \in active : forms'[f].declared <=> forms[f].declared
    BY <1>1, <2>1, Zenon
  <2>9. KeptFormsSurvive'
    BY <2>6 DEF KInv, KeptFormsSurvive
  <2>10. QED
    BY <1>1, <2>5, <2>7, <2>8, <2>9, KeptSame
<1>4. QED
  BY <1>2, <1>3

LEMMA EndsKept ==
    ASSUME TypeOK, BooksAgree, KInv, Ends,
           Dissolve \/ (EndRule /\ doomed) \/ Collapse \/ DissolveHorizon
    PROVE  KInv'
<1>1. InTick /\ InForm /\ Current \in Name /\ Current \in active /\ active \subseteq Name
  BY CurrentType, CurrentActive DEF Ends, InForm, InTick, TypeOK
<1>2. PICK end \in EndKind : /\ DissolveForm(Current, end)
                             /\ end = "collapse_maintenance" => Collapse
  BY DEF Dissolve, EndRule, Collapse, DissolveHorizon, EndKind
<1>3. /\ active' = active \ {Current} /\ pc' = "visit" /\ UNCHANGED <<sim_time, next_due>>
      /\ forms' = [forms EXCEPT ![Current] = Blank]
      /\ journal' = journal \cup {<<Current, end>>} \cup ShortCircuit(Current)
  BY <1>2 DEF DissolveForm, time
<1>4. \A f \in active' : forms'[f] = forms[f]
  BY <1>1, <1>3 DEF TypeOK
<1>5. \A f \in active' : /\ forms'[f].declared <=> forms[f].declared
                         /\ Rules[f] = <<>> => /\ forms'[f].last = forms[f].last
                                               /\ forms'[f].conj = forms[f].conj
  BY <1>4, Zenon
<1>6. CASE end # "collapse_maintenance"
  <2>1. \A f \in Name : <<f, "collapse_maintenance">> \in journal'
                            => <<f, "collapse_maintenance">> \in journal
    BY <1>3, <1>6 DEF ShortCircuit
  <2>2. KeptFormsSurvive'
    BY <2>1 DEF KInv, KeptFormsSurvive
  <2>3. QED
    BY <1>1, <1>3, <1>5, <2>2, KeptSame DEF InTick
<1>7. CASE end = "collapse_maintenance"
  <2>1. /\ IsNeq(Current) /\ RulesOf(Current) = <<>> /\ MaintenanceDue(Current)
    BY <1>2, <1>7 DEF Collapse
  <2>2. forms[Current].declared
    BY <1>1, Zenon DEF KInv
  <2>3. Rules[Current] = <<>>
    BY <2>1, <2>2 DEF RulesOf
  <2>4. \A k \in DOMAIN Blocks : ~KeepsOften(k, Current)
    BY <1>1, <2>1, <2>3, KeptNotDue
  <2>5. \A f \in Name : <<f, "collapse_maintenance">> \in journal'
                            => f = Current \/ <<f, "collapse_maintenance">> \in journal
    BY <1>3, <1>7 DEF ShortCircuit
  <2>6. KeptFormsSurvive'
    BY <2>4, <2>5 DEF KInv, KeptFormsSurvive, KeepsOften
  <2>7. QED
    BY <1>1, <1>3, <1>5, <2>6, KeptSame DEF InTick
<1>8. QED
  BY <1>6, <1>7

\* The keeps of main keep their time: the blocks run behind no further than
\* a period, and nothing a deadline of which they meet has collapsed.
THEOREM KeepsTracked == Spec => []KInv
<1>1. Init => KInv
  <2> SUFFICES ASSUME Init PROVE KInv
    OBVIOUS
  <2>1. /\ sim_time = 0 /\ active = {} /\ journal = {}
        /\ next_due = [k \in DOMAIN Blocks |-> Blocks[k].period]
    BY DEF Init
  <2>2. sim_time = 0 * TickSeconds
    BY <2>1, ConstantTypes
  <2>3. \A k \in DOMAIN Blocks : next_due[k] <= sim_time + Blocks[k].period
    BY <2>1, ConstantTypes
  <2>4. QED
    BY <2>1, <2>2, <2>3 DEF KInv, KeptFormsSurvive
<1>2. TypeOK /\ BooksAgree /\ KInv /\ [Next]_vars => KInv'
  <2> SUFFICES ASSUME TypeOK, BooksAgree, KInv, [Next]_vars PROVE KInv'
    OBVIOUS
  <2>1. CASE StartIteration \/ EndTick \/ VisitForm \/ UNCHANGED vars
    <3>1. UNCHANGED <<sim_time, next_due, journal, active, forms>>
      BY <2>1 DEF StartIteration, EndTick, VisitForm, vars, time, history
    <3>2. /\ InTick' => InTick
          /\ pc' = "main" => b' = 1 \/ (pc = "main" /\ b' = b)
      BY <2>1 DEF StartIteration, EndTick, VisitForm, vars, control, InTick
    <3>3. KeptFormsSurvive'
      BY <3>1 DEF KInv, KeptFormsSurvive
    <3>4. \A f \in active : forms'[f].declared <=> forms[f].declared
      BY <3>1, Zenon
    <3>5. QED
      BY <3>1, <3>2, <3>3, <3>4, KeptSame
  <2>2. QED
    BY <2>1, StepKinds, RegisterKept, RunBlockKept, BeginTickKept, StaysKept,
       PassesKept, EndsKept, Zenon
<1>3. QED
  BY <1>1, <1>2, TypeCorrect, BooksCorrect, PTL DEF Spec

\* A form that a block of main keeps often enough never collapses.
THEOREM KeptFormsStay == Spec => []KeptFormsSurvive
<1>1. KInv => KeptFormsSurvive
  BY DEF KInv
<1>2. QED
  BY <1>1, KeepsTracked, PTL
----------------------------------------------------------------------------
(***************************************************************************)
(* Runs of the process that end at any step, and reload.                   *)
(***************************************************************************)

\* The files are reloaded before anything else happens in a run.
RestartInv == IInv /\ (boot # {} => pc = "idle")

LEMMA NextIInv == IInv /\ [Next]_vars => IInv'
BY NextType, NextBooks, NextTracked DEF IInv

\* The memory of the engine is lost at any step, the disk stays.
LEMMA RestartKeeps ==
    ASSUME RestartInv, Restart
    PROVE  RestartInv'
<1>1. /\ forms' = [f \in Name |-> Blank] /\ disk' = disk
      /\ next_due' = [k \in DOMAIN Blocks |-> Blocks[k].period]
      /\ active' = {} /\ order' = <<>> /\ heap' = {} /\ due' = {} /\ labor' = {}
      /\ fired' = {} /\ visited' = <<>> /\ snapshot' = <<>>
      /\ sim_time' = 0 /\ clock' = 0
      /\ pc' = "idle" /\ b' = 1 /\ i' = 1 /\ r' = 1 /\ a' = 1
  BY DEF Restart
<1>2. doomed' \in BOOLEAN
  BY Zenon DEF Restart
<1>3. TypeOK'
  <2>1. forms' \in [Name -> FormRecord] /\ next_due' \in [DOMAIN Blocks -> Nat]
    BY <1>1, BlankType, ConstantTypes
  <2>2. disk' \in [Name -> [vl : BOOLEAN, sidecar : Nat \cup {NoSidecar}]]
    BY <1>1 DEF RestartInv, IInv, TypeOK
  <2>3. /\ order' \in Seq(Name) /\ visited' \in Seq(Name) /\ snapshot' \in Seq(Name)
        /\ sim_time' \in Nat /\ clock' \in Nat
        /\ b' \in Nat \ {0} /\ i' \in Nat \ {0} /\ r' \in Nat \ {0} /\ a' \in Nat \ {0}
    BY <1>1
  <2>4. ControlTypes' /\ IndexesInside'
    BY <1>1, <1>2, <2>3 DEF ControlTypes, IndexesInside, InForm
  <2>5. QED
    BY <1>1, <2>1, <2>2, <2>3, <2>4 DEF TypeOK
<1>4. BooksAgree'
  BY <1>1 DEF BooksAgree, NamesAgree, NoOrphans, LaborAgrees
<1>5. HorizonTracked' /\ MaintenanceTracked'
  BY <1>1 DEF HorizonTracked, MaintenanceTracked
<1>6. QED
  BY <1>1, <1>3, <1>4, <1>5 DEF RestartInv, IInv

LEMMA ReloadedType ==
    ASSUME TypeOK, NEW f \in Name
    PROVE  /\ Reloaded(f) \in FormRecord
           /\ Reloaded(f).conj = "equilibrium"
<1>1. disk[f].sidecar = NoSidecar \/ disk[f].sidecar \in Nat
  BY DEF TypeOK
<1>2. QED
  BY <1>1 DEF Reloaded, FormRecord, Conjugation

\* A file is registered like a declaration, of a form that needs no
\* maintenance, unless its horizon is over.
LEMMA ReloadBinds ==
    ASSUME IInv, pc = "idle", NEW g \in Name, NEW form \in FormRecord,
           form.conj = "equilibrium", sim_time - form.created < Horizon[g],
           Bind(g, form), heap' = heap \cup BindEntries(g, form),
           UNCHANGED <<time, due, disk, control, history>>
    PROVE  IInv'
<1>1. /\ forms' = [forms EXCEPT ![g] = form] /\ active' = active \cup {g}
      /\ sim_time' = sim_time /\ due' = due /\ fired' = fired /\ pc' = pc
  BY DEF Bind, time, control, history
<1>2. /\ forms \in [Name -> FormRecord] /\ active \in SUBSET Name /\ sim_time \in Nat
      /\ heap \in SUBSET EntryRecord /\ Horizon[g] \in Nat /\ form.created \in Nat
  BY ConstantTypes DEF IInv, TypeOK, FormRecord
<1>3. BindEntries(g, form) \in SUBSET EntryRecord
  BY BindEntriesType
<1>4. TypeOK'
  <2>1. /\ forms' \in [Name -> FormRecord] /\ active' \in SUBSET Name
        /\ order' \in Seq(Name) /\ labor' \in SUBSET Name
    BY BindType DEF IInv
  <2>2. QED
    BY <1>2, <1>3, <2>1 DEF IInv, TypeOK, ControlTypes, IndexesInside, time, control, history, InForm
<1>5. BooksAgree'
  <2>1. NamesAgree' /\ LaborAgrees' /\ active \subseteq active' /\ g \in active'
    BY BindBooks DEF IInv
  <2>2. NoOrphans'
    BY <1>1, <2>1, BindEntriesForm DEF IInv, BooksAgree, NoOrphans
  <2>3. QED
    BY <2>1, <2>2 DEF BooksAgree
<1>6. ASSUME NEW f \in active' PROVE Tracked(f)'
  <2>1. ~Pending(f) /\ ~Pending(f)' /\ ~MaintenancePending(f) /\ ~MaintenancePending(f)'
    BY <1>1 DEF MaintenancePending, Pending, InTick
  <2>2. CASE f = g
    <3>1. /\ forms'[f].created = form.created /\ forms'[f].hver = form.hver
          /\ forms'[f].conj = "equilibrium"
      BY <1>1, <1>2, <2>2
    <3>2. Entry(f, "Horizon", form.created + Horizon[f], form.hver) \in heap'
      BY <2>2 DEF BindEntries
    <3>3. Covered(heap, f, "Horizon", forms[f].hver, HorizonEnd(f))'
      BY <1>2, <2>2, <3>1, <3>2 DEF Covered, Entry, HorizonEnd
    <3>4. sim_time' < HorizonEnd(f)'
      BY <1>1, <1>2, <2>2, <3>1 DEF HorizonEnd
    <3>5. HorizonTrack(f)'
      BY <2>1, <3>3, <3>4 DEF HorizonTrack, HorizonChecked
    <3>6. MaintenanceTrack(f)'
      BY <3>1 DEF MaintenanceTrack, Unreviewed, IsNeq
    <3>7. QED
      BY <3>5, <3>6 DEF Tracked
  <2>3. CASE f # g
    <3>1. f \in active /\ f \in Name /\ forms'[f] = forms[f]
      BY <1>1, <1>2, <2>3
    <3>2. Tracked(f)
      BY <3>1 DEF IInv, HorizonTracked, MaintenanceTracked, Tracked
    <3>3. QED
      BY <1>1, <2>1, <3>1, <3>2, TrackedStable
  <2>4. QED
    BY <2>2, <2>3
<1>7. QED
  BY <1>4, <1>5, <1>6 DEF IInv, Tracked, HorizonTracked, MaintenanceTracked

LEMMA ReloadKeeps ==
    ASSUME RestartInv, NEW g \in Name, Reload(g)
    PROVE  RestartInv'
<1>1. pc = "idle" /\ IInv /\ UNCHANGED <<time, due, disk, control, history>>
  BY DEF RestartInv, Reload
<1>2. pc' = "idle"
  BY <1>1 DEF control
<1>3. CASE disk[g].vl /\ sim_time - Reloaded(g).created < Horizon[g]
  <2>1. Bind(g, Reloaded(g)) /\ heap' = heap \cup BindEntries(g, Reloaded(g))
    BY <1>3 DEF Reload
  <2>2. Reloaded(g) \in FormRecord /\ Reloaded(g).conj = "equilibrium"
    BY <1>1, ReloadedType DEF IInv
  <2>3. IInv'
    BY <1>1, <1>3, <2>1, <2>2, ReloadBinds
  <2>4. QED
    BY <1>2, <2>3 DEF RestartInv
<1>4. CASE ~(disk[g].vl /\ sim_time - Reloaded(g).created < Horizon[g])
  <2>1. UNCHANGED vars
    BY <1>1, <1>4 DEF Reload, vars
  <2>2. QED
    BY <1>1, <1>2, <2>1, NextIInv DEF RestartInv
<1>5. QED
  BY <1>3, <1>4

\* The invariant of the engine holds in every run, whatever was reloaded.
THEOREM RestartsTracked == SpecRestart => []RestartInv
<1>1. InitRestart => RestartInv
  <2>1. Init => HorizonTracked /\ MaintenanceTracked /\ BooksAgree
    BY DEF Init, HorizonTracked, MaintenanceTracked,
           BooksAgree, NamesAgree, NoOrphans, LaborAgrees
  <2>2. QED
    BY <2>1, InitType DEF InitRestart, RestartInv, IInv
<1>2. RestartInv /\ [NextRestart]_<<vars, restart>> => RestartInv'
  <2> SUFFICES ASSUME RestartInv, [NextRestart]_<<vars, restart>> PROVE RestartInv'
    OBVIOUS
  <2>1. CASE Restart
    BY <2>1, RestartKeeps
  <2>2. CASE \E f \in Name : Reload(f)
    BY <2>2, ReloadKeeps
  <2>3. CASE RunStep
    BY <2>3, NextIInv DEF RunStep, RestartInv
  <2>4. CASE UNCHANGED <<vars, restart>>
    <3>1. UNCHANGED vars /\ boot' = boot
      BY <2>4 DEF restart
    <3>2. pc' = pc
      BY <3>1 DEF vars, control
    <3>3. QED
      BY <3>1, <3>2, NextIInv DEF RestartInv
  <2>5. QED
    BY <2>1, <2>2, <2>3, <2>4 DEF NextRestart
<1>3. QED
  BY <1>1, <1>2, PTL DEF SpecRestart

\* Map, list, heap and labour agree over restarts at any step, with forms
\* reloaded in any order and declared again or not.
THEOREM RestartsKeepBooks == SpecRestart => []BooksAgree
<1>1. RestartInv => BooksAgree
  BY DEF RestartInv, IInv
<1>2. QED
  BY <1>1, RestartsTracked, PTL

\* A form that was reloaded has its deadlines in the heap, like a declared one.
THEOREM RestartsLoseNoDeadline == SpecRestart => []NoLostDeadline
<1>1. RestartInv => NoLostDeadline
  BY TrackedBetweenTicks DEF RestartInv
<1>2. QED
  BY <1>1, RestartsTracked, PTL
=============================================================================
