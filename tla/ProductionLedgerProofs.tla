----------------------- MODULE ProductionLedgerProofs -----------------------
(***************************************************************************)
(* The production ledger for any events and any length of a run: its file  *)
(* is a prefix of the complete one whatever fails, and complete when close *)
(* reports success.  The inductive invariant follows each event through    *)
(* the channel, the chain, the buffer and the file.                        *)
(***************************************************************************)
EXTENDS ProductionLedger, SequenceTheorems, TLAPS

Link == Nat \X Event
Cell == [cell : {"line"}, data : Link] \cup [cell : {"VFIM"}, data : Nat]
        \cup [cell : {"header", "hash", "head"}, data : Seq(Link)]
Whole == file \o buffer

----------------------------------------------------------------------------
(* The format, cell by cell.                                               *)

LEMMA LinesType ==
    ASSUME NEW events \in Seq(Event)
    PROVE  /\ Lines(events) \in Seq(Link) /\ Len(Lines(events)) = Len(events)
           /\ \A j \in 1 .. Len(events) : Lines(events)[j] = Line(j - 1, events[j])
<1>1. \A j \in 1 .. Len(events) : Line(j - 1, events[j]) \in Link
  BY DEF Line, Link
<1>2. QED
  BY <1>1 DEF Lines

LEMMA ConcatType ==
    ASSUME NEW S, NEW s \in Seq(S), NEW t \in Seq(S)
    PROVE  s \o t \in Seq(S) /\ Len(s \o t) = Len(s) + Len(t)
OBVIOUS

LEMMA FirstType ==
    ASSUME NEW S, NEW s \in Seq(S), NEW n \in 0 .. Len(s)
    PROVE  /\ First(s, n) \in Seq(S) /\ Len(First(s, n)) = n
           /\ \A k \in 1 .. n : First(s, n)[k] = s[k]
BY DEF First

LEMMA RestType ==
    ASSUME NEW S, NEW s \in Seq(S), NEW n \in 0 .. Len(s)
    PROVE  /\ Rest(s, n) \in Seq(S) /\ Len(Rest(s, n)) = Len(s) - n
           /\ \A k \in 1 .. Len(s) - n : Rest(s, n)[k] = s[n + k]
BY DEF Rest

\* One more element, as the chain takes it.
LEMMA FirstGrows ==
    ASSUME NEW S, NEW s \in Seq(S), NEW n \in 1 .. Len(s)
    PROVE  Append(First(s, n - 1), s[n]) = First(s, n)
<1> DEFINE a == Append(First(s, n - 1), s[n])
           b == First(s, n)
<1>1. First(s, n - 1) \in Seq(S) /\ Len(First(s, n - 1)) = n - 1
      /\ \A k \in 1 .. n - 1 : First(s, n - 1)[k] = s[k]
  BY FirstType
<1>2. b \in Seq(S) /\ Len(b) = n /\ \A k \in 1 .. n : b[k] = s[k]
  BY FirstType
<1>3. a \in Seq(S) /\ Len(a) = n /\ \A k \in 1 .. n : a[k] = s[k]
  BY <1>1
<1> HIDE DEF a, b
<1>4. a = b
  BY <1>2, <1>3, SeqEqual
<1>5. QED
  BY <1>4 DEF a, b

LineCell(events, j) == [cell |-> "line", data |-> Line(j - 1, events[j])]
HashCell(events, j) == [cell |-> "hash", data |-> First(Lines(events), j)]
CountCell(events) == [cell |-> "VFIM", data |-> Len(events)]
HeadCell(events) == [cell |-> "head", data |-> Lines(events)]
FramesOf(events) ==
    [k \in 1 .. 2 * Len(Lines(events)) |->
        Frame(Lines(events)[(k + 1) \div 2], First(Lines(events), (k - 1) \div 2))[2 - (k % 2)]]

LEMMA FramesOfCells ==
    ASSUME NEW events \in Seq(Event)
    PROVE  /\ FramesOf(events) \in Seq(Cell) /\ Len(FramesOf(events)) = 2 * Len(events)
           /\ \A j \in 1 .. Len(events) : /\ FramesOf(events)[2 * j - 1] = LineCell(events, j)
                                          /\ FramesOf(events)[2 * j] = HashCell(events, j)
<1> DEFINE n == Len(events)
           ls == Lines(events)
           f == FramesOf(events)
<1>1. /\ ls \in Seq(Link) /\ Len(ls) = n /\ n \in Nat
      /\ \A j \in 1 .. n : ls[j] = Line(j - 1, events[j])
  BY LinesType
<1>2. \A k \in 1 .. 2 * n :
         f[k] = Frame(ls[(k + 1) \div 2], First(ls, (k - 1) \div 2))[2 - (k % 2)]
  BY <1>1 DEF FramesOf
<1>5. f = [k \in 1 .. 2 * n |-> f[k]]
  BY <1>1 DEF FramesOf
<1> HIDE DEF f, ls, n
<1>3. ASSUME NEW j \in 1 .. n
      PROVE  /\ f[2 * j - 1] = LineCell(events, j) /\ f[2 * j] = HashCell(events, j)
             /\ LineCell(events, j) \in Cell /\ HashCell(events, j) \in Cell
  <2>1. /\ ((2 * j - 1) + 1) \div 2 = j /\ ((2 * j - 1) - 1) \div 2 = j - 1
        /\ (2 * j - 1) % 2 = 1 /\ 2 * j - 1 \in 1 .. 2 * n
        /\ ((2 * j) + 1) \div 2 = j /\ ((2 * j) - 1) \div 2 = j - 1
        /\ (2 * j) % 2 = 0 /\ 2 * j \in 1 .. 2 * n
    BY <1>1
  <2>2. f[2 * j - 1] = Frame(ls[j], First(ls, j - 1))[1]
    BY <1>2, <2>1
  <2>3. f[2 * j] = Frame(ls[j], First(ls, j - 1))[2]
    BY <1>2, <2>1
  <2>4. Append(First(ls, j - 1), ls[j]) = First(ls, j)
    BY <1>1, FirstGrows
  <2>5. First(ls, j) \in Seq(Link) /\ ls[j] \in Link
    BY <1>1, FirstType
  <2>6. f[2 * j - 1] = [cell |-> "line", data |-> ls[j]]
    BY <2>2 DEF Frame
  <2>7. f[2 * j] = [cell |-> "hash", data |-> First(ls, j)]
    BY <2>3, <2>4 DEF Frame
  <2>8. LineCell(events, j) = [cell |-> "line", data |-> ls[j]]
    BY <1>1 DEF LineCell
  <2>9. HashCell(events, j) = [cell |-> "hash", data |-> First(ls, j)]
    BY DEF HashCell, ls
  <2>10. QED
    BY <2>5, <2>6, <2>7, <2>8, <2>9 DEF Cell
<1>4. ASSUME NEW k \in 1 .. 2 * n
      PROVE  f[k] \in Cell
  <2>1. PICK j \in 1 .. n : k = 2 * j - 1 \/ k = 2 * j
    <3>1. (k + 1) \div 2 \in 1 .. n /\ (k = 2 * ((k + 1) \div 2) - 1 \/ k = 2 * ((k + 1) \div 2))
      BY <1>1
    <3>2. QED
      BY <3>1
  <2>2. QED
    BY <1>3, <2>1
<1>6. 2 * n \in Nat
  BY <1>1
<1>7. f \in Seq(Cell) /\ Len(f) = 2 * n
  BY <1>4, <1>5, <1>6
<1>8. QED
  BY <1>3, <1>7 DEF f, n

LEMMA Concatenation ==
    ASSUME NEW S, NEW s \in Seq(S), NEW t \in Seq(S)
    PROVE  /\ s \o t \in Seq(S) /\ Len(s \o t) = Len(s) + Len(t)
           /\ \A k \in 1 .. Len(s) : (s \o t)[k] = s[k]
           /\ \A k \in 1 .. Len(t) : (s \o t)[Len(s) + k] = t[k]
<1>1. s \o t \in Seq(S) /\ Len(s \o t) = Len(s) + Len(t)
  OBVIOUS
<1>2. Len(s) \in Nat /\ Len(t) \in Nat
  OBVIOUS
<1>3. \A i \in 1 .. Len(s) + Len(t) : (s \o t)[i] = IF i <= Len(s) THEN s[i] ELSE t[i - Len(s)]
  BY ConcatProperties
<1>4. ASSUME NEW k \in 1 .. Len(s) PROVE (s \o t)[k] = s[k]
  BY <1>2, <1>3
<1>5. ASSUME NEW k \in 1 .. Len(t) PROVE (s \o t)[Len(s) + k] = t[k]
  <2>1. Len(s) + k \in 1 .. Len(s) + Len(t) /\ ~(Len(s) + k <= Len(s)) /\ (Len(s) + k) - Len(s) = k
    BY <1>2
  <2>2. QED
    BY <1>3, <2>1
<1>6. QED
  BY <1>1, <1>4, <1>5

LEMMA CompleteCells ==
    ASSUME NEW events \in Seq(Event)
    PROVE  /\ Complete(events) \in Seq(Cell) /\ Len(Complete(events)) = 2 * Len(events) + 3
           /\ Complete(events)[1] = Header
           /\ \A j \in 1 .. Len(events) : /\ Complete(events)[2 * j] = LineCell(events, j)
                                          /\ Complete(events)[2 * j + 1] = HashCell(events, j)
           /\ Complete(events)[2 * Len(events) + 2] = CountCell(events)
           /\ Complete(events)[2 * Len(events) + 3] = HeadCell(events)
<1> DEFINE n == Len(events)
           f == FramesOf(events)
           h == <<Header>>
           e == <<CountCell(events), HeadCell(events)>>
<1>1. /\ f \in Seq(Cell) /\ Len(f) = 2 * n /\ n \in Nat
      /\ \A j \in 1 .. n : f[2 * j - 1] = LineCell(events, j) /\ f[2 * j] = HashCell(events, j)
  BY FramesOfCells
<1>2. Lines(events) \in Seq(Link) /\ Len(Lines(events)) = n
  BY LinesType
<1>3. Complete(events) = h \o f \o e
  <2>1. Footer(Lines(events)) = e
    BY <1>2 DEF Footer, CountCell, HeadCell
  <2>2. QED
    BY <2>1 DEF Complete, FramesOf
<1>4. h \in Seq(Cell) /\ Len(h) = 1 /\ h[1] = Header
  BY DEF Header, Cell
<1>5. /\ e \in Seq(Cell) /\ Len(e) = 2
      /\ e[1] = CountCell(events) /\ e[2] = HeadCell(events)
  BY <1>1, <1>2 DEF CountCell, HeadCell, Cell
<1> HIDE DEF f, h, e, n
<1>6. /\ h \o f \in Seq(Cell) /\ Len(h \o f) = 2 * n + 1 /\ (h \o f)[1] = Header
      /\ \A k \in 1 .. 2 * n : (h \o f)[1 + k] = f[k]
  <2>1. /\ h \o f \in Seq(Cell) /\ Len(h \o f) = Len(h) + Len(f)
        /\ \A k \in 1 .. Len(h) : (h \o f)[k] = h[k]
        /\ \A k \in 1 .. Len(f) : (h \o f)[Len(h) + k] = f[k]
    <3>1. h \in Seq(Cell) /\ f \in Seq(Cell)
      BY <1>1, <1>4
    <3>2. \A k \in 1 .. Len(f) : (h \o f)[Len(h) + k] = f[k]
      BY <3>1, Concatenation, SMT
    <3>3. h \o f \in Seq(Cell) /\ Len(h \o f) = Len(h) + Len(f)
          /\ \A k \in 1 .. Len(h) : (h \o f)[k] = h[k]
      BY <3>1, Concatenation, Zenon
    <3>4. QED
      BY <3>2, <3>3
  <2>2. QED
    BY <1>1, <1>4, <2>1
<1>7. /\ h \o f \o e \in Seq(Cell) /\ Len(h \o f \o e) = 2 * n + 3
      /\ \A k \in 1 .. 2 * n + 1 : (h \o f \o e)[k] = (h \o f)[k]
      /\ (h \o f \o e)[2 * n + 2] = e[1] /\ (h \o f \o e)[2 * n + 3] = e[2]
  <2> DEFINE g == h \o f
  <2>1. g \in Seq(Cell) /\ Len(g) = 2 * n + 1
    BY <1>6
  <2> HIDE DEF g
  <2>2. /\ g \o e \in Seq(Cell) /\ Len(g \o e) = Len(g) + Len(e)
        /\ \A k \in 1 .. Len(g) : (g \o e)[k] = g[k]
        /\ \A k \in 1 .. Len(e) : (g \o e)[Len(g) + k] = e[k]
    <3>1. g \in Seq(Cell) /\ e \in Seq(Cell)
      BY <1>5, <2>1
    <3>2. \A k \in 1 .. Len(e) : (g \o e)[Len(g) + k] = e[k]
      BY <3>1, Concatenation, SMT
    <3>3. g \o e \in Seq(Cell) /\ Len(g \o e) = Len(g) + Len(e)
          /\ \A k \in 1 .. Len(g) : (g \o e)[k] = g[k]
      BY <3>1, Concatenation, Zenon
    <3>4. QED
      BY <3>2, <3>3
  <2>3. (2 * n + 1) + 1 = 2 * n + 2 /\ (2 * n + 1) + 2 = 2 * n + 3
    BY <1>1
  <2>4. QED
    BY <1>1, <1>5, <2>1, <2>2, <2>3 DEF g
<1>8. ASSUME NEW j \in 1 .. n
      PROVE  /\ (h \o f \o e)[2 * j] = LineCell(events, j)
             /\ (h \o f \o e)[2 * j + 1] = HashCell(events, j)
  <2>1. /\ 2 * j - 1 \in 1 .. 2 * n /\ 2 * j \in 1 .. 2 * n
        /\ 2 * j \in 1 .. 2 * n + 1 /\ 2 * j + 1 \in 1 .. 2 * n + 1
        /\ 1 + (2 * j - 1) = 2 * j /\ 1 + 2 * j = 2 * j + 1
    BY <1>1
  <2>2. QED
    BY <1>1, <1>6, <1>7, <2>1
<1>9. (h \o f \o e)[1] = Header
  BY <1>1, <1>6, <1>7
<1>10. QED
  BY <1>1, <1>3, <1>5, <1>7, <1>8, <1>9 DEF n

LEMMA Halves ==
    ASSUME NEW n \in Nat, NEW k \in 1 .. 2 * n + 1
    PROVE  \/ k = 1
           \/ \E j \in 1 .. n : k = 2 * j \/ k = 2 * j + 1
<1>1. k = 2 * (k \div 2) \/ k = 2 * (k \div 2) + 1
  OBVIOUS
<1>2. k # 1 => k \div 2 \in 1 .. n
  OBVIOUS
<1>3. QED
  BY <1>1, <1>2

\* An event more changes nothing of the file before its footer.
LEMMA CompleteGrows ==
    ASSUME NEW events \in Seq(Event), NEW event \in Event, NEW k \in 1 .. 2 * Len(events) + 1
    PROVE  Complete(Append(events, event))[k] = Complete(events)[k]
<1> DEFINE more == Append(events, event)
           n == Len(events)
<1>1. more \in Seq(Event) /\ Len(more) = n + 1 /\ n \in Nat
      /\ \A j \in 1 .. n : more[j] = events[j]
  OBVIOUS
<1> HIDE DEF more, n
<1>2. ASSUME NEW j \in 1 .. n
      PROVE  LineCell(more, j) = LineCell(events, j) /\ HashCell(more, j) = HashCell(events, j)
  <2>1. LineCell(more, j) = LineCell(events, j)
    BY <1>1 DEF LineCell
  <2>2. /\ Lines(more) \in Seq(Link) /\ Len(Lines(more)) = n + 1
        /\ \A i \in 1 .. n + 1 : Lines(more)[i] = Line(i - 1, more[i])
    BY <1>1, LinesType
  <2>3. /\ Lines(events) \in Seq(Link) /\ Len(Lines(events)) = n
        /\ \A i \in 1 .. n : Lines(events)[i] = Line(i - 1, events[i])
    BY LinesType DEF n
  <2>4. /\ First(Lines(more), j) \in Seq(Link) /\ Len(First(Lines(more), j)) = j
        /\ \A i \in 1 .. j : First(Lines(more), j)[i] = Lines(more)[i]
    <3>1. j \in 0 .. Len(Lines(more))
      BY <1>1, <2>2
    <3>2. QED
      BY <2>2, <3>1, FirstType
  <2>5. /\ First(Lines(events), j) \in Seq(Link) /\ Len(First(Lines(events), j)) = j
        /\ \A i \in 1 .. j : First(Lines(events), j)[i] = Lines(events)[i]
    <3>1. j \in 0 .. Len(Lines(events))
      BY <1>1, <2>3
    <3>2. QED
      BY <2>3, <3>1, FirstType
  <2>6. \A i \in 1 .. j : First(Lines(more), j)[i] = First(Lines(events), j)[i]
    BY <1>1, <2>2, <2>3, <2>4, <2>5
  <2>7. First(Lines(more), j) = First(Lines(events), j)
    BY <2>4, <2>5, <2>6, SeqEqual
  <2>8. QED
    BY <2>1, <2>7 DEF HashCell
<1>3. k = 1 \/ \E j \in 1 .. n : k = 2 * j \/ k = 2 * j + 1
  BY <1>1, Halves DEF n
<1>4. /\ Complete(more)[1] = Header
      /\ \A j \in 1 .. n : /\ Complete(more)[2 * j] = LineCell(more, j)
                           /\ Complete(more)[2 * j + 1] = HashCell(more, j)
  BY <1>1, CompleteCells
<1>5. /\ Complete(events)[1] = Header
      /\ \A j \in 1 .. n : /\ Complete(events)[2 * j] = LineCell(events, j)
                           /\ Complete(events)[2 * j + 1] = HashCell(events, j)
  BY CompleteCells DEF n
<1>6. QED
  BY <1>2, <1>3, <1>4, <1>5 DEF more

----------------------------------------------------------------------------
(* The inductive invariant.                                                *)

Types ==
    /\ pc \in {"open", "join", "ended", "crashed"}
    /\ recorded \in Seq(Event) /\ Len(recorded) <= MaxEvents
    /\ discard \in BOOLEAN /\ result \in {"none", "ok", "error"}
    /\ mail \in Seq(Message)
    /\ writer \in {"create", "receive", "done", "failed"}
    /\ head \in Seq(Link)
    /\ buffer \in Seq(Cell) /\ file \in Seq(Cell) /\ exists \in BOOLEAN

\* The chain is of the first events recorded, in their order.
HeadFollows ==
    /\ Len(head) <= Len(recorded)
    /\ \A k \in 1 .. Len(head) : head[k] = Line(k - 1, recorded[k])

\* The channel holds the rest of them, numbered on, then the end.
Unwritten == Len(recorded) - Len(head)
EventMessage(events, k) == [end |-> FALSE, seq |-> k - 1, event |-> events[k]]
MailFollows ==
    Alive /\ writer \in {"create", "receive"} =>
        /\ Len(mail) = IF pc = "join" THEN Unwritten + 1 ELSE Unwritten
        /\ \A k \in 1 .. Unwritten : mail[k] = EventMessage(recorded, Len(head) + k)
        /\ pc = "join" => mail[Unwritten + 1] = EndMessage

\* File and buffer together begin like the complete file.
CellsFollow ==
    /\ Len(Whole) <= IF pc = "open" THEN 2 * Len(recorded) + 1 ELSE 2 * Len(recorded) + 3
    /\ \A k \in 1 .. Len(Whole) : Whole[k] = Complete(recorded)[k]

\* How far they have come, and how far the file alone.
Position ==
    /\ writer = "create" => head = <<>> /\ file = <<>> /\ buffer = <<>>
    /\ Alive /\ writer = "receive" => Len(Whole) = 2 * Len(head) + 1
    /\ writer = "done" => Len(file) = 2 * Len(recorded) + 3 /\ buffer = <<>> /\ pc # "open"
    /\ pc = "ended" => writer \in {"done", "failed"} /\ (result = "ok" => writer = "done")
Flushed ==
    writer = "receive" =>
        \/ Len(head) < FlushEvery
        \/ 2 * (Len(head) - (Len(head) % FlushEvery)) + 1 <= Len(file)

IInv == Types /\ HeadFollows /\ MailFollows /\ CellsFollow /\ Position /\ Flushed

(***************************************************************************)
(* What the writer composes.                                               *)
(***************************************************************************)

\* Cells that go on where file and buffer end.
Follow(cells) ==
    /\ cells \in Seq(Cell) /\ Len(cells) = 2
    /\ Len(Whole) + 2 <= Len(Complete(recorded))
    /\ cells[1] = Complete(recorded)[Len(Whole) + 1]
    /\ cells[2] = Complete(recorded)[Len(Whole) + 2]

LEMMA WholeType ==
    ASSUME Types
    PROVE  /\ Whole \in Seq(Cell) /\ Len(Whole) = Len(file) + Len(buffer)
           /\ Len(file) \in Nat /\ Len(buffer) \in Nat
           /\ \A k \in 1 .. Len(file) : Whole[k] = file[k]
           /\ \A k \in 1 .. Len(buffer) : Whole[Len(file) + k] = buffer[k]
<1>1. file \in Seq(Cell) /\ buffer \in Seq(Cell)
  BY DEF Types
<1>2. \A k \in 1 .. Len(buffer) : (file \o buffer)[Len(file) + k] = buffer[k]
  BY <1>1, Concatenation, SMT
<1>3. /\ file \o buffer \in Seq(Cell) /\ Len(file \o buffer) = Len(file) + Len(buffer)
      /\ \A k \in 1 .. Len(file) : (file \o buffer)[k] = file[k]
  BY <1>1, Concatenation, Zenon
<1>4. QED
  BY <1>1, <1>2, <1>3 DEF Whole

LEMMA FrameFollows ==
    ASSUME Types, HeadFollows, Len(head) < Len(recorded), Len(Whole) = 2 * Len(head) + 1
    PROVE  /\ Line(Len(head), recorded[Len(head) + 1]) \in Link
           /\ Follow(Frame(Line(Len(head), recorded[Len(head) + 1]), head))
<1> DEFINE n == Len(head)
           line == Line(n, recorded[n + 1])
           ls == Lines(recorded)
           chain == Append(head, line)
<1>1. /\ recorded \in Seq(Event) /\ head \in Seq(Link) /\ n \in Nat /\ n + 1 <= Len(recorded)
      /\ n + 1 \in 1 .. Len(recorded) /\ (n + 1) - 1 = n
  BY DEF Types
<1>2. \A k \in 1 .. n : head[k] = Line(k - 1, recorded[k])
  BY DEF HeadFollows
<1>3. /\ ls \in Seq(Link) /\ Len(ls) = Len(recorded)
      /\ \A k \in 1 .. Len(recorded) : ls[k] = Line(k - 1, recorded[k])
  BY <1>1, LinesType
<1>4. ls[n + 1] = line /\ line \in Link
  BY <1>1, <1>3 DEF Line, Link
<1> HIDE DEF n, line, ls
<1>5. chain \in Seq(Link) /\ Len(chain) = n + 1
      /\ \A k \in 1 .. n + 1 : chain[k] = ls[k]
  <2>1. chain \in Seq(Link) /\ Len(chain) = n + 1 /\ chain[n + 1] = line
        /\ \A k \in 1 .. n : chain[k] = head[k]
    BY <1>1, <1>4 DEF n
  <2>2. \A k \in 1 .. n : chain[k] = ls[k]
    BY <1>1, <1>2, <1>3, <2>1
  <2>3. QED
    BY <1>1, <1>4, <2>1, <2>2
<1>6. First(ls, n + 1) \in Seq(Link) /\ Len(First(ls, n + 1)) = n + 1
      /\ \A k \in 1 .. n + 1 : First(ls, n + 1)[k] = ls[k]
  <2>1. n + 1 \in 0 .. Len(ls)
    BY <1>1, <1>3
  <2>2. QED
    BY <1>3, <2>1, FirstType
<1> HIDE DEF chain
<1>7. chain = First(ls, n + 1)
  BY <1>5, <1>6, SeqEqual
<1>8. /\ Complete(recorded) \in Seq(Cell) /\ Len(Complete(recorded)) = 2 * Len(recorded) + 3
      /\ Complete(recorded)[2 * (n + 1)] = LineCell(recorded, n + 1)
      /\ Complete(recorded)[2 * (n + 1) + 1] = HashCell(recorded, n + 1)
  BY <1>1, CompleteCells
<1>9. LineCell(recorded, n + 1) = [cell |-> "line", data |-> line]
  BY <1>1 DEF LineCell, line
<1>10. HashCell(recorded, n + 1) = [cell |-> "hash", data |-> chain]
  BY <1>7 DEF HashCell, ls
<1>11. Frame(line, head) = <<[cell |-> "line", data |-> line], [cell |-> "hash", data |-> chain]>>
  BY DEF Frame, chain
<1>12. /\ Frame(line, head) \in Seq(Cell) /\ Len(Frame(line, head)) = 2
       /\ Frame(line, head)[1] = LineCell(recorded, n + 1)
       /\ Frame(line, head)[2] = HashCell(recorded, n + 1)
  <2>1. [cell |-> "line", data |-> line] \in Cell /\ [cell |-> "hash", data |-> chain] \in Cell
    BY <1>4, <1>5 DEF Cell
  <2>2. QED
    BY <1>9, <1>10, <1>11, <2>1
<1>13. /\ Len(Whole) + 1 = 2 * (n + 1) /\ Len(Whole) + 2 = 2 * (n + 1) + 1
       /\ Len(Whole) + 2 <= 2 * Len(recorded) + 3
  BY <1>1 DEF n
<1>14. Follow(Frame(line, head))
  BY <1>8, <1>12, <1>13 DEF Follow
<1>15. QED
  BY <1>4, <1>14 DEF line, n

LEMMA FooterFollows ==
    ASSUME Types, HeadFollows, Len(head) = Len(recorded), Len(Whole) = 2 * Len(head) + 1
    PROVE  Follow(Footer(head))
<1> DEFINE n == Len(recorded)
           ls == Lines(recorded)
<1>1. recorded \in Seq(Event) /\ head \in Seq(Link) /\ n \in Nat /\ Len(head) = n
  BY DEF Types
<1>2. /\ ls \in Seq(Link) /\ Len(ls) = n
      /\ \A k \in 1 .. n : ls[k] = Line(k - 1, recorded[k])
  BY <1>1, LinesType
<1> HIDE DEF n, ls
<1>3. \A k \in 1 .. n : head[k] = ls[k]
  BY <1>1, <1>2 DEF HeadFollows
<1>4. head = ls
  BY <1>1, <1>2, <1>3, SeqEqual
<1>5. /\ Len(Complete(recorded)) = 2 * n + 3
      /\ Complete(recorded)[2 * n + 2] = CountCell(recorded)
      /\ Complete(recorded)[2 * n + 3] = HeadCell(recorded)
  BY <1>1, CompleteCells DEF n
<1>6. /\ CountCell(recorded) = [cell |-> "VFIM", data |-> n]
      /\ HeadCell(recorded) = [cell |-> "head", data |-> head]
  BY <1>4 DEF CountCell, HeadCell, n, ls
<1>7. Footer(head) = <<[cell |-> "VFIM", data |-> n], [cell |-> "head", data |-> head]>>
  BY <1>1 DEF Footer
<1>8. [cell |-> "VFIM", data |-> n] \in Cell /\ [cell |-> "head", data |-> head] \in Cell
  BY <1>1 DEF Cell
<1>9. Len(Whole) + 1 = 2 * n + 2 /\ Len(Whole) + 2 = 2 * n + 3
  BY <1>1
<1>10. QED
  BY <1>5, <1>6, <1>7, <1>8, <1>9 DEF Follow

(***************************************************************************)
(* What a write leaves in file and buffer.                                 *)
(***************************************************************************)
LEMMA WriteWhole ==
    ASSUME Types, NEW cells \in Seq(Cell), NEW n \in 0 .. Len(buffer) + Len(cells), Write(cells, n)
    PROVE  /\ file' \in Seq(Cell) /\ buffer' \in Seq(Cell)
           /\ Len(file') = Len(file) + n /\ Len(buffer') = Len(buffer) + Len(cells) - n
           /\ Len(Whole') = Len(Whole) + Len(cells)
           /\ \A k \in 1 .. Len(Whole) : Whole'[k] = Whole[k]
           /\ \A k \in 1 .. Len(cells) : Whole'[Len(Whole) + k] = cells[k]
<1> DEFINE all == buffer \o cells
           f == file \o First(all, n)
           b == Rest(all, n)
           w == f \o b
<1>1. file \in Seq(Cell) /\ buffer \in Seq(Cell) /\ n \in Nat
  BY DEF Types
<1>2. all \in Seq(Cell) /\ Len(all) = Len(buffer) + Len(cells) /\ n \in 0 .. Len(all)
  BY <1>1
<1>3. First(all, n) \o b = all
  <2>1. 1 \in 1 .. Len(all) + 1 /\ n \in 1 - 1 .. Len(all) /\ Len(all) \in n .. Len(all)
    BY <1>2
  <2>2. SubSeq(all, 1, n) \o SubSeq(all, n + 1, Len(all)) = SubSeq(all, 1, Len(all))
    BY <1>2, <2>1, ConcatAdjacentSubSeq
  <2>3. SubSeq(all, 1, Len(all)) = all
    BY <1>2
  <2>4. QED
    BY <2>2, <2>3 DEF First, Rest
<1>4. /\ First(all, n) \in Seq(Cell) /\ Len(First(all, n)) = n
      /\ b \in Seq(Cell) /\ Len(b) = Len(all) - n
  BY <1>2, FirstType, RestType
<1>5. file' = f /\ buffer' = b
  BY DEF Write
<1> HIDE DEF b
<1>6. w = Whole \o cells
  <2> DEFINE q == First(all, n)
  <2>1. w = file \o (q \o b)
    <3>1. q \in Seq(Cell) /\ b \in Seq(Cell) /\ file \in Seq(Cell)
      BY <1>1, <1>4
    <3> HIDE DEF q
    <3>2. (file \o q) \o b = file \o (q \o b)
      BY <3>1, ConcatAssociative
    <3>3. QED
      BY <3>2 DEF q
  <2>2. file \o (buffer \o cells) = (file \o buffer) \o cells
    BY <1>1, ConcatAssociative
  <2>3. QED
    BY <1>3, <2>1, <2>2 DEF Whole
<1>7. Whole \in Seq(Cell) /\ Len(Whole) \in Nat
  BY WholeType
<1>8. \A k \in 1 .. Len(cells) : (Whole \o cells)[Len(Whole) + k] = cells[k]
  BY <1>7, Concatenation, SMT
<1>9. /\ Len(Whole \o cells) = Len(Whole) + Len(cells)
      /\ \A k \in 1 .. Len(Whole) : (Whole \o cells)[k] = Whole[k]
  BY <1>7, Concatenation, Zenon
<1>10. Whole' = Whole \o cells
  BY <1>5, <1>6 DEF Whole
<1>11. f \in Seq(Cell) /\ Len(f) = Len(file) + n
  BY <1>1, <1>4
<1>12. QED
  BY <1>2, <1>4, <1>5, <1>8, <1>9, <1>10, <1>11

LEMMA FailWhole ==
    ASSUME Types, NEW cells \in Seq(Cell), Fail(cells)
    PROVE  /\ file' \in Seq(Cell) /\ buffer' = <<>>
           /\ Len(Whole') \in 0 .. Len(Whole) + Len(cells)
           /\ \A k \in 1 .. Len(Whole') :
                 Whole'[k] = IF k <= Len(Whole) THEN Whole[k] ELSE cells[k - Len(Whole)]
<1> DEFINE all == buffer \o cells
           w == Whole \o cells
<1>1. PICK n \in 0 .. Len(buffer) + Len(cells) : file' = file \o First(all, n)
  BY DEF Fail
<1>2. file \in Seq(Cell) /\ buffer \in Seq(Cell) /\ n \in Nat
  BY DEF Types
<1>3. all \in Seq(Cell) /\ Len(all) = Len(buffer) + Len(cells) /\ n \in 0 .. Len(all)
  BY <1>2
<1>4. First(all, n) \in Seq(Cell) /\ Len(First(all, n)) = n
      /\ \A k \in 1 .. n : First(all, n)[k] = all[k]
  BY <1>3, FirstType
<1>5. /\ Whole \in Seq(Cell) /\ Len(Whole) = Len(file) + Len(buffer)
      /\ Len(file) \in Nat /\ Len(buffer) \in Nat /\ Len(cells) \in Nat
  BY WholeType
<1>6. w = file \o all
  BY <1>2, ConcatAssociative DEF Whole
<1>7. \A i \in 1 .. Len(Whole) + Len(cells) :
         w[i] = IF i <= Len(Whole) THEN Whole[i] ELSE cells[i - Len(Whole)]
  BY <1>5, ConcatProperties
<1>8. \A i \in 1 .. Len(file) + Len(all) :
         (file \o all)[i] = IF i <= Len(file) THEN file[i] ELSE all[i - Len(file)]
  BY <1>2, <1>3, ConcatProperties
<1> HIDE DEF w, all
<1>9. /\ file' \in Seq(Cell) /\ Len(file') = Len(file) + n
      /\ \A i \in 1 .. Len(file) + n :
            file'[i] = IF i <= Len(file) THEN file[i] ELSE First(all, n)[i - Len(file)]
  <2>1. file \o First(all, n) \in Seq(Cell) /\ Len(file \o First(all, n)) = Len(file) + n
    BY <1>2, <1>4, ConcatType
  <2>2. \A i \in 1 .. Len(file) + Len(First(all, n)) :
           (file \o First(all, n))[i]
              = IF i <= Len(file) THEN file[i] ELSE First(all, n)[i - Len(file)]
    BY <1>2, <1>4, ConcatProperties
  <2>3. QED
    BY <1>1, <1>4, <2>1, <2>2
<1>10. buffer' = <<>> /\ Whole' = file' \o <<>>
  BY DEF Fail, Whole
<1>11. Whole' = file'
  BY <1>9, <1>10, ConcatEmptySeq
<1>12. \A i \in 1 .. Len(file) + n : file'[i] = w[i]
  <2>1. SUFFICES ASSUME NEW i \in 1 .. Len(file) + n PROVE file'[i] = w[i]
    OBVIOUS
  <2>2. i \in 1 .. Len(file) + Len(all)
    BY <1>2, <1>3, <1>5
  <2>3. CASE i <= Len(file)
    BY <1>6, <1>8, <1>9, <2>2, <2>3
  <2>4. CASE ~(i <= Len(file))
    <3>1. i - Len(file) \in 1 .. n
      BY <1>2, <1>5, <2>4
    <3>2. QED
      BY <1>4, <1>6, <1>8, <1>9, <2>2, <2>4, <3>1
  <2>5. QED
    BY <2>3, <2>4
<1>13. Len(file) + n \in 0 .. Len(Whole) + Len(cells)
  BY <1>2, <1>3, <1>5
<1>14. QED
  BY <1>7, <1>9, <1>10, <1>11, <1>12, <1>13

(***************************************************************************)
(* Each kind of step.                                                      *)
(***************************************************************************)

\* What depends on the run only through these variables.
LEMMA InitInvariant == Init => IInv
<1>1. SUFFICES ASSUME Init PROVE IInv
  OBVIOUS
<1>2. Types
  <2>1. MaxEvents \in Nat /\ Len(<<>>) = 0
    BY LedgerAssumption
  <2>2. discard \in BOOLEAN /\ exists \in BOOLEAN
    BY <1>1, Zenon DEF Init
  <2>3. Len(recorded) <= MaxEvents
    BY <1>1, <2>1 DEF Init
  <2>4. /\ recorded \in Seq(Event) /\ mail \in Seq(Message) /\ head \in Seq(Link)
        /\ buffer \in Seq(Cell) /\ file \in Seq(Cell)
    BY <1>1 DEF Init
  <2>5. QED
    BY <1>1, <2>2, <2>3, <2>4 DEF Init, Types
<1>3. Whole = <<>>
  BY <1>1, <1>2, ConcatEmptySeq DEF Init, Types, Whole
<1>4. Len(recorded) = 0 /\ Len(head) = 0 /\ Len(mail) = 0 /\ Len(Whole) = 0
  BY <1>1, <1>3 DEF Init
<1>5. HeadFollows /\ MailFollows
  BY <1>1, <1>4 DEF Init, HeadFollows, MailFollows, Unwritten, Alive
<1>6. CellsFollow
  BY <1>1, <1>4 DEF Init, CellsFollow
<1>7. Position /\ Flushed
  BY <1>1, <1>4, LedgerAssumption DEF Init, Position, Flushed, Alive
<1>8. QED
  BY <1>2, <1>5, <1>6, <1>7 DEF IInv

LEMMA RecordKeeps ==
    ASSUME IInv, NEW event \in Event, Record(event)
    PROVE  IInv'
<1> DEFINE n == Len(recorded)
<1>1. /\ recorded \in Seq(Event) /\ head \in Seq(Link) /\ mail \in Seq(Message)
      /\ n \in Nat /\ Len(head) \in Nat /\ Len(head) <= n /\ MaxEvents \in Nat
  BY LedgerAssumption DEF IInv, Types, HeadFollows
<1>2. /\ recorded' = Append(recorded, event) /\ pc = "open" /\ n < MaxEvents
      /\ UNCHANGED <<pc, discard, result, writer, head, buffer, file, exists>>
      /\ mail' = IF writer = "failed" THEN mail
                 ELSE Append(mail, [end |-> FALSE, seq |-> n, event |-> event])
  BY <1>1 DEF Record, Send, NextSeq, disk
<1>3. /\ recorded' \in Seq(Event) /\ Len(recorded') = n + 1 /\ recorded'[n + 1] = event
      /\ \A k \in 1 .. n : recorded'[k] = recorded[k]
  BY <1>1, <1>2
<1>4. /\ EventMessage(recorded', n + 1) \in Message
      /\ EventMessage(recorded', n + 1) = [end |-> FALSE, seq |-> n, event |-> event]
  BY <1>1, <1>3 DEF EventMessage, Message
<1> HIDE DEF n
<1>5. Types'
  BY <1>1, <1>2, <1>3, <1>4 DEF IInv, Types
<1>6. HeadFollows'
  BY <1>1, <1>2, <1>3 DEF IInv, HeadFollows, n
<1>7. MailFollows'
  <2>1. SUFFICES ASSUME Alive', writer' \in {"create", "receive"}
                 PROVE  /\ Len(mail') = Unwritten'
                        /\ \A k \in 1 .. Unwritten' : mail'[k] = EventMessage(recorded', Len(head) + k)
    BY <1>2 DEF MailFollows
  <2>2. /\ Len(mail) = Unwritten
        /\ \A k \in 1 .. Unwritten : mail[k] = EventMessage(recorded, Len(head) + k)
    BY <1>2, <2>1 DEF IInv, MailFollows, Alive
  <2>3. Unwritten = n - Len(head) /\ Unwritten' = Unwritten + 1 /\ Unwritten \in Nat
    BY <1>1, <1>2, <1>3 DEF Unwritten, n
  <2>4. mail' = Append(mail, EventMessage(recorded', n + 1))
    BY <1>2, <1>4, <2>1
  <2>5. /\ Len(mail') = Unwritten + 1 /\ mail'[Unwritten + 1] = EventMessage(recorded', n + 1)
        /\ \A k \in 1 .. Unwritten : mail'[k] = mail[k]
    BY <1>1, <1>4, <2>2, <2>4
  <2>6. \A k \in 1 .. Unwritten : EventMessage(recorded', Len(head) + k) = EventMessage(recorded, Len(head) + k)
    <3>1. \A k \in 1 .. Unwritten : Len(head) + k \in 1 .. n
      BY <1>1, <2>3
    <3>2. QED
      BY <1>3, <3>1 DEF EventMessage
  <2>7. Len(head) + (Unwritten + 1) = n + 1
    BY <1>1, <2>3
  <2>8. \A k \in 1 .. Unwritten : mail'[k] = EventMessage(recorded', Len(head) + k)
    BY <2>2, <2>5, <2>6
  <2>9. mail'[Unwritten + 1] = EventMessage(recorded', Len(head) + (Unwritten + 1))
    BY <2>5, <2>7
  <2>10. ASSUME NEW k \in 1 .. Unwritten + 1
         PROVE  mail'[k] = EventMessage(recorded', Len(head) + k)
    BY <2>3, <2>8, <2>9
  <2>11. QED
    BY <1>2, <2>3, <2>5, <2>10
<1>8. CellsFollow'
  <2>1. /\ Len(Whole) <= 2 * n + 1 /\ Whole' = Whole /\ Len(Whole) \in Nat
        /\ \A k \in 1 .. Len(Whole) : Whole[k] = Complete(recorded)[k]
    BY <1>2, WholeType DEF IInv, CellsFollow, Whole, n
  <2>2. \A k \in 1 .. 2 * n + 1 : Complete(Append(recorded, event))[k] = Complete(recorded)[k]
    BY <1>1, CompleteGrows DEF n
  <2>3. \A k \in 1 .. Len(Whole) : Whole'[k] = Complete(recorded')[k]
    BY <1>1, <1>2, <2>1, <2>2
  <2>4. QED
    BY <1>1, <1>2, <1>3, <2>1, <2>3 DEF CellsFollow
<1>9. Position' /\ Flushed'
  BY <1>2 DEF IInv, Position, Flushed, Alive, Whole
<1>10. QED
  BY <1>5, <1>6, <1>7, <1>8, <1>9 DEF IInv

LEMMA FinishKeeps ==
    ASSUME IInv, NEW drops \in BOOLEAN, Finish(drops)
    PROVE  IInv'
<1>1. /\ recorded \in Seq(Event) /\ head \in Seq(Link) /\ mail \in Seq(Message)
      /\ Len(recorded) \in Nat /\ Len(head) \in Nat /\ Len(head) <= Len(recorded)
  BY DEF IInv, Types, HeadFollows
<1>2. /\ pc = "open" /\ pc' = "join"
      /\ UNCHANGED <<recorded, result, writer, head, buffer, file, exists>>
      /\ mail' = IF writer = "failed" THEN mail ELSE Append(mail, EndMessage)
  BY DEF Finish, Send, disk
<1>3. EndMessage \in Message
  BY DEF EndMessage, Message
<1>4. Types' /\ HeadFollows'
  BY <1>1, <1>2, <1>3 DEF IInv, Types, HeadFollows, Finish
<1>5. MailFollows'
  <2>1. SUFFICES ASSUME Alive', writer \in {"create", "receive"}
                 PROVE  /\ Len(mail') = Unwritten + 1
                        /\ \A k \in 1 .. Unwritten : mail'[k] = EventMessage(recorded, Len(head) + k)
                        /\ mail'[Unwritten + 1] = EndMessage
    BY <1>2 DEF MailFollows, Unwritten, EventMessage
  <2>2. /\ Len(mail) = Unwritten /\ Unwritten \in Nat
        /\ \A k \in 1 .. Unwritten : mail[k] = EventMessage(recorded, Len(head) + k)
    BY <1>1, <1>2, <2>1 DEF IInv, MailFollows, Alive, Unwritten
  <2>3. mail' = Append(mail, EndMessage)
    BY <1>2, <2>1
  <2>4. QED
    BY <1>1, <1>3, <2>2, <2>3
<1>6. CellsFollow'
  BY <1>1, <1>2 DEF IInv, CellsFollow, Whole
<1>7. Position' /\ Flushed'
  BY <1>2 DEF IInv, Position, Flushed, Alive, Whole
<1>8. QED
  BY <1>4, <1>5, <1>6, <1>7 DEF IInv

LEMMA JoinKeeps == ASSUME IInv, Join PROVE IInv'
<1>1. /\ pc = "join" /\ pc' = "ended" /\ writer \in {"done", "failed"}
      /\ result' = IF discard THEN "none" ELSE IF writer = "done" THEN "ok" ELSE "error"
      /\ UNCHANGED <<recorded, discard, mail, writer, head, buffer, file, exists>>
  BY DEF Join, disk
<1>2. Types' /\ HeadFollows' /\ CellsFollow'
  BY <1>1 DEF IInv, Types, HeadFollows, CellsFollow, Whole
<1>3. MailFollows' /\ Position' /\ Flushed'
  BY <1>1 DEF IInv, MailFollows, Position, Flushed, Alive, Whole
<1>4. QED
  BY <1>2, <1>3 DEF IInv

LEMMA CrashKeeps == ASSUME IInv, Crash PROVE IInv'
<1>1. /\ pc \in {"open", "join"} /\ pc' = "crashed" /\ mail' = <<>> /\ buffer' = <<>>
      /\ UNCHANGED <<recorded, discard, result, writer, head, file, exists>>
  BY DEF Crash
<1>2. Types' /\ HeadFollows'
  BY <1>1 DEF IInv, Types, HeadFollows
<1>3. CellsFollow'
  <2>1. /\ Len(Whole) = Len(file) + Len(buffer) /\ Len(file) \in Nat /\ Len(buffer) \in Nat
        /\ \A k \in 1 .. Len(file) : Whole[k] = file[k]
    BY WholeType DEF IInv
  <2>2. file \in Seq(Cell)
    BY DEF IInv, Types
  <2>3. Whole' = file
    BY <1>1, <2>2, ConcatEmptySeq DEF Whole
  <2>4. Len(recorded) \in Nat
    BY DEF IInv, Types
  <2>5. QED
    BY <1>1, <2>1, <2>3, <2>4 DEF IInv, CellsFollow
<1>4. MailFollows' /\ Position' /\ Flushed'
  BY <1>1 DEF IInv, MailFollows, Position, Flushed, Alive
<1>5. QED
  BY <1>2, <1>3, <1>4 DEF IInv

\* Between two flushes the number of frames since the last one grows by one.
LEMMA Remainder ==
    ASSUME NEW F \in Nat \ {0}, NEW n \in Nat
    PROVE  \E d \in Nat, m \in Nat : m = F * d /\ n = m + (n % F) /\ n % F \in 0 .. F - 1
OBVIOUS

LEMMA Quotient ==
    ASSUME NEW a \in Nat, NEW b \in Nat, FlushEvery * a < FlushEvery * b + FlushEvery
    PROVE  a <= b
BY LedgerAssumption

LEMMA BetweenFlushes ==
    ASSUME NEW n \in Nat, (n + 1) % FlushEvery # 0
    PROVE  (n + 1) % FlushEvery = (n % FlushEvery) + 1
<1> DEFINE r == n % FlushEvery
           q == (n + 1) % FlushEvery
<1>1. PICK d \in Nat, x \in Nat : x = FlushEvery * d /\ n = x + r /\ r \in 0 .. FlushEvery - 1
  BY Remainder, LedgerAssumption
<1>2. PICK e \in Nat, y \in Nat :
         y = FlushEvery * e /\ n + 1 = y + q /\ q \in 0 .. FlushEvery - 1
  <2>1. n + 1 \in Nat
    OBVIOUS
  <2>2. QED
    BY <2>1, Remainder, LedgerAssumption
<1>3. q # 0
  OBVIOUS
<1> HIDE DEF r, q
<1>4. y < x + FlushEvery /\ x < y + FlushEvery
  BY <1>1, <1>2, <1>3, LedgerAssumption
<1>5. e <= d /\ d <= e
  BY <1>1, <1>2, <1>4, Quotient
<1>6. d = e
  BY <1>1, <1>2, <1>5
<1>7. x = y
  BY <1>1, <1>2, <1>6
<1>8. QED
  BY <1>1, <1>2, <1>7 DEF r, q

\* What the writer receives next.
LEMMA NextMessage ==
    ASSUME IInv, Alive, writer = "receive", mail # <<>>
    PROVE  /\ ~Head(mail).end => /\ Len(head) < Len(recorded)
                                 /\ Head(mail).seq = Len(head)
                                 /\ Head(mail).event = recorded[Len(head) + 1]
           /\ Head(mail).end => pc = "join" /\ Len(head) = Len(recorded) /\ Len(mail) = 1
<1>1. /\ recorded \in Seq(Event) /\ head \in Seq(Link) /\ mail \in Seq(Message)
      /\ Len(recorded) \in Nat /\ Len(head) \in Nat /\ Len(head) <= Len(recorded)
  BY DEF IInv, Types, HeadFollows
<1>2. /\ Len(mail) = IF pc = "join" THEN Unwritten + 1 ELSE Unwritten
      /\ \A k \in 1 .. Unwritten : mail[k] = EventMessage(recorded, Len(head) + k)
      /\ pc = "join" => mail[Unwritten + 1] = EndMessage
      /\ Unwritten \in Nat /\ Unwritten = Len(recorded) - Len(head)
  BY <1>1 DEF IInv, MailFollows, Unwritten
<1>3. Len(mail) \in Nat /\ Len(mail) # 0 /\ Head(mail) = mail[1]
  BY <1>1
<1>4. CASE Unwritten = 0
  <2>1. pc = "join" /\ mail[1] = EndMessage /\ Len(mail) = 1
    BY <1>2, <1>3, <1>4
  <2>2. EndMessage.end
    BY DEF EndMessage
  <2>3. QED
    BY <1>1, <1>2, <1>3, <1>4, <2>1, <2>2
<1>5. CASE Unwritten # 0
  <2>1. 1 \in 1 .. Unwritten
    BY <1>2, <1>5
  <2>2. mail[1] = EventMessage(recorded, Len(head) + 1)
    BY <1>2, <2>1
  <2>3. /\ ~mail[1].end /\ mail[1].seq = Len(head) /\ mail[1].event = recorded[Len(head) + 1]
    BY <1>1, <2>2 DEF EventMessage
  <2>4. QED
    BY <1>1, <1>2, <1>3, <1>5, <2>3
<1>6. QED
  BY <1>4, <1>5

\* An error leaves a prefix, whatever the writer was about to write.
LEMMA FailKeeps ==
    ASSUME IInv, Alive, writer \in {"create", "receive"}, NEW cells \in Seq(Cell), Fail(cells),
           cells = <<>> \/ (Follow(cells) /\ (pc = "open" => Len(head) < Len(recorded)
                                                         /\ Len(Whole) = 2 * Len(head) + 1))
    PROVE  IInv'
<1>1. /\ writer' = "failed" /\ mail' = <<>> /\ buffer' = <<>>
      /\ UNCHANGED <<pc, recorded, discard, result, head, exists>>
  BY DEF Fail, engine
<1>2. /\ file' \in Seq(Cell) /\ Len(Whole') \in 0 .. Len(Whole) + Len(cells)
      /\ \A k \in 1 .. Len(Whole') :
            Whole'[k] = IF k <= Len(Whole) THEN Whole[k] ELSE cells[k - Len(Whole)]
  BY FailWhole DEF IInv
<1>3. Types' /\ HeadFollows'
  BY <1>1, <1>2 DEF IInv, Types, HeadFollows
<1>4. MailFollows' /\ Position' /\ Flushed'
  BY <1>1 DEF IInv, MailFollows, Position, Flushed, Alive
<1>5. CellsFollow'
  <2>1. /\ Len(Whole) \in Nat /\ recorded \in Seq(Event) /\ Len(recorded) \in Nat
        /\ Len(head) \in Nat
    BY WholeType DEF IInv, Types
  <2>2. /\ Len(Whole) <= IF pc = "open" THEN 2 * Len(recorded) + 1 ELSE 2 * Len(recorded) + 3
        /\ \A k \in 1 .. Len(Whole) : Whole[k] = Complete(recorded)[k]
    BY DEF IInv, CellsFollow
  <2>3. CASE cells = <<>>
    <3>1. Len(Whole') \in 0 .. Len(Whole)
      BY <1>2, <2>1, <2>3
    <3>2. \A k \in 1 .. Len(Whole') : Whole'[k] = Complete(recorded)[k]
      BY <1>2, <2>1, <2>2, <3>1
    <3>3. QED
      BY <1>1, <2>1, <2>2, <3>1, <3>2 DEF CellsFollow
  <2>4. CASE /\ Follow(cells)
             /\ pc = "open" => Len(head) < Len(recorded) /\ Len(Whole) = 2 * Len(head) + 1
    <3>1. /\ Len(cells) = 2 /\ Len(Whole) + 2 <= 2 * Len(recorded) + 3
          /\ cells[1] = Complete(recorded)[Len(Whole) + 1]
          /\ cells[2] = Complete(recorded)[Len(Whole) + 2]
      BY <2>1, <2>4, CompleteCells DEF Follow
    <3>2. ASSUME NEW k \in 1 .. Len(Whole')
          PROVE  Whole'[k] = Complete(recorded)[k]
      <4>1. CASE k <= Len(Whole)
        BY <1>2, <2>1, <2>2, <4>1
      <4>2. CASE ~(k <= Len(Whole))
        <5>1. k = Len(Whole) + 1 \/ k = Len(Whole) + 2
          <6>1. k \in 1 .. Len(Whole) + 2
            BY <1>2, <2>1, <3>1
          <6>2. QED
            BY <2>1, <4>2, <6>1
        <5>2. (Len(Whole) + 1) - Len(Whole) = 1 /\ (Len(Whole) + 2) - Len(Whole) = 2
          BY <2>1
        <5>3. QED
          BY <1>2, <3>1, <4>2, <5>1, <5>2
      <4>3. QED
        BY <4>1, <4>2
    <3>3. Len(Whole') <= IF pc = "open" THEN 2 * Len(recorded) + 1 ELSE 2 * Len(recorded) + 3
      BY <1>2, <2>1, <2>4, <3>1
    <3>4. QED
      BY <1>1, <3>2, <3>3 DEF CellsFollow
  <2>5. QED
    BY <2>3, <2>4
<1>6. QED
  BY <1>3, <1>4, <1>5 DEF IInv

\* Cells that follow, once written, still begin the complete file.
LEMMA FollowKept ==
    ASSUME IInv, NEW cells, NEW n \in 0 .. Len(buffer) + Len(cells), Write(cells, n),
           Follow(cells), UNCHANGED recorded
    PROVE  /\ file' \in Seq(Cell) /\ buffer' \in Seq(Cell)
           /\ Len(file') = Len(file) + n /\ Len(buffer') = Len(buffer) + 2 - n
           /\ Len(Whole') = Len(Whole) + 2
           /\ \A k \in 1 .. Len(Whole') : Whole'[k] = Complete(recorded')[k]
<1>1. /\ cells \in Seq(Cell) /\ Len(cells) = 2
      /\ cells[1] = Complete(recorded)[Len(Whole) + 1]
      /\ cells[2] = Complete(recorded)[Len(Whole) + 2]
  BY DEF Follow
<1>2. Types /\ \A k \in 1 .. Len(Whole) : Whole[k] = Complete(recorded)[k]
  BY DEF IInv, CellsFollow
<1>3. Len(Whole) \in Nat
  BY <1>2, WholeType
<1>4. /\ file' \in Seq(Cell) /\ buffer' \in Seq(Cell)
      /\ Len(file') = Len(file) + n /\ Len(buffer') = Len(buffer) + Len(cells) - n
      /\ Len(Whole') = Len(Whole) + Len(cells)
      /\ \A k \in 1 .. Len(Whole) : Whole'[k] = Whole[k]
      /\ \A k \in 1 .. Len(cells) : Whole'[Len(Whole) + k] = cells[k]
  BY <1>1, <1>2, WriteWhole
<1>5. ASSUME NEW k \in 1 .. Len(Whole) + 2
      PROVE  Whole'[k] = Complete(recorded)[k]
  <2>1. CASE k <= Len(Whole)
    BY <1>2, <1>3, <1>4, <2>1
  <2>2. CASE ~(k <= Len(Whole))
    <3>1. k = Len(Whole) + 1 \/ k = Len(Whole) + 2
      BY <1>3, <2>2
    <3>2. QED
      BY <1>1, <1>4, <3>1
  <2>3. QED
    BY <2>1, <2>2
<1>6. QED
  BY <1>1, <1>4, <1>5

LEMMA CreateFileKeeps == ASSUME IInv, CreateFile PROVE IInv'
<1>1. Alive /\ writer = "create"
  BY DEF CreateFile
<1>2. CASE Fail(<<>>)
  <2>1. <<>> \in Seq(Cell)
    OBVIOUS
  <2>2. QED
    BY <1>1, <1>2, <2>1, FailKeeps
<1>3. CASE /\ writer' = "receive" /\ exists' = TRUE
           /\ Write(<<Header>>, 0)
           /\ UNCHANGED <<engine, mail, head>>
  <2>1. /\ UNCHANGED <<pc, recorded, discard, result, mail, head>> /\ writer' = "receive"
        /\ exists' = TRUE
    BY <1>3 DEF engine
  <2>2. head = <<>> /\ file = <<>> /\ buffer = <<>>
    BY <1>1 DEF IInv, Position
  <2>3. <<Header>> \in Seq(Cell) /\ Len(<<Header>>) = 1 /\ <<Header>>[1] = Header
    BY DEF Header, Cell
  <2>4. Len(Whole) = 0 /\ Len(buffer) = 0 /\ Len(head) = 0 /\ Len(file) = 0
    BY <2>2, WholeType DEF IInv
  <2>5. 0 \in 0 .. Len(buffer) + Len(<<Header>>)
    BY <2>3, <2>4
  <2>6. /\ file' \in Seq(Cell) /\ buffer' \in Seq(Cell)
        /\ Len(Whole') = Len(Whole) + Len(<<Header>>)
        /\ \A k \in 1 .. Len(<<Header>>) : Whole'[Len(Whole) + k] = <<Header>>[k]
    BY <1>3, <2>3, <2>5, WriteWhole DEF IInv
  <2>7. Len(Whole') = 1 /\ Whole'[1] = Header
    BY <2>3, <2>4, <2>6
  <2>8. recorded \in Seq(Event) /\ Len(recorded) \in Nat /\ Complete(recorded)[1] = Header
    BY CompleteCells DEF IInv, Types
  <2>9. Types' /\ HeadFollows'
    BY <2>1, <2>6, Zenon DEF IInv, Types, HeadFollows
  <2>10. CellsFollow'
    BY <2>1, <2>7, <2>8 DEF CellsFollow
  <2>11. MailFollows'
    BY <1>1, <2>1 DEF IInv, MailFollows, Alive, Unwritten
  <2>12. Position' /\ Flushed'
    BY <1>1, <2>1, <2>4, <2>7, LedgerAssumption DEF IInv, Position, Flushed, Alive
  <2>13. QED
    BY <2>9, <2>10, <2>11, <2>12 DEF IInv
<1>4. QED
  BY <1>2, <1>3 DEF CreateFile

LEMMA WriteFrameKeeps == ASSUME IInv, WriteFrame PROVE IInv'
<1> DEFINE n == Len(head)
           line == Line(Head(mail).seq, Head(mail).event)
           frame == Frame(line, head)
<1>1. Alive /\ writer = "receive" /\ mail # <<>> /\ ~Head(mail).end
  BY DEF WriteFrame
<1>2. /\ n < Len(recorded) /\ Head(mail).seq = n /\ Head(mail).event = recorded[n + 1]
  BY <1>1, NextMessage
<1>3. Types /\ HeadFollows /\ Len(Whole) = 2 * n + 1
  BY <1>1 DEF IInv, Position
<1>4. line = Line(n, recorded[n + 1])
  BY <1>2
<1>5. line \in Link /\ Follow(frame)
  BY <1>2, <1>3, <1>4, FrameFollows
<1>6. /\ recorded \in Seq(Event) /\ Len(recorded) \in Nat /\ head \in Seq(Link)
      /\ n \in Nat /\ n + 1 <= Len(recorded) /\ mail \in Seq(Message)
  BY <1>2 DEF IInv, Types
<1>7. CASE Fail(frame)
  <2>1. frame \in Seq(Cell)
    BY <1>5 DEF Follow
  <2>2. QED
    BY <1>1, <1>2, <1>3, <1>5, <1>7, <2>1, FailKeeps
<1>8. CASE /\ \E m \in IF FlushDue(Len(head) + 1) THEN {Len(buffer) + 2}
                       ELSE {0, Len(buffer), Len(buffer) + 1} : Write(frame, m)
           /\ head' = HeadAfter(line)
           /\ mail' = Tail(mail)
           /\ UNCHANGED <<engine, writer, exists>>
  <2> HIDE DEF line, frame
  <2>1. PICK m \in IF FlushDue(Len(head) + 1) THEN {Len(buffer) + 2}
                   ELSE {0, Len(buffer), Len(buffer) + 1} : Write(frame, m)
    BY <1>8
  <2>2. Len(buffer) \in Nat /\ Len(file) \in Nat /\ Len(Whole) = Len(file) + Len(buffer)
    BY <1>3, WholeType
  <2>3. Len(frame) = 2 /\ m \in 0 .. Len(buffer) + 2 /\ m \in 0 .. Len(buffer) + Len(frame)
    BY <1>5, <2>1, <2>2 DEF Follow
  <2>4. UNCHANGED <<pc, recorded, discard, result, writer, exists>> /\ mail' = Tail(mail)
    BY <1>8 DEF engine
  <2>5. /\ file' \in Seq(Cell) /\ buffer' \in Seq(Cell)
        /\ Len(file') = Len(file) + m
        /\ Len(Whole') = Len(Whole) + 2
        /\ \A k \in 1 .. Len(Whole') : Whole'[k] = Complete(recorded')[k]
    BY <1>5, <2>1, <2>3, <2>4, FollowKept
  <2>6. head' = Append(head, line)
    BY <1>8 DEF HeadAfter
  <2>7. /\ head' \in Seq(Link) /\ Len(head') = n + 1 /\ head'[n + 1] = line
        /\ \A k \in 1 .. n : head'[k] = head[k]
    BY <1>5, <1>6, <2>6
  <2>8. mail' \in Seq(Message)
    BY <1>1, <1>6, <2>4
  <2>9. Types'
    BY <2>4, <2>5, <2>7, <2>8, Zenon DEF IInv, Types
  <2>10. HeadFollows'
    <3>1. \A k \in 1 .. n : head[k] = Line(k - 1, recorded[k])
      BY <1>3 DEF HeadFollows
    <3>2. head'[n + 1] = Line((n + 1) - 1, recorded[n + 1])
      BY <1>4, <1>6, <2>7
    <3>3. ASSUME NEW k \in 1 .. n + 1 PROVE head'[k] = Line(k - 1, recorded[k])
      <4>1. k \in 1 .. n \/ k = n + 1
        BY <1>6
      <4>2. QED
        BY <2>7, <3>1, <3>2, <4>1
    <3>4. QED
      BY <1>6, <2>4, <2>7, <3>3 DEF HeadFollows
  <2>11. MailFollows'
    <3>1. /\ Len(mail) = IF pc = "join" THEN Unwritten + 1 ELSE Unwritten
          /\ \A k \in 1 .. Unwritten : mail[k] = EventMessage(recorded, Len(head) + k)
          /\ pc = "join" => mail[Unwritten + 1] = EndMessage
      BY <1>1 DEF IInv, MailFollows
    <3>2. Unwritten \in Nat /\ Unwritten' = Unwritten - 1 /\ Unwritten = Len(recorded) - n
          /\ Unwritten' \in Nat
      BY <1>6, <2>4, <2>7 DEF Unwritten
    <3>3. /\ Len(mail') = Len(mail) - 1
          /\ \A k \in 1 .. Len(mail) - 1 : mail'[k] = mail[k + 1]
      BY <1>1, <1>6, <2>4
    <3>4. Len(mail') = IF pc = "join" THEN Unwritten' + 1 ELSE Unwritten'
      BY <3>1, <3>2, <3>3
    <3>5. ASSUME NEW k \in 1 .. Unwritten'
          PROVE  mail'[k] = EventMessage(recorded, Len(head') + k)
      <4>1. k + 1 \in 1 .. Unwritten /\ k \in 1 .. Len(mail) - 1
            /\ Len(head') + k = n + (k + 1)
        BY <1>6, <2>7, <3>1, <3>2
      <4>2. QED
        BY <3>1, <3>3, <4>1
    <3>6. pc = "join" => mail'[Unwritten' + 1] = EndMessage
      <4>1. pc = "join" => Unwritten' + 1 \in 1 .. Len(mail) - 1 /\ (Unwritten' + 1) + 1 = Unwritten + 1
        BY <3>1, <3>2
      <4>2. QED
        BY <3>1, <3>3, <4>1
    <3>7. QED
      BY <2>4, <3>4, <3>5, <3>6 DEF MailFollows
  <2>12. CellsFollow'
    <3>1. Len(Whole') <= 2 * Len(recorded) + 1
      BY <1>3, <1>6, <2>5
    <3>2. QED
      BY <1>6, <2>4, <2>5, <3>1 DEF CellsFollow
  <2>13. Position'
    <3>1. Len(Whole') = 2 * Len(head') + 1
      BY <1>3, <1>6, <2>5, <2>7
    <3>2. QED
      BY <1>1, <2>4, <3>1 DEF IInv, Position, Alive
  <2>14. Flushed'
    <3>1. CASE FlushDue(n + 1)
      <4>1. m = Len(buffer) + 2
        BY <2>1, <3>1
      <4>2. Len(file') = 2 * (n + 1) + 1
        BY <1>3, <1>6, <2>2, <2>5, <4>1
      <4>3. (n + 1) % FlushEvery = 0
        BY <3>1 DEF FlushDue
      <4>4. QED
        BY <1>6, <2>7, <4>2, <4>3 DEF Flushed
    <3>2. CASE ~FlushDue(n + 1)
      <4>1. (n + 1) % FlushEvery # 0
        BY <3>2 DEF FlushDue
      <4>2. (n + 1) % FlushEvery = (n % FlushEvery) + 1
        BY <1>6, <4>1, BetweenFlushes
      <4>3. Len(file') >= Len(file)
        BY <2>2, <2>3, <2>5
      <4>4. n < FlushEvery \/ 2 * (n - (n % FlushEvery)) + 1 <= Len(file)
        BY <1>1 DEF IInv, Flushed
      <4>5. n % FlushEvery \in Nat
        BY <1>6, Remainder, LedgerAssumption
      <4>6. CASE n < FlushEvery
        <5>1. n + 1 < FlushEvery \/ n + 1 = FlushEvery
          BY <1>6, <4>6, LedgerAssumption
        <5>2. FlushEvery % FlushEvery = 0
          BY LedgerAssumption
        <5>3. n + 1 < FlushEvery
          BY <4>1, <5>1, <5>2
        <5>4. QED
          BY <2>7, <5>3 DEF Flushed
      <4>7. CASE 2 * (n - (n % FlushEvery)) + 1 <= Len(file)
        <5>1. (n + 1) - ((n + 1) % FlushEvery) = n - (n % FlushEvery)
          BY <1>6, <4>2, <4>5
        <5>2. 2 * ((n + 1) - ((n + 1) % FlushEvery)) + 1 <= Len(file')
          <6> DEFINE done == n - (n % FlushEvery)
          <6>1. done \in Int
            BY <1>6, <4>5
          <6>2. 2 * done + 1 <= Len(file) /\ (n + 1) - ((n + 1) % FlushEvery) = done
            BY <4>7, <5>1
          <6>3. Len(file) \in Nat /\ Len(file') \in Nat
            BY <2>2, <2>3, <2>5
          <6> HIDE DEF done
          <6>4. 2 * done + 1 <= Len(file')
            BY <4>3, <6>1, <6>2, <6>3
          <6>5. QED
            BY <6>2, <6>4
        <5>3. QED
          BY <2>7, <5>2 DEF Flushed
      <4>8. QED
        BY <4>4, <4>6, <4>7
    <3>3. QED
      BY <3>1, <3>2
  <2>15. QED
    BY <2>9, <2>10, <2>11, <2>12, <2>13, <2>14 DEF IInv
<1>9. QED
  BY <1>7, <1>8 DEF WriteFrame

LEMMA WriteFooterKeeps == ASSUME IInv, WriteFooter PROVE IInv'
<1>1. Alive /\ writer = "receive" /\ mail # <<>> /\ Head(mail).end
  BY DEF WriteFooter
<1>2. pc = "join" /\ Len(head) = Len(recorded) /\ Len(mail) = 1
  BY <1>1, NextMessage
<1>3. Types /\ HeadFollows /\ Len(Whole) = 2 * Len(head) + 1
  BY <1>1 DEF IInv, Position
<1>4. Follow(Footer(head))
  BY <1>2, <1>3, FooterFollows
<1>5. CASE Fail(Footer(head))
  <2>1. Footer(head) \in Seq(Cell)
    BY <1>4 DEF Follow
  <2>2. QED
    BY <1>1, <1>2, <1>4, <1>5, <2>1, FailKeeps
<1>6. CASE /\ Write(Footer(head), Len(buffer) + 2)
           /\ writer' = "done" /\ mail' = Tail(mail)
           /\ UNCHANGED <<engine, head, exists>>
  <2>1. UNCHANGED <<pc, recorded, discard, result, head, exists>> /\ writer' = "done"
        /\ mail' = Tail(mail)
    BY <1>6 DEF engine
  <2>2. Len(buffer) \in Nat /\ Len(file) \in Nat /\ Len(Whole) = Len(file) + Len(buffer)
    BY <1>3, WholeType
  <2>3. Len(buffer) + 2 \in 0 .. Len(buffer) + Len(Footer(head))
    BY <1>4, <2>2 DEF Follow
  <2>4. /\ file' \in Seq(Cell) /\ buffer' \in Seq(Cell)
        /\ Len(file') = Len(file) + (Len(buffer) + 2) /\ Len(buffer') = Len(buffer) + 2 - (Len(buffer) + 2)
        /\ Len(Whole') = Len(Whole) + 2
        /\ \A k \in 1 .. Len(Whole') : Whole'[k] = Complete(recorded')[k]
    BY <1>4, <1>6, <2>1, <2>3, FollowKept
  <2>5. mail \in Seq(Message) /\ Len(recorded) \in Nat
    BY DEF IInv, Types
  <2>6. mail' \in Seq(Message)
    BY <1>1, <2>1, <2>5
  <2>7. buffer' = <<>>
    <3>1. Len(buffer') = 0
      BY <2>2, <2>4
    <3>2. QED
      BY <2>4, <3>1, EmptySeq
  <2>8. Len(file') = 2 * Len(recorded) + 3 /\ Len(Whole') = 2 * Len(recorded) + 3
    <3>1. Len(Whole) = 2 * Len(recorded) + 1
      BY <1>2, <1>3
    <3>2. Len(file') = Len(Whole) + 2 /\ Len(Whole') = Len(Whole) + 2
      BY <2>2, <2>4
    <3>3. QED
      BY <2>5, <3>1, <3>2
  <2>9. Types' /\ HeadFollows'
    BY <2>1, <2>4, <2>6, Zenon DEF IInv, Types, HeadFollows
  <2>10. CellsFollow'
    BY <1>2, <2>1, <2>4, <2>5, <2>8 DEF CellsFollow
  <2>11. MailFollows' /\ Flushed'
    BY <2>1 DEF MailFollows, Flushed
  <2>12. Position'
    BY <1>2, <2>1, <2>7, <2>8 DEF Position
  <2>13. QED
    BY <2>9, <2>10, <2>11, <2>12 DEF IInv
<1>7. QED
  BY <1>5, <1>6 DEF WriteFooter

(***************************************************************************)
(* The theorems.                                                           *)
(***************************************************************************)

\* Every event recorded is in the chain or in the channel, in its place; file
\* and buffer hold what the writer composed, all that follows from it.
THEOREM InvariantHolds == Spec => []IInv
<1>1. ASSUME IInv, [Next]_vars PROVE IInv'
  <2>1. CASE UNCHANGED vars
    BY <1>1, <2>1
       DEF vars, engine, disk, IInv, Types, HeadFollows, MailFollows, Unwritten, CellsFollow,
           Whole, Position, Flushed, Alive
  <2>2. CASE Next
    BY <1>1, <2>2, RecordKeeps, FinishKeeps, JoinKeeps, CrashKeeps, CreateFileKeeps,
       WriteFrameKeeps, WriteFooterKeeps DEF Next, Writer
  <2>3. QED
    BY <1>1, <2>1, <2>2
<1>2. QED
  BY <1>1, InitInvariant, PTL DEF Spec

THEOREM TypeCorrect == Spec => []TypeOK
<1>1. IInv => TypeOK
  <2>1. SUFFICES ASSUME Types PROVE TypeOK
    BY DEF IInv
  <2>2. \A s \in Seq(Cell) : AreCells(s)
    <3>1. \A c \in Cell : c.cell \in {"header", "line", "hash", "VFIM", "head"}
      BY DEF Cell
    <3>2. QED
      BY <3>1 DEF AreCells
  <2>3. QED
    BY <2>1, <2>2 DEF Types, TypeOK, Link
<1>2. QED
  BY <1>1, InvariantHolds, PTL

\* "a thread de gravacao NUNCA inventa eventos": whatever happens, the file is
\* a prefix of the complete one, and lags behind the chain by less than a flush.
THEOREM FileIsHonest == Spec => []FileIsPrefix
<1>1. IInv => FileIsPrefix
  <2>1. SUFFICES ASSUME IInv PROVE FileIsPrefix
    OBVIOUS
  <2>2. /\ Types /\ recorded \in Seq(Event) /\ file \in Seq(Cell) /\ head \in Seq(Link)
        /\ Len(recorded) \in Nat /\ Len(head) \in Nat
    BY <2>1 DEF IInv, Types
  <2>3. /\ Len(Whole) = Len(file) + Len(buffer) /\ Len(file) \in Nat /\ Len(buffer) \in Nat
        /\ \A k \in 1 .. Len(file) : Whole[k] = file[k]
    BY <2>2, WholeType
  <2>4. /\ Len(Whole) <= IF pc = "open" THEN 2 * Len(recorded) + 1 ELSE 2 * Len(recorded) + 3
        /\ \A k \in 1 .. Len(Whole) : Whole[k] = Complete(recorded)[k]
    BY <2>1 DEF IInv, CellsFollow
  <2>5. Complete(recorded) \in Seq(Cell) /\ Len(Complete(recorded)) = 2 * Len(recorded) + 3
    BY <2>2, CompleteCells
  <2>6. Len(file) \in 0 .. Len(Complete(recorded))
    BY <2>2, <2>3, <2>4, <2>5
  <2>7. /\ First(Complete(recorded), Len(file)) \in Seq(Cell)
        /\ Len(First(Complete(recorded), Len(file))) = Len(file)
        /\ \A k \in 1 .. Len(file) : First(Complete(recorded), Len(file))[k] = Complete(recorded)[k]
    BY <2>5, <2>6, FirstType
  <2>8. \A k \in 1 .. Len(file) : file[k] = First(Complete(recorded), Len(file))[k]
    BY <2>3, <2>4, <2>7
  <2>9. file = First(Complete(recorded), Len(file))
    BY <2>2, <2>7, <2>8, SeqEqual
  <2>10. PrefixOfRun
    BY <2>2, <2>3, <2>4, <2>6, <2>9 DEF PrefixOfRun, IsPrefixOf
  <2>11. CrashLosesLittle
    <3>1. SUFFICES ASSUME writer = "receive", ~(Len(head) < FlushEvery)
                   PROVE  2 * (Len(head) - FlushEvery) + 1 < Len(file)
      BY DEF CrashLosesLittle
    <3>2. 2 * (Len(head) - (Len(head) % FlushEvery)) + 1 <= Len(file)
      BY <2>1, <3>1 DEF IInv, Flushed
    <3>3. Len(head) % FlushEvery \in 0 .. FlushEvery - 1
      BY <2>2, Remainder, LedgerAssumption
    <3>4. QED
      BY <2>2, <2>3, <3>2, <3>3, LedgerAssumption
  <2>12. QED
    BY <2>10, <2>11 DEF FileIsPrefix
<1>2. QED
  BY <1>1, InvariantHolds, PTL

\* close says "ok" only of a file that holds every event recorded.
THEOREM SuccessIsComplete == Spec => []ClosedIsComplete
<1>1. IInv => ClosedIsComplete
  <2>1. SUFFICES ASSUME IInv, pc = "ended", result = "ok" \/ (discard /\ writer = "done")
                 PROVE  file = Complete(recorded)
    BY DEF ClosedIsComplete
  <2>2. writer = "done"
    BY <2>1 DEF IInv, Position
  <2>3. Len(file) = 2 * Len(recorded) + 3
    BY <2>1, <2>2 DEF IInv, Position
  <2>4. /\ Types /\ recorded \in Seq(Event) /\ file \in Seq(Cell)
    BY <2>1 DEF IInv, Types
  <2>5. Complete(recorded) \in Seq(Cell) /\ Len(Complete(recorded)) = 2 * Len(recorded) + 3
    BY <2>4, CompleteCells
  <2>6. \A k \in 1 .. Len(file) : file[k] = Complete(recorded)[k]
    <3>1. /\ Len(Whole) = Len(file) + Len(buffer) /\ Len(file) \in Nat /\ Len(buffer) \in Nat
          /\ \A k \in 1 .. Len(file) : Whole[k] = file[k]
      BY <2>4, WholeType
    <3>2. \A k \in 1 .. Len(Whole) : Whole[k] = Complete(recorded)[k]
      BY <2>1 DEF IInv, CellsFollow
    <3>3. QED
      BY <3>1, <3>2
  <2>7. QED
    BY <2>3, <2>4, <2>5, <2>6, SeqEqual
<1>2. QED
  BY <1>1, InvariantHolds, PTL

(***************************************************************************)
(* The verifier.                                                           *)
(***************************************************************************)
BodyEnd(cells) == IF HasFooter(cells) THEN Len(cells) - 2 ELSE Len(cells)

LEMMA BodyCells ==
    ASSUME NEW S, NEW cells \in Seq(S), Len(cells) >= 1
    PROVE  /\ BodyEnd(cells) \in 1 .. Len(cells)
           /\ Len(Body(cells)) = BodyEnd(cells) - 1
           /\ \A i \in 1 .. BodyEnd(cells) - 1 : Body(cells)[i] = cells[i + 1]
           /\ Frames(cells) \in Nat /\ Frames(cells) = (BodyEnd(cells) - 1) \div 2
           /\ 2 * Frames(cells) + 1 <= BodyEnd(cells)
<1> DEFINE m == BodyEnd(cells)
<1>1. m \in 1 .. Len(cells) /\ m - 1 \in Nat
  BY DEF HasFooter, BodyEnd
<1>2. Body(cells) = SubSeq(cells, 2, m)
  BY DEF Body, BodyEnd
<1> HIDE DEF m
<1>3. Len(SubSeq(cells, 2, m)) = m - 1 /\ \A i \in 1 .. m - 1 : SubSeq(cells, 2, m)[i] = cells[i + 1]
  BY <1>1
<1>4. Frames(cells) = (m - 1) \div 2
  BY <1>2, <1>3 DEF Frames
<1>5. (m - 1) \div 2 \in Nat /\ 2 * ((m - 1) \div 2) + 1 <= m
  BY <1>1
<1>6. QED
  BY <1>1, <1>2, <1>3, <1>4, <1>5 DEF m

LEMMA FrameCells ==
    ASSUME NEW S, NEW cells \in Seq(S), Len(cells) >= 1, NEW k \in 1 .. Frames(cells)
    PROVE  /\ LineAt(cells, k) = cells[2 * k].data
           /\ HashAt(cells, k) = cells[2 * k + 1].data
<1>1. /\ \A i \in 1 .. BodyEnd(cells) - 1 : Body(cells)[i] = cells[i + 1]
      /\ Frames(cells) \in Nat /\ 2 * Frames(cells) + 1 <= BodyEnd(cells)
      /\ BodyEnd(cells) \in Nat
  BY BodyCells
<1>2. /\ 2 * k - 1 \in 1 .. BodyEnd(cells) - 1 /\ 2 * k \in 1 .. BodyEnd(cells) - 1
      /\ (2 * k - 1) + 1 = 2 * k
  BY <1>1
<1>3. QED
  BY <1>1, <1>2 DEF LineAt, HashAt

\* What the verifier sees of a file that is a prefix of the complete one.
Prefix(cells) ==
    /\ cells \in Seq(Cell) /\ Len(cells) >= 1 /\ Len(cells) <= 2 * Len(recorded) + 3
    /\ \A k \in 1 .. Len(cells) : cells[k] = Complete(recorded)[k]

LEMMA PrefixFrames ==
    ASSUME recorded \in Seq(Event), NEW cells, Prefix(cells)
    PROVE  /\ HasFooter(cells) <=> Len(cells) = 2 * Len(recorded) + 3
           /\ Frames(cells) <= Len(recorded)
           /\ \A k \in 1 .. Frames(cells) : /\ LineAt(cells, k) = Line(k - 1, recorded[k])
                                            /\ HashAt(cells, k) = First(Lines(recorded), k)
                                            /\ HashAt(cells, k) = ChainTo(cells, k)
<1> DEFINE n == Len(recorded)
           L == Len(cells)
           C == Complete(recorded)
<1>1. n \in Nat /\ L \in Nat /\ L >= 1 /\ L <= 2 * n + 3 /\ cells \in Seq(Cell)
      /\ \A k \in 1 .. L : cells[k] = C[k]
  BY DEF Prefix
<1>2. /\ C[1] = Header
      /\ \A j \in 1 .. n : C[2 * j] = LineCell(recorded, j) /\ C[2 * j + 1] = HashCell(recorded, j)
      /\ C[2 * n + 2] = CountCell(recorded)
  BY CompleteCells
<1> HIDE DEF n, L, C
<1>3. HasFooter(cells) <=> L = 2 * n + 3
  <2>1. CASE L = 2 * n + 3
    <3>1. L >= 3 /\ L - 1 \in 1 .. L /\ L - 1 = 2 * n + 2
      BY <1>1, <2>1
    <3>2. cells[L - 1] = CountCell(recorded)
      BY <1>1, <1>2, <3>1
    <3>3. QED
      BY <2>1, <3>1, <3>2 DEF HasFooter, CountCell, L
  <2>2. CASE L # 2 * n + 3
    <3>1. SUFFICES ASSUME L >= 3 PROVE cells[L - 1].cell # "VFIM"
      BY <2>2 DEF HasFooter, L
    <3>2. L - 1 \in 1 .. 2 * n + 1 /\ L - 1 \in 1 .. L /\ L - 1 # 1
      BY <1>1, <2>2, <3>1
    <3>3. PICK j \in 1 .. n : L - 1 = 2 * j \/ L - 1 = 2 * j + 1
      BY <1>1, <3>2, Halves
    <3>4. cells[L - 1] = LineCell(recorded, j) \/ cells[L - 1] = HashCell(recorded, j)
      BY <1>1, <1>2, <3>2, <3>3
    <3>5. QED
      BY <3>4 DEF LineCell, HashCell
  <2>3. QED
    BY <2>1, <2>2
<1>4. /\ Frames(cells) \in Nat /\ 2 * Frames(cells) + 1 <= BodyEnd(cells)
      /\ BodyEnd(cells) \in 1 .. L
  BY <1>1, BodyCells DEF L
<1>5. Frames(cells) <= n
  BY <1>1, <1>3, <1>4 DEF BodyEnd, L
<1>6. ASSUME NEW k \in 1 .. Frames(cells)
      PROVE  LineAt(cells, k) = Line(k - 1, recorded[k]) /\ HashAt(cells, k) = First(Lines(recorded), k)
  <2>1. LineAt(cells, k) = cells[2 * k].data /\ HashAt(cells, k) = cells[2 * k + 1].data
    BY <1>1, FrameCells DEF L
  <2>2. k \in 1 .. n /\ 2 * k \in 1 .. L /\ 2 * k + 1 \in 1 .. L
    BY <1>1, <1>4, <1>5
  <2>3. cells[2 * k] = LineCell(recorded, k) /\ cells[2 * k + 1] = HashCell(recorded, k)
    BY <1>1, <1>2, <2>2
  <2>4. QED
    BY <2>1, <2>3 DEF LineCell, HashCell
<1>7. ASSUME NEW k \in 1 .. Frames(cells)
      PROVE  HashAt(cells, k) = ChainTo(cells, k)
  <2> DEFINE a == First(Lines(recorded), k)
             b == [j \in 1 .. k |-> LineAt(cells, j)]
  <2>1. /\ Lines(recorded) \in Seq(Link) /\ Len(Lines(recorded)) = n
        /\ \A j \in 1 .. n : Lines(recorded)[j] = Line(j - 1, recorded[j])
    BY LinesType DEF n
  <2>2. k \in 0 .. n /\ k \in Nat
    BY <1>1, <1>4, <1>5
  <2>3. a \in Seq(Link) /\ Len(a) = k /\ \A j \in 1 .. k : a[j] = Lines(recorded)[j]
    BY <2>1, <2>2, FirstType
  <2>4. \A j \in 1 .. k : j \in 1 .. n /\ j \in 1 .. Frames(cells)
    BY <1>1, <1>4, <1>5
  <2> HIDE DEF a
  <2>5. \A j \in 1 .. k : LineAt(cells, j) = a[j] /\ a[j] \in Link
    BY <1>6, <2>1, <2>3, <2>4
  <2>6. b \in Seq(Link) /\ Len(b) = k /\ \A j \in 1 .. k : b[j] = a[j]
    BY <2>2, <2>5
  <2> HIDE DEF b
  <2>7. a = b
    BY <2>3, <2>6, SeqEqual
  <2>8. QED
    BY <1>6, <2>7 DEF a, b, ChainTo
<1>8. QED
  BY <1>3, <1>5, <1>6, <1>7 DEF n, L

LEMMA FileIsAPrefix ==
    ASSUME IInv, file # <<>>
    PROVE  /\ Prefix(file) /\ recorded \in Seq(Event)
           /\ pc = "open" => Len(file) <= 2 * Len(recorded) + 1
           /\ file = Complete(recorded) <=> Len(file) = 2 * Len(recorded) + 3
<1>1. Types /\ recorded \in Seq(Event) /\ file \in Seq(Cell) /\ Len(recorded) \in Nat
  BY DEF IInv, Types
<1>2. /\ Len(Whole) = Len(file) + Len(buffer) /\ Len(file) \in Nat /\ Len(buffer) \in Nat
      /\ \A k \in 1 .. Len(file) : Whole[k] = file[k]
  BY <1>1, WholeType
<1>3. /\ Len(Whole) <= IF pc = "open" THEN 2 * Len(recorded) + 1 ELSE 2 * Len(recorded) + 3
      /\ \A k \in 1 .. Len(Whole) : Whole[k] = Complete(recorded)[k]
  BY DEF IInv, CellsFollow
<1>4. \A k \in 1 .. Len(file) : file[k] = Complete(recorded)[k]
  BY <1>2, <1>3
<1>5. Len(file) >= 1
  BY <1>1, <1>2, EmptySeq
<1>6. Complete(recorded) \in Seq(Cell) /\ Len(Complete(recorded)) = 2 * Len(recorded) + 3
  BY <1>1, CompleteCells
<1>7. Len(file) = 2 * Len(recorded) + 3 => file = Complete(recorded)
  BY <1>1, <1>4, <1>6, SeqEqual
<1>8. QED
  BY <1>1, <1>2, <1>3, <1>4, <1>5, <1>6, <1>7 DEF Prefix

\* verify_binary and the export, on every file a run can leave.
LEMMA VerdictHolds ==
    ASSUME IInv, file # <<>>
    PROVE  /\ Broken(file) = {} /\ VerifyBinary(file).broken = {}
           /\ VerifyBinary(file).footer_ok <=> file = Complete(recorded) /\ pc # "open"
           /\ VerifyBinary(file).events = Frames(file)
           /\ ~VerifyBinary(file).footer_ok =>
                 /\ Frames(file) = (Len(file) - 1) \div 2
                 /\ VerifyBinary(file).chain_ok <=> Len(file) % 2 = 1
<1> DEFINE n == Len(recorded)
           L == Len(file)
<1>1. /\ Prefix(file) /\ recorded \in Seq(Event) /\ n \in Nat /\ L \in Nat /\ L >= 1
      /\ L <= 2 * n + 3 /\ (pc = "open" => L <= 2 * n + 1)
      /\ file = Complete(recorded) <=> L = 2 * n + 3
  BY FileIsAPrefix DEF Prefix
<1>2. /\ HasFooter(file) <=> L = 2 * n + 3
      /\ Frames(file) <= n
      /\ \A k \in 1 .. Frames(file) : /\ LineAt(file, k) = Line(k - 1, recorded[k])
                                      /\ HashAt(file, k) = ChainTo(file, k)
  BY <1>1, PrefixFrames
<1>3. /\ Len(Body(file)) = BodyEnd(file) - 1 /\ Frames(file) = (BodyEnd(file) - 1) \div 2
      /\ BodyEnd(file) = IF L = 2 * n + 3 THEN L - 2 ELSE L
      /\ Frames(file) \in Nat
  BY <1>1, <1>2, BodyCells DEF Prefix, BodyEnd
<1>4. Broken(file) = {} /\ VerifyBinary(file).broken = {}
  BY <1>2 DEF Broken, VerifyBinary
<1>5. CASE L = 2 * n + 3
  <2>1. Len(Body(file)) = 2 * n /\ Frames(file) = n
    BY <1>1, <1>3, <1>5
  <2>2. ~Torn(file)
    BY <1>1, <2>1 DEF Torn
  <2>3. FooterAgrees(file)
    <3>1. /\ file[2 * n + 2] = CountCell(recorded) /\ file[2 * n + 3] = HeadCell(recorded)
      <4>1. /\ Complete(recorded)[2 * n + 2] = CountCell(recorded)
            /\ Complete(recorded)[2 * n + 3] = HeadCell(recorded)
        BY <1>1, CompleteCells
      <4>2. QED
        BY <1>1, <1>5, <4>1
    <3>2. ChainTo(file, n) = Lines(recorded)
      BY <1>2, <2>1 DEF ChainTo, Lines
    <3>3. L - 1 = 2 * n + 2
      BY <1>1, <1>5
    <3>4. QED
      BY <1>5, <2>1, <3>1, <3>2, <3>3 DEF FooterAgrees, CountCell, HeadCell
  <2>4. VerifyBinary(file).footer_ok /\ VerifyBinary(file).events = Frames(file)
    BY <1>2, <1>4, <1>5, <2>2, <2>3 DEF VerifyBinary
  <2>5. QED
    BY <1>1, <1>4, <1>5, <2>4
<1>6. CASE L # 2 * n + 3
  <2>1. ~HasFooter(file) /\ Len(Body(file)) = L - 1 /\ Frames(file) = (L - 1) \div 2
    <3>1. BodyEnd(file) = L
      BY <1>3, <1>6
    <3>2. ~HasFooter(file)
      BY <1>2, <1>6
    <3>3. QED
      BY <1>3, <3>1, <3>2
  <2>2. Torn(file) <=> L % 2 = 0
    <3>1. (L - 1) % 2 = 1 <=> L % 2 = 0
      BY <1>1
    <3>2. QED
      BY <2>1, <3>1 DEF Torn
  <2>3. L % 2 \in {0, 1}
    BY <1>1
  <2>4. /\ ~VerifyBinary(file).footer_ok /\ VerifyBinary(file).events = Frames(file)
        /\ VerifyBinary(file).chain_ok <=> ~Torn(file)
    BY <1>4, <2>1 DEF VerifyBinary
  <2>5. QED
    BY <1>1, <1>4, <1>6, <2>1, <2>2, <2>3, <2>4
<1>7. QED
  BY <1>5, <1>6

LEMMA ExportHolds ==
    ASSUME IInv, file # <<>>
    PROVE  ExportAgrees
<1>1. Broken(file) = {} /\ VerifyBinary(file).events = Frames(file)
  BY VerdictHolds
<1>2. Frames(file) \in Nat
  BY FileIsAPrefix, BodyCells DEF Prefix
<1>3. /\ DOMAIN Export(file) = 1 .. Frames(file) /\ Len(Export(file)) = Frames(file)
      /\ \A k \in 1 .. Frames(file) : /\ Export(file)[k].line = LineAt(file, k)
                                      /\ Export(file)[k].hash = HashAt(file, k)
  BY <1>2 DEF Export
<1>4. ASSUME NEW k \in 1 .. Frames(file)
      PROVE  [j \in 1 .. k |-> Export(file)[j].line] = ChainTo(file, k)
  BY <1>2, <1>3 DEF ChainTo
<1>5. \A k \in 1 .. Frames(file) : HashAt(file, k) = ChainTo(file, k)
  BY <1>1 DEF Broken
<1>6. \A k \in DOMAIN Export(file) :
         Export(file)[k].hash = [j \in 1 .. k |-> Export(file)[j].line]
  BY <1>3, <1>4, <1>5
<1>7. QED
  BY <1>1, <1>3, <1>6 DEF ExportAgrees, VerifyExport

(***************************************************************************)
(* Damage to a complete file.                                              *)
(***************************************************************************)

\* One frame less contradicts the count in the footer.
LEMMA DropIsSeen ==
    ASSUME Types, NEW k \in 1 .. Len(recorded), file = Complete(recorded)
    PROVE  ~VerifyBinary(DropFrame(file, k)).chain_ok
<1> DEFINE n == Len(recorded)
           a == First(file, 2 * k - 1)
           b == Rest(file, 2 * k + 1)
           d == a \o b
<1>1. /\ recorded \in Seq(Event) /\ n \in Nat /\ file \in Seq(Cell) /\ Len(file) = 2 * n + 3
      /\ file[2 * n + 2] = CountCell(recorded)
  BY CompleteCells DEF Types
<1>2. 2 * k - 1 \in 0 .. Len(file) /\ 2 * k + 1 \in 0 .. Len(file) /\ k \in 1 .. n
  BY <1>1
<1>3. a \in Seq(Cell) /\ Len(a) = 2 * k - 1
  BY <1>1, <1>2, FirstType
<1>4. /\ b \in Seq(Cell) /\ Len(b) = 2 * n + 2 - 2 * k
      /\ \A i \in 1 .. 2 * n + 2 - 2 * k : b[i] = file[(2 * k + 1) + i]
  <2>1. /\ b \in Seq(Cell) /\ Len(b) = Len(file) - (2 * k + 1)
        /\ \A i \in 1 .. Len(file) - (2 * k + 1) : b[i] = file[(2 * k + 1) + i]
    BY <1>1, <1>2, RestType
  <2>2. Len(file) - (2 * k + 1) = 2 * n + 2 - 2 * k
    BY <1>1, <1>2
  <2>3. QED
    BY <2>1, <2>2
<1> HIDE DEF a, b
<1>5. d \in Seq(Cell) /\ Len(d) = 2 * n + 1
  <2>1. a \o b \in Seq(Cell) /\ Len(a \o b) = Len(a) + Len(b)
    BY <1>3, <1>4, Concatenation, Zenon
  <2>2. QED
    BY <1>1, <1>2, <1>3, <1>4, <2>1
<1>6. d[2 * n] = CountCell(recorded)
  <2>1. \A i \in 1 .. Len(b) : (a \o b)[Len(a) + i] = b[i]
    BY <1>3, <1>4, Concatenation, SMT
  <2>2. /\ 2 * n + 1 - 2 * k \in 1 .. Len(b) /\ Len(a) + (2 * n + 1 - 2 * k) = 2 * n
        /\ (2 * k + 1) + (2 * n + 1 - 2 * k) = 2 * n + 2
    BY <1>1, <1>2, <1>3, <1>4
  <2>3. d[2 * n] = b[2 * n + 1 - 2 * k]
    BY <2>1, <2>2
  <2>4. b[2 * n + 1 - 2 * k] = file[2 * n + 2]
    BY <1>4, <2>2
  <2>5. QED
    BY <1>1, <2>3, <2>4
<1> HIDE DEF d
<1>7. Len(d) - 1 = 2 * n /\ Len(d) >= 3
  BY <1>1, <1>2, <1>5
<1>8. HasFooter(d) /\ d[Len(d) - 1].data = n
  BY <1>6, <1>7 DEF HasFooter, CountCell
<1>9. Frames(d) = n - 1
  <2>1. BodyEnd(d) = 2 * n - 1
    BY <1>1, <1>5, <1>8 DEF BodyEnd
  <2>2. Frames(d) = (BodyEnd(d) - 1) \div 2
    BY <1>5, <1>7, BodyCells
  <2>3. QED
    BY <1>1, <2>1, <2>2
<1>10. ~FooterAgrees(d)
  BY <1>1, <1>8, <1>9 DEF FooterAgrees
<1>11. ~VerifyBinary(d).chain_ok
  BY <1>8, <1>10 DEF VerifyBinary
<1>12. QED
  BY <1>11 DEF DropFrame, d, a, b

\* A file with the footer of the complete one, whose hash k is not the link of
\* its lines up to k.
LEMMA BrokenIsSeen ==
    ASSUME NEW S, NEW cells \in Seq(S), NEW n \in Nat, Len(cells) = 2 * n + 3,
           cells[2 * n + 2].cell = "VFIM", NEW k \in 1 .. n,
           cells[2 * k + 1].data # [j \in 1 .. k |-> cells[2 * j].data]
    PROVE  ~VerifyBinary(cells).chain_ok
<1>1. Len(cells) >= 3 /\ Len(cells) - 1 = 2 * n + 2
  OBVIOUS
<1>2. HasFooter(cells) /\ BodyEnd(cells) = 2 * n + 1
  BY <1>1 DEF HasFooter, BodyEnd
<1>3. Frames(cells) = n
  <2>1. Frames(cells) = (BodyEnd(cells) - 1) \div 2
    BY <1>1, BodyCells
  <2>2. QED
    BY <1>2, <2>1
<1>4. \A j \in 1 .. n : LineAt(cells, j) = cells[2 * j].data /\ HashAt(cells, j) = cells[2 * j + 1].data
  <2>1. Len(cells) >= 1
    BY <1>1
  <2>2. QED
    BY <1>3, <2>1, FrameCells
<1>5. ChainTo(cells, k) = [j \in 1 .. k |-> cells[2 * j].data]
  BY <1>4 DEF ChainTo
<1>6. k \in Broken(cells)
  BY <1>3, <1>4, <1>5 DEF Broken
<1>7. QED
  BY <1>6 DEF VerifyBinary

LEMMA CompleteHash ==
    ASSUME Types, NEW k \in 1 .. Len(recorded), file = Complete(recorded)
    PROVE  /\ file \in Seq(Cell) /\ Len(file) = 2 * Len(recorded) + 3
           /\ file[2 * Len(recorded) + 2].cell = "VFIM"
           /\ file[2 * k].cell = "line" /\ file[2 * k].data = Line(k - 1, recorded[k])
           /\ file[2 * k + 1].cell = "hash"
           /\ file[2 * k + 1].data \in Seq(Link) /\ Len(file[2 * k + 1].data) = k
           /\ file[2 * k + 1].data[k] = Line(k - 1, recorded[k])
<1>1. recorded \in Seq(Event) /\ Len(recorded) \in Nat
  BY DEF Types
<1>2. /\ file \in Seq(Cell) /\ Len(file) = 2 * Len(recorded) + 3
      /\ file[2 * Len(recorded) + 2] = CountCell(recorded)
      /\ file[2 * k] = LineCell(recorded, k) /\ file[2 * k + 1] = HashCell(recorded, k)
  BY <1>1, CompleteCells
<1>3. /\ Lines(recorded) \in Seq(Link) /\ Len(Lines(recorded)) = Len(recorded)
      /\ Lines(recorded)[k] = Line(k - 1, recorded[k])
  BY <1>1, LinesType
<1>4. k \in 0 .. Len(Lines(recorded)) /\ k \in 1 .. k
  BY <1>1, <1>3
<1>5. /\ First(Lines(recorded), k) \in Seq(Link) /\ Len(First(Lines(recorded), k)) = k
      /\ First(Lines(recorded), k)[k] = Lines(recorded)[k]
  BY <1>3, <1>4, FirstType
<1>6. QED
  BY <1>2, <1>3, <1>5 DEF CountCell, LineCell, HashCell

LEMMA AlterationIsSeen ==
    ASSUME Types, NEW k \in 1 .. Len(recorded), NEW event \in Event \ {recorded[k]},
           file = Complete(recorded)
    PROVE  ~VerifyBinary(AlterFrame(file, k, event)).chain_ok
<1> DEFINE n == Len(recorded)
           line == Line(k - 1, event)
           d == [file EXCEPT ![2 * k].data = line]
<1>1. /\ recorded \in Seq(Event) /\ n \in Nat /\ k \in 1 .. n
      /\ 2 * k \in 1 .. 2 * n + 3 /\ 2 * k + 1 \in 1 .. 2 * n + 3 /\ 2 * n + 2 \in 1 .. 2 * n + 3
      /\ 2 * k + 1 # 2 * k /\ 2 * n + 2 # 2 * k
  BY DEF Types
<1>2. /\ file \in Seq(Cell) /\ Len(file) = 2 * n + 3 /\ file[2 * n + 2].cell = "VFIM"
      /\ file[2 * k].cell = "line"
      /\ file[2 * k + 1].data \in Seq(Link)
      /\ file[2 * k + 1].data[k] = Line(k - 1, recorded[k])
  BY CompleteHash
<1>3. line \in Link /\ line # Line(k - 1, recorded[k])
  BY <1>1 DEF Line, Link
<1> HIDE DEF line, n
<1>4. file[2 * k] \in [cell : {"line"}, data : Link]
  BY <1>1, <1>2 DEF Cell
<1>5. PICK c : c = [file[2 * k] EXCEPT !.data = line]
  OBVIOUS
<1>6. c \in Cell /\ c.data = line /\ c.cell = "line"
  BY <1>3, <1>4, <1>5 DEF Cell
<1>7. d = [file EXCEPT ![2 * k] = c]
  BY <1>5
<1>8. /\ d \in Seq(Cell) /\ Len(d) = 2 * n + 3 /\ d[2 * k] = c
      /\ d[2 * k + 1] = file[2 * k + 1]
      /\ d[2 * n + 2] = file[2 * n + 2]
  <2>1. \A i \in 1 .. Len(file) : [file EXCEPT ![2 * k] = c][i] = IF i = 2 * k THEN c ELSE file[i]
    BY <1>2
  <2>2. [file EXCEPT ![2 * k] = c] \in Seq(Cell) /\ Len([file EXCEPT ![2 * k] = c]) = Len(file)
    BY <1>1, <1>2, <1>6, ExceptSeq
  <2>3. QED
    BY <1>1, <1>2, <1>7, <2>1, <2>2
<1> HIDE DEF d
<1>9. d[2 * n + 2].cell = "VFIM"
  BY <1>1, <1>2, <1>8
<1>10. d[2 * k + 1].data # [j \in 1 .. k |-> d[2 * j].data]
  <2>1. [j \in 1 .. k |-> d[2 * j].data][k] = line
    BY <1>1, <1>6, <1>8
  <2>2. QED
    BY <1>2, <1>3, <1>8, <2>1
<1>11. ~VerifyBinary(d).chain_ok
  BY <1>1, <1>8, <1>9, <1>10, BrokenIsSeen
<1>12. QED
  BY <1>11 DEF AlterFrame, d, line

LEMMA SwapIsSeen ==
    ASSUME Types, NEW k \in 1 .. Len(recorded), k < Len(recorded), file = Complete(recorded)
    PROVE  ~VerifyBinary(SwapFrames(file, k)).chain_ok
<1> DEFINE n == Len(recorded)
           i1 == 2 * k
           i2 == 2 * k + 1
           i3 == 2 * k + 2
           i4 == 2 * k + 3
           d1 == [file EXCEPT ![i1] = file[i3]]
           d2 == [d1 EXCEPT ![i2] = file[i4]]
           d3 == [d2 EXCEPT ![i3] = file[i1]]
           d4 == [d3 EXCEPT ![i4] = file[i2]]
<1>1. /\ recorded \in Seq(Event) /\ n \in Nat /\ k \in 1 .. n /\ k + 1 \in 1 .. n
  BY DEF Types
<1>2. /\ file \in Seq(Cell) /\ Len(file) = 2 * n + 3 /\ file[2 * n + 2].cell = "VFIM"
  BY CompleteHash
<1>3. /\ file[2 * (k + 1) + 1].data \in Seq(Link) /\ Len(file[2 * (k + 1) + 1].data) = k + 1
  BY <1>1, CompleteHash
<1>4. 2 * (k + 1) + 1 = i4
  BY <1>1
<1>5. /\ i1 \in 1 .. 2 * n + 3 /\ i2 \in 1 .. 2 * n + 3 /\ i3 \in 1 .. 2 * n + 3
      /\ i4 \in 1 .. 2 * n + 3 /\ 2 * n + 2 \in 1 .. 2 * n + 3
      /\ i2 # i1 /\ i2 # i3 /\ i2 # i4 /\ i2 = 2 * k + 1
      /\ 2 * n + 2 # i1 /\ 2 * n + 2 # i2 /\ 2 * n + 2 # i3 /\ 2 * n + 2 # i4
  BY <1>1
<1> HIDE DEF n, i1, i2, i3, i4, d1, d2, d3, d4
<1>6. /\ file[i1] \in Cell /\ file[i2] \in Cell /\ file[i3] \in Cell /\ file[i4] \in Cell
  BY <1>2, <1>5
<1>7. /\ d1 \in Seq(Cell) /\ Len(d1) = 2 * n + 3
      /\ \A j \in 1 .. 2 * n + 3 : j # i1 => d1[j] = file[j]
  BY <1>2, <1>5, <1>6, ExceptSeq DEF d1
<1>8. /\ d2 \in Seq(Cell) /\ Len(d2) = 2 * n + 3 /\ d2[i2] = file[i4]
      /\ \A j \in 1 .. 2 * n + 3 : j # i2 => d2[j] = d1[j]
  BY <1>5, <1>6, <1>7, ExceptSeq DEF d2
<1>9. /\ d3 \in Seq(Cell) /\ Len(d3) = 2 * n + 3
      /\ \A j \in 1 .. 2 * n + 3 : j # i3 => d3[j] = d2[j]
  BY <1>5, <1>6, <1>8, ExceptSeq DEF d3
<1>10. /\ d4 \in Seq(Cell) /\ Len(d4) = 2 * n + 3
       /\ \A j \in 1 .. 2 * n + 3 : j # i4 => d4[j] = d3[j]
  BY <1>5, <1>6, <1>9, ExceptSeq DEF d4
<1>11. d4[i2] = file[i4] /\ d4[2 * n + 2] = file[2 * n + 2]
  BY <1>5, <1>7, <1>8, <1>9, <1>10
<1>12. d4[2 * k + 1].data # [j \in 1 .. k |-> d4[2 * j].data]
  <2>1. Len(d4[2 * k + 1].data) = k + 1 /\ d4[2 * k + 1].data \in Seq(Link)
    BY <1>3, <1>4, <1>5, <1>11
  <2>2. DOMAIN d4[2 * k + 1].data = 1 .. k + 1
    BY <2>1
  <2>3. k + 1 \in 1 .. k + 1 /\ k + 1 \notin 1 .. k
    BY <1>1
  <2>4. DOMAIN [j \in 1 .. k |-> d4[2 * j].data] = 1 .. k
    OBVIOUS
  <2>5. QED
    BY <2>2, <2>3, <2>4
<1>13. ~VerifyBinary(d4).chain_ok
  BY <1>1, <1>2, <1>10, <1>11, <1>12, BrokenIsSeen
<1>14. d4 = SwapFrames(file, k)
  BY DEF SwapFrames, d1, d2, d3, d4, i1, i2, i3, i4
<1>15. QED
  BY <1>13, <1>14

\* NOTEBOOK-FORMAT 2.3 and "adulteracao retroativa quebra a cadeia": the
\* verifier and the export say of every file what happened to it.
THEOREM VerifierHolds == Spec => []VerifierIsExact
<1>1. IInv => VerifierIsExact
  <2>1. SUFFICES ASSUME IInv PROVE VerifierIsExact
    OBVIOUS
  <2>2. VerdictIsExact
    <3>1. SUFFICES ASSUME file # <<>>
                   PROVE  /\ VerifyBinary(file).broken = {}
                          /\ VerifyBinary(file).footer_ok <=> file = Complete(recorded) /\ pc # "open"
                          /\ ~VerifyBinary(file).footer_ok =>
                                /\ VerifyBinary(file).events = (Len(file) - 1) \div 2
                                /\ VerifyBinary(file).chain_ok <=> Len(file) % 2 = 1
      BY DEF VerdictIsExact
    <3>2. QED
      BY <2>1, <3>1, VerdictHolds
  <2>3. ExportAgrees
    <3>1. CASE file # <<>>
      BY <2>1, <3>1, ExportHolds
    <3>2. CASE file = <<>>
      BY <3>2 DEF ExportAgrees
    <3>3. QED
      BY <3>1, <3>2
  <2>4. DamageIsSeen
    <3>1. SUFFICES ASSUME writer = "done", NEW k \in DOMAIN recorded
                   PROVE  /\ ~VerifyBinary(DropFrame(file, k)).chain_ok
                          /\ \A event \in Event \ {recorded[k]} :
                                ~VerifyBinary(AlterFrame(file, k, event)).chain_ok
                          /\ k < Len(recorded) => ~VerifyBinary(SwapFrames(file, k)).chain_ok
      BY DEF DamageIsSeen
    <3>2. Types /\ recorded \in Seq(Event) /\ k \in 1 .. Len(recorded)
      BY <2>1 DEF IInv, Types
    <3>3. Len(file) = 2 * Len(recorded) + 3
      BY <2>1, <3>1 DEF IInv, Position
    <3>4. file # <<>>
      BY <3>2, <3>3
    <3>5. file = Complete(recorded)
      BY <2>1, <3>3, <3>4, FileIsAPrefix
    <3>6. QED
      BY <3>2, <3>5, DropIsSeen, AlterationIsSeen, SwapIsSeen
  <2>5. QED
    BY <2>2, <2>3, <2>4 DEF VerifierIsExact
<1>2. QED
  BY <1>1, InvariantHolds, PTL
=============================================================================
