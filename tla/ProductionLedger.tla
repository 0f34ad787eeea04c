--------------------------- MODULE ProductionLedger ---------------------------
(***************************************************************************)
(* The production ledger of vbl-runtime (production_ledger.rs): the engine *)
(* thread sends events over an unbounded channel to a writer thread, which *)
(* appends hash-chained frames to a .vcad file through a buffer, flushes   *)
(* it every FlushEvery events and ends the file with a footer.  And the    *)
(* verifier that reads such files back, whole or torn.                     *)
(*                                                                         *)
(* A file is a sequence of cells: the header, two for each frame (length   *)
(* and line; hash) and two for the footer.  A frame without its second     *)
(* cell stands for any incomplete frame.  SHA-256 is ideal: the hash of a  *)
(* chain is the sequence of its lines.                                     *)
(***************************************************************************)
EXTENDS Integers, Sequences

CONSTANTS
    Event,        \* contents of events
    FlushEvery,   \* FLUSH_EVERY
    MaxEvents     \* bound: number of events recorded

ASSUME LedgerAssumption == FlushEvery \in Nat \ {0} /\ MaxEvents \in Nat

VARIABLES
    pc,        \* engine thread: "open", "join", "ended" or "crashed"
    recorded,  \* history: the events recorded (its length is `enqueued`)
    discard,   \* the ledger is ended by Drop, which discards the result
    result,    \* of close: "none", "ok" or "error"
    mail,      \* the channel
    writer,    \* writer thread: "create", "receive", "done" or "failed"
    head,      \* head of the chain after the last frame written
    buffer,    \* cells in the BufWriter
    file,      \* cells in the file
    exists     \* the file was created by this run

engine == <<pc, recorded, discard, result>>
disk == <<buffer, file, exists>>
vars == <<engine, mail, writer, head, disk>>

----------------------------------------------------------------------------
(* The format.                                                             *)

Header == [cell |-> "header", data |-> <<>>]
Line(seq, event) == <<seq, event>>
Frame(line, before) ==
    <<[cell |-> "line", data |-> line],
      [cell |-> "hash", data |-> Append(before, line)]>>
Footer(lines) ==
    <<[cell |-> "VFIM", data |-> Len(lines)], [cell |-> "head", data |-> lines]>>

\* The lines of the events, as record and leak number them.
Lines(events) == [k \in DOMAIN events |-> Line(k - 1, events[k])]
First(s, n) == SubSeq(s, 1, n)
Rest(s, n) == SubSeq(s, n + 1, Len(s))

\* What the file of a ledger with these events is meant to be.
Complete(events) ==
    LET lines == Lines(events)
        frames == [k \in 1 .. 2 * Len(lines) |->
                     Frame(lines[(k + 1) \div 2], First(lines, (k - 1) \div 2))[2 - (k % 2)]]
    IN  <<Header>> \o frames \o Footer(lines)

----------------------------------------------------------------------------
(* The engine thread.                                                      *)

Init ==
    /\ pc = "open" /\ recorded = <<>> /\ discard = FALSE /\ result = "none"
    /\ mail = <<>> /\ writer = "create" /\ head = <<>>
    /\ buffer = <<>> /\ file = <<>> /\ exists = FALSE

Message == [end : BOOLEAN, seq : Nat, event : Event \cup {"none"}]
EndMessage == [end |-> TRUE, seq |-> 0, event |-> "none"]

\* A send to a writer that is gone fails, and the failure is ignored.
Send(message) ==
    mail' = IF writer = "failed" THEN mail ELSE Append(mail, message)

PreviousSeq == Len(recorded) - 1                                         \* mutant
NextSeq == Len(recorded)
\* record and leak
Record(event) ==
    /\ pc = "open" /\ Len(recorded) < MaxEvents
    /\ recorded' = Append(recorded, event)
    /\ Send([end |-> FALSE, seq |-> NextSeq, event |-> event])
    /\ UNCHANGED <<pc, discard, result, writer, head, disk>>

FinishSilently(drops) ==                                                 \* mutant
    /\ pc = "open" /\ pc' = "join" /\ discard' = drops
    /\ UNCHANGED <<recorded, result, mail, writer, head, disk>>
\* close, or the Drop of a ledger that was not closed.
Finish(drops) ==
    /\ pc = "open" /\ pc' = "join" /\ discard' = drops
    /\ Send(EndMessage)
    /\ UNCHANGED <<recorded, result, writer, head, disk>>

JoinBlind ==                                                             \* mutant
    /\ pc = "join" /\ writer \in {"done", "failed"}
    /\ pc' = "ended"
    /\ result' = IF discard THEN "none" ELSE "ok"
    /\ UNCHANGED <<recorded, discard, mail, writer, head, disk>>
Join ==
    /\ pc = "join" /\ writer \in {"done", "failed"}
    /\ pc' = "ended"
    /\ result' = IF discard THEN "none" ELSE IF writer = "done" THEN "ok" ELSE "error"
    /\ UNCHANGED <<recorded, discard, mail, writer, head, disk>>

\* The process is killed: what is in the channel and the buffer is lost.
Crash ==
    /\ pc \in {"open", "join"} /\ pc' = "crashed"
    /\ mail' = <<>> /\ buffer' = <<>>
    /\ UNCHANGED <<recorded, discard, result, writer, head, file, exists>>

----------------------------------------------------------------------------
(* The writer thread.                                                      *)

Alive == pc \in {"open", "join"}

\* The buffer takes `cells` and the first n of all its cells reach the file.
Write(cells, n) ==
    /\ file' = file \o First(buffer \o cells, n)
    /\ buffer' = Rest(buffer \o cells, n)

\* An I/O error ends the thread; the BufWriter, when dropped, tries once more
\* to write what it holds.  Messages not received are lost with the channel.
Fail(cells) ==
    /\ writer' = "failed" /\ mail' = <<>>
    /\ \E n \in 0 .. Len(buffer) + Len(cells) : file' = file \o First(buffer \o cells, n)
    /\ buffer' = <<>>
    /\ UNCHANGED <<engine, head, exists>>

CreateFile ==
    /\ Alive /\ writer = "create"
    /\ \/ /\ writer' = "receive" /\ exists' = TRUE
          /\ Write(<<Header>>, 0)
          /\ UNCHANGED <<engine, mail, head>>
       \/ Fail(<<>>)

\* The buffer is written out before a piece that does not fit (lines have any
\* length); every FlushEvery events it is flushed.
FlushDueLate(events) == events % (FlushEvery + 1) = 0                    \* mutant
FlushDue(events) == events % FlushEvery = 0
HeadKept(line) == head                                                   \* mutant
HeadAfter(line) == Append(head, line)
WriteFrame ==
    /\ Alive /\ writer = "receive" /\ mail # <<>> /\ ~Head(mail).end
    /\ LET line == Line(Head(mail).seq, Head(mail).event)
           frame == Frame(line, head)
       IN  \/ /\ \E n \in IF FlushDue(Len(head) + 1) THEN {Len(buffer) + 2}
                          ELSE {0, Len(buffer), Len(buffer) + 1} : Write(frame, n)
              /\ head' = HeadAfter(line)
              /\ mail' = Tail(mail)
              /\ UNCHANGED <<engine, writer, exists>>
           \/ Fail(frame)

\* End: the footer, and the last flush.
WriteFooter ==
    /\ Alive /\ writer = "receive" /\ mail # <<>> /\ Head(mail).end
    /\ \/ /\ Write(Footer(head), Len(buffer) + 2)
          /\ writer' = "done" /\ mail' = Tail(mail)
          /\ UNCHANGED <<engine, head, exists>>
       \/ Fail(Footer(head))

Writer == CreateFile \/ WriteFrame \/ WriteFooter
Next ==
    \/ \E event \in Event : Record(event)
    \/ \E drops \in BOOLEAN : Finish(drops)
    \/ Join \/ Crash \/ Writer

Spec == Init /\ [][Next]_vars

\* Neither thread is kept from running.
FairSpec == Spec /\ WF_vars(Writer) /\ WF_vars(Join)

----------------------------------------------------------------------------
(* The verifier and the export.                                            *)

\* The fixed footer is looked for at the end of the data.
HasFooter(cells) == Len(cells) >= 3 /\ cells[Len(cells) - 1].cell = "VFIM"

\* Its body, a frame at a time; the pieces of a torn frame are left over.
Body(cells) == SubSeq(cells, 2, IF HasFooter(cells) THEN Len(cells) - 2 ELSE Len(cells))
Frames(cells) == Len(Body(cells)) \div 2
TornTailSkipped(cells) == Len(cells) < 0                                 \* mutant
Torn(cells) == Len(Body(cells)) % 2 = 1
LineAt(cells, k) == Body(cells)[2 * k - 1].data
HashAt(cells, k) == Body(cells)[2 * k].data
ChainTo(cells, k) == [j \in 1 .. k |-> LineAt(cells, j)]

\* Frames whose hash is not the link expected of the lines up to it.
Broken(cells) == {k \in 1 .. Frames(cells) : HashAt(cells, k) # ChainTo(cells, k)}

FooterBelieved(cells) == Len(cells) > 0                                  \* mutant
FooterAgrees(cells) ==
    /\ cells[Len(cells)].data = ChainTo(cells, Frames(cells))
    /\ cells[Len(cells) - 1].data = Frames(cells)

\* verify_binary
VerifyBinary(cells) ==
    LET chain == Broken(cells) = {} /\ ~Torn(cells)
        lies == chain /\ HasFooter(cells) /\ ~FooterAgrees(cells)
    IN  [events |-> Frames(cells), broken |-> Broken(cells),
         chain_ok |-> chain /\ ~lies, footer_ok |-> HasFooter(cells) /\ ~lies]

\* verify goes by the magic number; anything else is read as JSONL, which has
\* no footer to miss and whose chain of no lines is whole.
Verify(cells) ==
    IF cells # <<>> THEN VerifyBinary(cells)
    ELSE [events |-> 0, broken |-> {}, chain_ok |-> TRUE, footer_ok |-> TRUE]

\* jsonl_from_binary: it stops at the footer or at a torn frame.
ExportOffByOne(cells) ==                                                 \* mutant
    [k \in 1 .. Frames(cells) - 1 |-> [line |-> LineAt(cells, k), hash |-> HashAt(cells, k)]]
Export(cells) ==
    [k \in 1 .. Frames(cells) |-> [line |-> LineAt(cells, k), hash |-> HashAt(cells, k)]]
\* verify_jsonl
VerifyExport(rows) ==
    LET chain(k) == [j \in 1 .. k |-> rows[j].line]
    IN  [events |-> Len(rows), chain_ok |-> \A k \in DOMAIN rows : rows[k].hash = chain(k)]

----------------------------------------------------------------------------
IsPrefixOf(s, t) == Len(s) <= Len(t) /\ s = First(t, Len(s))
AreCells(s) ==
    \A k \in DOMAIN s : s[k].cell \in {"header", "line", "hash", "VFIM", "head"}

TypeOK ==
    /\ pc \in {"open", "join", "ended", "crashed"}
    /\ recorded \in Seq(Event) /\ Len(recorded) <= MaxEvents
    /\ discard \in BOOLEAN /\ result \in {"none", "ok", "error"}
    /\ mail \in Seq(Message)
    /\ writer \in {"create", "receive", "done", "failed"}
    /\ head \in Seq(Nat \X Event)
    /\ AreCells(buffer) /\ AreCells(file) /\ exists \in BOOLEAN

\* "a thread de gravacao NUNCA inventa eventos" (production_ledger.rs:10): at
\* any instant, after any error, the file is a prefix of the one that the
\* events recorded so far call for, in their order and correctly chained, and
\* it has no footer before the ledger was ended.
PrefixOfRun ==
    /\ IsPrefixOf(file, Complete(recorded))
    /\ pc = "open" => Len(file) <= 1 + 2 * Len(recorded)

\* Of the frames the writer composed fewer than FlushEvery are missing from the
\* file when the process is killed between two messages.
CrashLosesLittle ==
    writer = "receive" => 2 * (Len(head) - FlushEvery) + 1 < Len(file) \/ Len(head) < FlushEvery

\* The file is never ahead of the run, and behind it by less than a flush.
FileIsPrefix == PrefixOfRun /\ CrashLosesLittle

\* close reports success only of a file that holds every event recorded; the
\* same goes for a Drop without I/O error ("o arquivo fica valido").
ClosedIsComplete ==
    (pc = "ended" /\ (result = "ok" \/ (discard /\ writer = "done")))
        => file = Complete(recorded)

\* NOTEBOOK-FORMAT 2.3: however the run ended, verify_binary counts the
\* complete frames, blames none of them, and finds the chain broken just when
\* the tail is torn; it confirms a footer only of a file that is complete.
VerdictIsExact ==
    file # <<>> =>
        LET report == VerifyBinary(file)
        IN  /\ report.broken = {}
            /\ report.footer_ok <=> file = Complete(recorded) /\ pc # "open"
            /\ ~report.footer_ok =>
                  /\ report.events = (Len(file) - 1) \div 2
                  /\ report.chain_ok <=> Len(file) % 2 = 1

\* "adulteracao retroativa quebra a cadeia": a complete file from which one
\* frame is removed, in which one is altered or two are exchanged, does not
\* pass the verifier.  The last frame is protected by the footer alone.
DropFrame(cells, k) == First(cells, 2 * k - 1) \o Rest(cells, 2 * k + 1)
AlterFrame(cells, k, event) == [cells EXCEPT ![2 * k].data = Line(k - 1, event)]
SwapFrames(cells, k) ==
    [cells EXCEPT ![2 * k] = cells[2 * k + 2], ![2 * k + 1] = cells[2 * k + 3],
                  ![2 * k + 2] = cells[2 * k], ![2 * k + 3] = cells[2 * k + 1]]
DamageIsSeen ==
    writer = "done" =>
        \A k \in DOMAIN recorded :
            /\ ~VerifyBinary(DropFrame(file, k)).chain_ok
            /\ \A event \in Event \ {recorded[k]} : ~VerifyBinary(AlterFrame(file, k, event)).chain_ok
            /\ k < Len(recorded) => ~VerifyBinary(SwapFrames(file, k)).chain_ok

\* NOTEBOOK-FORMAT 3: the JSONL exported from a file, torn or not, carries the
\* same events as the file and an unbroken chain.
ExportAgrees ==
    file # <<>> => /\ VerifyExport(Export(file)).events = VerifyBinary(file).events
                   /\ VerifyExport(Export(file)).chain_ok

\* What the verifier says of a file, of what is exported from it and of what
\* became of it by tampering is what happened.
VerifierIsExact == VerdictIsExact /\ ExportAgrees /\ DamageIsSeen

\* close and Drop return: neither thread waits for the other for ever.
CloseReturns == pc = "join" ~> pc \in {"ended", "crashed"}
=============================================================================
