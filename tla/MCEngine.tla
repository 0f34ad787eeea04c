------------------------------ MODULE MCEngine ------------------------------
(* Programs for Engine: each definition is the value of a constant.         *)
EXTENDS EngineInvariant

Role(f, n, e) == [x \in {"free", "neq", "ev"} |->
                    IF x = "free" THEN f ELSE IF x = "neq" THEN n ELSE e]

MCName == {"free", "neq", "ev"}
MCConj == Role("nonequilibrium", "nonequilibrium", "event")
MCHorizon == Role(7, 5, 4)
MCDeadline == Role(3, 2, 0)

\* "free" has no review and lives off the keeps of main; "neq" cycles through
\* the conjugations; "ev" subverts, with and without an illegal
\* transition after it that is refused and ends the review.
CoreRules == Role(<<>>,
    << <<"reclassify_eq">>, <<"reclassify_neq", "act">>, <<"act", "dissolve">> >>,
    << <<"notify_shutdown">>, <<"subvert", "act">>, <<"subvert", "reclassify_neq">> >>)
CoreBlocks == << [period |-> 4, keeps |-> {"free", "ev"}] >>

\* No reclassification: "free" is kept every tick, "neq" every 3 s on a grid
\* of 2 s ticks, neither has rules; "ev" is subverted or runs out.
KeepRules == Role(<<>>, <<>>, << <<"act">>, <<"subvert", "act">> >>)
KeepBlocks == << [period |-> 2, keeps |-> {"free", "ev"}], [period |-> 3, keeps |-> {"neq"}] >>
KeepHorizon == Role(11, 9, 4)
KeepDeadline == Role(2, 4, 0)
=============================================================================
