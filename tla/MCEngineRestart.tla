-------------------------- MODULE MCEngineRestart ---------------------------
(* A program whose forms reach the disk: "note" is reclassified back and    *)
(* forth, "memo" once, and both may be declared again after a reload.       *)
EXTENDS EngineRestart

RestartName == {"note", "memo"}
RestartConj == [f \in RestartName |-> IF f = "note" THEN "nonequilibrium" ELSE "event"]
RestartHorizon == [f \in RestartName |-> IF f = "note" THEN 5 ELSE 3]
RestartDeadline == [f \in RestartName |-> 2]
RestartRules == [f \in RestartName |-> IF f = "note"
                    THEN << <<"reclassify_eq">>, <<"reclassify_neq">> >>
                    ELSE << <<"reclassify_eq">> >>]
RestartBlocks == << [period |-> 2, keeps |-> {"note"}] >>
=============================================================================
