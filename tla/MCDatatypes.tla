---------------------------- MODULE MCDatatypes ----------------------------
(* Datatypes on an instance small enough for TLC.                          *)
EXTENDS Datatypes, TLC

\* Tree and Forest refer to each other; a Box holds a Tree.
MCSpecs ==
    "Tree" :> << [cross |-> {}, uses |-> {}], [cross |-> {"Forest"}, uses |-> {}] >>
    @@ "Forest" :> << [cross |-> {"Tree"}, uses |-> {}] >>
    @@ "Box" :> << [cross |-> {}, uses |-> {"Tree"}] >>
=============================================================================
