---------------------------- MODULE MCDeltaScan ----------------------------
(***************************************************************************)
(* DeltaScan for TLC: the three files of MCDeltaSnapshot in three batches  *)
(* (two, none, one), two scan threads and three queries.  f1 has a        *)
(* deletion vector that deletes row 1 and ends before row 2.               *)
(***************************************************************************)
EXTENDS DeltaScan, TLC

CONSTANTS f1, f2, f3, p1, p2

MCFiles == {f1, f2, f3}
MCLog == << <<f1, f2>>, <<>>, <<f3>> >>
MCHasDV == {f1}
MCStats == (f1 :> 2) @@ (f2 :> NoStats) @@ (f3 :> 1)
MCParts == (f1 :> p1) @@ (f2 :> p2) @@ (f3 :> p1)
MCDV == f1 :> <<TRUE, FALSE>>

\* Every thread asks for one index past the end of the list.
MCMaxIndex == 3 + Cardinality(Threads) - 1
=============================================================================
