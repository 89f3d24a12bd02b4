-------------------------- MODULE MCDeltaSnapshot --------------------------
(***************************************************************************)
(* Instantiates DeltaSnapshot for TLC.  Three files in three batches: the  *)
(* first batch holds two files (so one pull materializes more than one     *)
(* ordinal, and a failure can hit the middle of a batch), the second is    *)
(* empty (the kernel may yield batches without files), the third holds     *)
(* the last file.  f1, the first file of the two-file batch, carries the   *)
(* deletion vector; f2 has no statistics.                                  *)
(***************************************************************************)
EXTENDS DeltaSnapshot, TLC

CONSTANTS f1, f2, f3, p1, p2

MCFiles == {f1, f2, f3}
MCLog == << <<f1, f2>>, <<>>, <<f3>> >>
MCHasDV == {f1}
MCStats == (f1 :> 2) @@ (f2 :> NoStats) @@ (f3 :> 1)
MCParts == (f1 :> p1) @@ (f2 :> p2) @@ (f3 :> p1)

\* Threads are interchangeable.
ThreadSymmetry == Permutations(Threads)
=============================================================================
