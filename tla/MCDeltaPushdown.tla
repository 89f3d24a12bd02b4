-------------------------- MODULE MCDeltaPushdown --------------------------
(* DeltaPushdown over three files and three commits.  Version 1 appends    *)
(* f3, version 2 removes f1: a fork that reopened the latest version would *)
(* count more or fewer files than its parent.  Filter pa prunes f1, pb     *)
(* prunes f2; pc would prune f3 but GenerateTableScanFilters cannot turn   *)
(* it into a table filter, so pushing it prunes nothing.                   *)
EXTENDS DeltaPushdown

CONSTANTS f1, f2, f3, pa, pb, pc

MCFiles == {f1, f2, f3}
MCSnap == [v \in 0..2 |-> CASE v = 0 -> <<f1, f2>>
                            [] v = 1 -> <<f1, f2, f3>>
                            [] v = 2 -> <<f2, f3>>]
MCPreds == {pa, pb, pc}
MCConvertible == {pa, pb}
MCSkipBy == (f1 :> {pa}) @@ (f2 :> {pb}) @@ (f3 :> {pc})
=============================================================================
