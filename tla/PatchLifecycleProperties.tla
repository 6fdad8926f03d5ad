------------------------ MODULE PatchLifecycleProperties ------------------------
(* What patches promise (docs/dreamer-loop-design.md, tests/patches.rs).         *)
EXTENDS PatchLifecycle

PatchIds == {NoPatch} \cup DOMAIN basis

\* The state stays within its types, and a patch owns no row that was in use when it was
\* applied: what a rollback withdraws was not there before.
PatchTypeOK ==
    /\ memory \in [Facts -> [state: {"none", "active", "archived"}, ver: Nat,
                             by: PatchIds, out: PatchIds]]
    /\ \A p \in DOMAIN basis :
          p.since \in BOOLEAN /\ DOMAIN p.rows \subseteq Facts
    /\ \A r \in Reviewers :
          /\ reviewers[r].pc \in {"idle", "read", "adopt", "retire", "withdraw", "restore"}
          /\ reviewers[r].pc \notin {"idle", "read"} => reviewers[r].patch \in PatchIds
          /\ reviewers[r].todo \subseteq DOMAIN Rules
          /\ reviewers[r].created \cup reviewers[r].archived \subseteq Facts
    /\ turns \in 0 .. MaxTurns /\ dreams \in 0 .. MaxDreams
    /\ \A p \in DOMAIN basis \ disturbed : \A f \in basis[p] : memory[f].by # p
    /\ disturbed \subseteq DOMAIN basis

\* A rollback that ends leaves in use exactly what was in use when the patch was applied,
\* though the apply was cut off anywhere or came twice, and rollbacks before it too, as
\* long as nobody else wrote in between.
RollbackUndoesApply ==
    [][\A r \in Reviewers : RestoreArchived(r) /\ Patch(r) \notin disturbed =>
          InUse' = basis[Patch(r)]]_patchVars
=============================================================================
