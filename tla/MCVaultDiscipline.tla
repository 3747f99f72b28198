-------------------------- MODULE MCVaultDiscipline --------------------------
(***************************************************************************)
(* The instances of MCVaultApply that the theorems of VaultApplyProofs are *)
(* about: TLC evaluates the hypotheses of those theorems before it runs.   *)
(***************************************************************************)
EXTENDS MCVaultApply

ASSUME Discipline == DisjointScopes /\ OneRunPerManifest /\ RefsAreKeys /\ TitlesKeepTheirRefs
=============================================================================
