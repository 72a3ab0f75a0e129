------------------------ MODULE MCAnalysisPersistence ------------------------
(***************************************************************************)
(* Two results of one content (an engine upgrade between the runs), one of *)
(* another content whose bundle identifier collides with the first, one    *)
(* whose assurance does not verify and one that cannot be built; a writer  *)
(* and a viewer of one tenant.                                             *)
(***************************************************************************)
EXTENDS AnalysisPersistence

CONSTANTS writer, viewer, entity, same, upgraded, clash, unproved, broken

MCMayAnalyse == [u \in Users |-> Entities]
MCContents == {"filing", "amended"}
MCContent == [r \in Results |-> IF r = clash THEN "amended" ELSE "filing"]
MCAssured == [r \in Results |-> CASE r = unproved -> "unverifiable"
                                  [] r = broken -> "unbuildable"
                                  [] OTHER -> "valid"]
MCBundleIds == {"b1", "b2", "b3", "b4"}
MCBundleId ==
    [e \in Entities |->
        [r \in Results |-> CASE r \in {same, clash} -> "b1"
                             [] r = upgraded -> "b2"
                             [] r = unproved -> "b3"
                             [] OTHER -> "b4"]]
=============================================================================
