----------------------------- MODULE MCRiskCases -----------------------------
(***************************************************************************)
(* The checked instance of RiskCases: an analyst and a manager of one      *)
(* tenant, a manager of another, one dossier with verified evidence, one   *)
(* without any, and one that belongs to the other tenant.                  *)
(***************************************************************************)
EXTENDS RiskCases

CONSTANTS ana, max, eve, home, away, d1, d2, d3, e1

MCOrgOf == [u \in Users |-> IF u = eve THEN away ELSE home]
MCRoleOf == [u \in Users |-> IF u = ana THEN "analyst" ELSE "risk_manager"]
MCDossierOrg == [d \in Dossiers |-> IF d = d3 THEN away ELSE home]
MCVerifiedIds == [d \in Dossiers |-> IF d = d2 THEN {} ELSE {e1}]
MCRecordedDecision == [d \in Dossiers |-> IF d = d2 THEN None ELSE "FLAG"]
=============================================================================
