SPECIFICATION FairSpec
CONSTANTS
    ana = ana
    max = max
    eve = eve
    home = home
    away = away
    d1 = d1
    d2 = d2
    d3 = d3
    e1 = e1
    None = None
    Orgs = {home, away}
    OrgOf <- MCOrgOf
    RoleOf <- MCRoleOf
    DossierOrg <- MCDossierOrg
    VerifiedIds <- MCVerifiedIds
    RecordedDecision <- MCRecordedDecision
    Evidence = {e1}
    Users = {ana, max, eve}
    Dossiers = {d1, d2, d3}
    Cases = {c1}
    Threads = {t1, t2}
    MaxCalls = 5
    MaxRestarts = 1
INVARIANTS ProofGate AuditExplainsRow
PROPERTIES NothingIsLost ImplementsLedger SomeCallCommits
CHECK_DEADLOCK FALSE
