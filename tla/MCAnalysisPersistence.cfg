SPECIFICATION Spec
CONSTANTS
    writer = writer
    viewer = viewer
    entity = entity
    same = same
    upgraded = upgraded
    clash = clash
    unproved = unproved
    broken = broken
    None = None
    Threads = {t1, t2}
    Users = {writer, viewer}
    Writers = {writer}
    Entities = {entity}
    MayAnalyse <- MCMayAnalyse
    Results = {same, upgraded, clash, unproved, broken}
    Content <- MCContent
    Contents <- MCContents
    Assured <- MCAssured
    BundleIds <- MCBundleIds
    BundleId <- MCBundleId
    MaxRuns = 3
INVARIANT CertificatesAreGrounded
PROPERTIES HistoryIsExact IdentitySettles
CHECK_DEADLOCK FALSE
