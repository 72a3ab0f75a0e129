SPECIFICATION AnalysisSpec
CONSTANTS
    None = None
    NoPolicy = NoPolicy
    MaxEvidence = 3
    DecisionPolicy <- MCDecisionPolicy
    Policies <- MCPolicies
    Assessments <- MCAssessments
    Rows <- SomeRows
    Headers <- SomeHeaders
    Year = 3
    MaxRows = 2
    Tags <- SomeTags
    Units <- SomeUnits
    USD = "USD"
    Reports <- MCReports
    Filings <- MCFilingSet
    Claims <- MCClaims
    MaxClaims = 1
    Rules <- MCRules
    Amounts <- OtherAmounts
INVARIANT ColumnsKeepTheirYear
CHECK_DEADLOCK FALSE
