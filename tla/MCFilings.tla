------------------------------ MODULE MCFilings ------------------------------
(* From a filing to its assessment, on small filings.  A behaviour runs one  *)
(* of the parts: the reading of tables, the selection of companyfacts, or    *)
(* the calculation.  For the calculation each filing reports the line items  *)
(* of one theme, so that every metric has a filing that exercises it.        *)
EXTENDS TableExtraction, CompanyFacts, Assessment, TLC

Rule(id, category, family, delta, conditions) ==
    [id |-> id, category |-> category, family |-> family, delta |-> delta,
     conditions |-> conditions]

\* Of rules/rules.json: every family, and every shape of condition.
SomeRules == <<
    Rule("LIQ_001", "liquidity", "liquidity_coverage", 18, {Below("current_ratio", 1, 1)}),
    Rule("LIQ_005", "liquidity", "liquidity_coverage", 16, {Below("working_capital", 0, 1)}),
    Rule("LIQ_006", "liquidity", "", 10, {Below("cash_growth", -2, 10)}),
    Rule("LIQ_007", "liquidity", "liquidity_coverage", 18,
         {Below("current_ratio", 1, 1), Above("short_term_debt_growth", 2, 10),
          Below("cash_growth", 0, 1)}),
    Rule("SOL_002", "solvency_leverage", "", 10, {Above("debt_to_assets", 5, 10)}),
    Rule("SOL_004", "solvency_leverage", "interest_coverage", 18,
         {Below("interest_coverage", 15, 10)}),
    Rule("SOL_005", "solvency_leverage", "interest_coverage", 9,
         {Below("interest_coverage", 3, 1)}),
    Rule("SOL_006", "solvency_leverage", "", 18, {Above("debt_to_ebitda", 5, 1)}),
    Rule("SOL_007", "solvency_leverage", "", 10, {Above("total_debt_growth", 25, 100)}),
    Rule("SOL_009", "solvency_leverage", "", 18, {Equal("negative_ebitda_leverage")}),
    Rule("PRO_001", "profitability", "loss_state", 15, {Below("net_margin", 0, 1)}),
    Rule("PRO_004", "profitability", "", 14, {Below("operating_margin_change", -5, 100)}),
    Rule("PRO_006", "profitability", "", 14, {Below("net_income_growth", -3, 10)}),
    Rule("PRO_007", "profitability", "loss_state", 9, {Below("roa", 0, 1)}),
    Rule("CFL_002", "cash_flow", "cash_deficit", 14, {Below("free_cash_flow", 0, 1)}),
    Rule("CFL_003", "cash_flow", "cash_deficit", 11, {Below("fcf_margin", -5, 100)}),
    Rule("CFL_005", "cash_flow", "cash_deficit", 15,
         {Above("net_income", 0, 1), Below("free_cash_flow", 0, 1)}),
    Rule("CFL_007", "cash_flow", "", 10, {Below("cfo_to_net_income", 8, 10)}),
    Rule("EQ_002", "earnings_quality", "", 16,
         {Above("accounts_receivable_growth", 25, 100), Below("revenue_growth", 1, 10)}),
    Rule("EQ_005", "earnings_quality", "", 11, {Above("receivable_days_change", 15, 1)}),
    Rule("BUS_001", "business_going_concern", "", 30, {Equal("going_concern_doubt")}) >>

Moves == {Whole(4), Whole(8)}
Signs == {Whole(-2), Whole(1), Whole(4)}
OtherAmounts == {Whole(-3), Whole(0), Whole(1), Whole(20)}

\* What the line items of a theme may be in one year, and those that do not
\* vary; nothing else is reported.
Themes == {"liquidity", "leverage", "profit", "flows", "receivables"}
Varied(theme) ==
    CASE theme = "liquidity" ->
            [cash |-> Moves, current_liabilities |-> Moves, short_term_debt |-> Moves]
      [] theme = "leverage" ->
            [total_debt |-> {Missing, Whole(8)}, short_term_debt |-> {Whole(2), Whole(8)},
             ebitda |-> {Whole(-1), Whole(1)}, ebit |-> {Missing, Whole(4)}]
      [] theme = "profit" ->
            [revenue |-> Moves, operating_income |-> {Whole(1), Whole(4)}, net_income |-> Signs]
      [] theme = "flows" ->
            [operating_cash_flow |-> Signs, capital_expenditure |-> {Whole(-2), Whole(2)}]
      [] theme = "receivables" ->
            [accounts_receivable |-> Moves \cup {Missing}, revenue |-> Moves]
Fixed(theme) ==
    CASE theme = "liquidity" -> [current_assets |-> Whole(5)]
      [] theme = "leverage" ->
            [long_term_debt |-> Whole(4), total_assets |-> Whole(9),
             operating_income |-> Whole(3), interest_expense |-> Whole(2)]
      [] theme = "profit" -> [total_assets |-> Whole(8)]
      [] theme = "flows" -> [net_income |-> Whole(4), revenue |-> Whole(8)]
      [] theme = "receivables" -> [x \in {} |-> Missing]

OneYear(theme) ==
    LET varied == Varied(theme) IN
    {y @@ Fixed(theme) @@ [item \in LineItems |-> Missing] :
        y \in {g \in [DOMAIN varied -> UNION Range(varied)] :
                  \A item \in DOMAIN varied : g[item] \in varied[item]}}

\* All references verified, or one of them only located.
StatusesOf(now, before) ==
    LET reported == {r \in LineItems \X Years :
            IF r[2] = "now" THEN now[r[1]] # Missing
            ELSE before # << >> /\ before[r[1]] # Missing}
        all == [r \in reported |-> "verified"] @@ [r \in LineItems \X Years |-> "none"]
    IN {all} \cup {(r :> "located") @@ all : r \in reported}

FilingsOf(theme) ==
    UNION {{[theme |-> theme, now |-> now, before |-> before, status |-> s] :
                s \in StatusesOf(now, before)} :
           now \in OneYear(theme), before \in OneYear(theme)}
    \cup UNION {{[theme |-> theme, now |-> now, before |-> << >>, status |-> s] :
                    s \in StatusesOf(now, << >>)} : now \in OneYear(theme)}

AssessedFilings == UNION {FilingsOf(theme) : theme \in Themes}

Claim(category, polarity) ==
    [category |-> category, polarity |-> polarity, direction |-> polarity,
     quoted |-> TRUE, grounded |-> TRUE, needs |-> {}]

ThemeClaims ==
    [theme \in Themes |->
        LET category == CASE theme = "liquidity" -> "liquidity"
                          [] theme = "leverage" -> "solvency_leverage"
                          [] theme = "profit" -> "profitability"
                          [] theme = "flows" -> "cash_flow"
                          [] theme = "receivables" -> "earnings_quality"
        IN {Claim(category, "positive"), Claim(category, "negative"),
            [Claim(category, "positive") EXCEPT !.grounded = FALSE],
            Claim("business_going_concern", "negative")}]

\* Rows of one line item: with a note or without, with a dash in either of two
\* columns, with a number that cannot be parsed.
SomeRows ==
    [item : {"ppe"}, note : {-1, 9}, restated : BOOLEAN, known : BOOLEAN, traced : BOOLEAN,
     cells : {<< << 1, 5 >> >>, << << 2, 6 >> >>} \cup
             {<< << 1, n >>, << 2, 6 >> >> : n \in {5, 7, Garbled}}]
SomeHeaders == {<< 3, 2 >>, << 3, 1 >>, << >>}

\* Entries of companyfacts for year 1, whose days are 10 to 19.
SomeTags ==
    [cash |-> << "Cash", "CashRestricted" >>, short_term_debt |-> << "ShortTermBorrowings" >>,
     long_term_debt |-> << "LongTermDebtNoncurrent" >>, total_debt |-> << "LongTermDebt" >>]
SomeUnits == << "EUR", "USD" >>
Entry(tag, val) ==
    [tag |-> tag, unit |-> "USD", fy |-> 1, end |-> 12, annual |-> TRUE, val |-> val]
CashEntries ==
    {<< [Entry(tag, val) EXCEPT !.unit = unit] >> :
        tag \in {"Cash", "CashRestricted"}, val \in {5, -1}, unit \in {"EUR", "USD"}}
    \cup {<< Entry("Cash", 5), [Entry("Cash", 6) EXCEPT !.end = 13] >>,
          << [Entry("Cash", 7) EXCEPT !.end = 9], Entry("Cash", 6) >>,
          << [Entry("Cash", 7) EXCEPT !.annual = FALSE] >>}
DebtEntries ==
    {<< Entry("ShortTermBorrowings", 1), Entry("LongTermDebtNoncurrent", 2) >>,
     << Entry("LongTermDebtNoncurrent", 3) >>,
     << Entry("ShortTermBorrowings", 1), [Entry("LongTermDebtNoncurrent", 2) EXCEPT !.end = 13] >>,
     << Entry("ShortTermBorrowings", 2), Entry("LongTermDebt", 9) >>}
FactFilings ==
    [accn : 1 .. 2, filed : 1 .. 2, entries : CashEntries \cup DebtEntries]
    \cup [accn : {3}, filed : {2}, entries : {<< Entry("Cash", 6) >>, << Entry("ShortTermBorrowings", 3) >>}]

\* The values of the constants; the sets themselves are computed only once.
MCRules == SomeRules
MCFilingSet == AssessedFilings
MCClaims == ThemeClaims
MCReports == FactFilings

VARIABLE part

filingsVars == << part, tableVars, payload, assessmentVars >>

\* The state of a part that is not run.
NoTable == header = << >> /\ document = << >> /\ extracted = << >> /\ ingested = << >>
NoCalculation == filing = << >> /\ risky = FALSE /\ returned = << >> /\ published = << >>

FilingsInit ==
    /\ FactsInit
    /\ \/ part = "table" /\ TableInit /\ NoCalculation
       \/ part = "facts" /\ NoTable /\ NoCalculation
       \/ part = "calculation" /\ NoTable /\ AssessmentInit

InTable ==
    /\ part = "table" /\ TableNext
    /\ UNCHANGED << part, payload, assessmentVars >>
InFacts ==
    /\ part = "facts" /\ FactsNext
    /\ UNCHANGED << part, tableVars, assessmentVars >>
InCalculation ==
    /\ part = "calculation" /\ AssessmentNext
    /\ UNCHANGED << part, tableVars, payload >>

FilingsNext == InTable \/ InFacts \/ InCalculation
FilingsSpec == FilingsInit /\ [][FilingsNext]_filingsVars
=============================================================================
