------------------------------ MODULE Assessment ------------------------------
(***************************************************************************)
(* The calculation layer: FinRiskPipeline.assess, from the line items of   *)
(* two years and the claims of the narrative provider to signals,          *)
(* contradictions, tensions and the coverage of the proof gate.            *)
(*                                                                         *)
(* What a fact is computed from (metrics.py, facts.py) and which line      *)
(* items are asked for as its proof (metric_requirements and               *)
(* fact_requirements in pipeline.py) are written separately in the code    *)
(* and here.  Numbers are fractions.  The metrics are those of the rules   *)
(* of the instance, one at least of each shape the code has; the four      *)
(* scoring models are left out.                                            *)
(***************************************************************************)
EXTENDS Ratios, Sequences, FiniteSets, SequencesExt

CONSTANTS
    Filings,    \* [now, before, status]: line items, and what their references are worth
    Claims,     \* Claims[f]: claims the provider may return about filing f
    MaxClaims,  \* bound
    Rules,      \* rules/rules.json: [id, category, family, delta, conditions]
    Amounts     \* fractions an unverified line item might turn out to be

\* The line items that the metrics below are computed from.
LineItems ==
    {"cash", "current_assets", "current_liabilities", "total_debt", "short_term_debt",
     "long_term_debt", "total_assets", "total_liabilities", "ebit", "ebitda",
     "operating_income", "interest_expense", "revenue", "net_income",
     "operating_cash_flow", "capital_expenditure", "accounts_receivable"}
Years == {"now", "before"}
Statuses == {"none", "located", "verified"}   \* of the reference to a line item

ASSUME FilingAssumption ==
    \A f \in Filings :
        /\ {"now", "before", "status"} \subseteq DOMAIN f
        /\ f.now \in [LineItems -> Fractions]
        /\ f.before \in [LineItems -> Fractions] \cup {<< >>}
        /\ f.status \in [LineItems \X Years -> Statuses]

\* Rules are on metrics and facts; none is on the sum of debts by itself.
ASSUME RuleAssumption ==
    \A i \in DOMAIN Rules : \A c \in Rules[i].conditions : c.metric # "total_debt"

VARIABLES
    filing,
    risky,      \* the pages have language that is scored as risk
    returned,   \* claims the provider returned, verified or not
    published   \* the Assessment; << >> before

assessmentVars == << filing, risky, returned, published >>

-----------------------------------------------------------------------------
(* metrics.py and facts.py: what each fact is computed from.                *)

ResolveTotalDebt(v) ==
    IF v.total_debt # Missing THEN v.total_debt
    ELSE Plus(v.short_term_debt, v.long_term_debt)

FreeCashFlow(v) ==
    Plus(v.operating_cash_flow,
         IF v.capital_expenditure[1] > 0 THEN Neg(v.capital_expenditure)
         ELSE v.capital_expenditure)

Ebit(v) == IF v.ebit # Missing THEN v.ebit ELSE v.operating_income

AverageBalance(current, prior) ==
    IF Known({current, prior}) THEN Div(Plus(current, prior), Whole(2)) ELSE current

\* The levels of one year; p is the year before, or << >> if none is given.
Levels(v, p) ==
    LET average(key) == IF p = << >> THEN v[key] ELSE AverageBalance(v[key], p[key]) IN
    [current_ratio |-> Div(v.current_assets, v.current_liabilities),
     working_capital |-> Plus(v.current_assets, Neg(v.current_liabilities)),
     debt_to_assets |-> Div(ResolveTotalDebt(v), v.total_assets),
     interest_coverage |-> Div(Ebit(v), v.interest_expense),
     debt_to_ebitda |->
        IF v.ebitda[1] > 0 THEN Div(ResolveTotalDebt(v), v.ebitda) ELSE Missing,
     operating_margin |-> Div(v.operating_income, v.revenue),
     net_margin |-> Div(v.net_income, v.revenue),
     roa |-> Div(v.net_income, average("total_assets")),
     cfo_to_net_income |->
        IF v.net_income[1] > 0 THEN Div(v.operating_cash_flow, v.net_income) ELSE Missing,
     free_cash_flow |-> FreeCashFlow(v),
     fcf_margin |-> Div(FreeCashFlow(v), v.revenue),
     liabilities_to_assets |-> Div(v.total_liabilities, v.total_assets),
     receivable_days |-> Times(Div(average("accounts_receivable"), v.revenue), 365)]

\* Growths of calculate_metrics, and that of short-term debt of build_facts.
Growths(v, p) ==
    [revenue_growth |-> GrowthRatio(v.revenue, p.revenue),
     net_income_growth |-> GrowthRatio(v.net_income, p.net_income),
     operating_cash_flow_growth |-> GrowthRatio(v.operating_cash_flow, p.operating_cash_flow),
     free_cash_flow_growth |-> GrowthRatio(FreeCashFlow(v), FreeCashFlow(p)),
     total_debt_growth |-> GrowthRatio(ResolveTotalDebt(v), ResolveTotalDebt(p)),
     cash_growth |-> GrowthRatio(v.cash, p.cash),
     accounts_receivable_growth |-> GrowthRatio(v.accounts_receivable, p.accounts_receivable),
     short_term_debt_growth |-> GrowthRatio(v.short_term_debt, p.short_term_debt)]

\* A mutant: the change of a level that is itself an average.
ChangeBase_Average(v, p) == Levels(v, p)

\* *_change compares ending balances with ending balances.
ChangeBase(v, p) == Levels(v, << >>)

Trends(v, p) ==
    LET change(key) == Plus(ChangeBase(v, p)[key], Neg(Levels(p, << >>)[key]))
        growth == Growths(v, p) IN
    [operating_margin_change |-> change("operating_margin"),
     receivable_days_change |-> change("receivable_days"),
     accounts_receivable_growth_gap |->
        Plus(growth.accounts_receivable_growth, Neg(growth.revenue_growth))]

Truth(b) == Whole(IF b THEN 1 ELSE 0)

\* going_concern_doubt: an admitted claim says so.
BuildFacts(f, accepted) ==
    LET v == f.now  p == f.before
        raw == [v EXCEPT !.total_debt = ResolveTotalDebt(v)]
        levels == Levels(v, p)
        flags ==
            [negative_ebitda_leverage |->
                Truth(/\ Known({v.ebitda, ResolveTotalDebt(v)})
                      /\ v.ebitda[1] <= 0 /\ ResolveTotalDebt(v)[1] > 0),
             going_concern_doubt |->
                Truth(\E c \in ToSet(accepted) :
                        c.category = "business_going_concern" /\ c.polarity = "negative")]
        growths == IF p = << >> THEN << >> ELSE Growths(v, p)
        trends == IF p = << >> THEN << >> ELSE Trends(v, p)
    IN [name \in LineItems \cup DOMAIN levels \cup DOMAIN flags
                           \cup DOMAIN growths \cup DOMAIN trends |->
            CASE name \in LineItems -> raw[name]
              [] name \in DOMAIN levels -> levels[name]
              [] name \in DOMAIN flags -> flags[name]
              [] name \in DOMAIN growths -> growths[name]
              [] name \in DOMAIN trends -> trends[name]]

Fact(facts, name) == IF name \in DOMAIN facts THEN facts[name] ELSE Missing

-----------------------------------------------------------------------------
(* pipeline.py: the line items, each of a year, that prove a fact.          *)

Now(keys) == keys \X {"now"}
Both(keys) == keys \X Years

DebtRequirements(v, year) ==
    (IF v.total_debt # Missing THEN {"total_debt"} ELSE {"short_term_debt", "long_term_debt"})
        \X {year}

\* metric.inputs, under the names of the line items.
Inputs(v) ==
    [current_ratio |-> {"current_assets", "current_liabilities"},
     working_capital |-> {"current_assets", "current_liabilities"},
     liabilities_to_assets |-> {"total_liabilities", "total_assets"},
     debt_to_assets |-> {"total_assets"},
     interest_coverage |->
        {IF v.ebit # Missing THEN "ebit" ELSE "operating_income", "interest_expense"},
     debt_to_ebitda |-> {"ebitda"},
     operating_margin |-> {"operating_income", "revenue"},
     net_margin |-> {"net_income", "revenue"},
     roa |-> {"net_income", "total_assets"},
     cfo_to_net_income |-> {"operating_cash_flow", "net_income"},
     free_cash_flow |-> {"operating_cash_flow", "capital_expenditure"},
     fcf_margin |-> {"operating_cash_flow", "capital_expenditure", "revenue"},
     receivable_days |-> {"accounts_receivable", "revenue"}]

\* Bases that are averaged over the two years, by the formula of the metric.
Averaged(name) ==
    CASE name = "roa" -> {"total_assets"}
      [] name = "receivable_days" -> {"accounts_receivable"}
      [] OTHER -> {}

Grown ==
    [revenue_growth |-> {"revenue"}, net_income_growth |-> {"net_income"},
     operating_cash_flow_growth |-> {"operating_cash_flow"},
     free_cash_flow_growth |-> {"operating_cash_flow", "capital_expenditure"},
     cash_growth |-> {"cash"}, accounts_receivable_growth |-> {"accounts_receivable"},
     short_term_debt_growth |-> {"short_term_debt"}]

MetricRequirements(f, name) ==
    IF name = "total_debt_growth"
    THEN DebtRequirements(f.now, "now") \cup DebtRequirements(f.before, "before")
    ELSE IF name \in DOMAIN Grown THEN Both(Grown[name])
    ELSE Now(Inputs(f.now)[name])
         \cup (IF name \in {"debt_to_assets", "debt_to_ebitda"}
               THEN DebtRequirements(f.now, "now") ELSE {})
         \cup (IF f.before = << >> THEN {} ELSE Averaged(name) \X {"before"})

\* A mutant: a change is proved by this year's line items alone.
ChangeRequirements_Now(base) == base

ChangeRequirements(base) == base \cup {<< r[1], "before" >> : r \in {b \in base : b[2] = "now"}}

FactRequirements(f, name) ==
    CASE name \in DOMAIN Inputs(f.now) \cup DOMAIN Grown \cup {"total_debt_growth"} ->
            MetricRequirements(f, name)
      [] name = "fcf_growth" -> MetricRequirements(f, "free_cash_flow_growth")
      [] name = "accounts_receivable_growth_gap" ->
            MetricRequirements(f, "accounts_receivable_growth")
            \cup MetricRequirements(f, "revenue_growth")
      [] name = "operating_margin_change" ->
            ChangeRequirements(MetricRequirements(f, "operating_margin"))
      [] name = "receivable_days_change" ->
            ChangeRequirements(MetricRequirements(f, "receivable_days"))
      [] OTHER -> {<< name, "now" >>}

\* References to a derived fact are those of the claims it was derived from.
StatusOf(f, accepted, requirement) ==
    IF requirement \in DOMAIN f.status THEN f.status[requirement]
    ELSE IF requirement[1] = "going_concern_doubt" /\ accepted # << >> THEN "verified"
    ELSE "none"

\* complete_refs and the proof gate: every line item has references, and all of
\* them are verified.
Covered(f, accepted, name) ==
    \A r \in FactRequirements(f, name) : StatusOf(f, accepted, r) = "verified"

-----------------------------------------------------------------------------
(* rules.py and scoring.py *)

Holds(facts, condition) ==
    LET actual == Fact(facts, condition.metric) IN
    /\ actual # Missing
    /\ CASE condition.operator = "<" -> Less(actual, condition.value)
         [] condition.operator = ">" -> Less(condition.value, actual)
         [] condition.operator = "==" -> actual = condition.value

\* The signals: the rules that fire, by their places in rules.json.
Triggered(facts) == {i \in DOMAIN Rules : \A c \in Rules[i].conditions : Holds(facts, c)}

\* Of one family in a category, the first with the highest delta.
EffectiveSignals(signals) ==
    LET beaten(i) ==
          /\ Rules[i].family # ""
          /\ \E j \in signals \ {i} :
                /\ Rules[j].family = Rules[i].family
                /\ Rules[j].category = Rules[i].category
                /\ \/ Rules[j].delta > Rules[i].delta
                   \/ Rules[j].delta = Rules[i].delta /\ j < i
    IN {Rules[i] : i \in {k \in signals : ~beaten(k)}}

Names(rule) == {c.metric : c \in rule.conditions}

\* evidence_coverage, over the inputs of the signals that count.
EvidenceCoverage(f, accepted, signals) ==
    LET groups == UNION {{s} \X Names(s) : s \in EffectiveSignals(signals)}
        covered == {g \in groups : Covered(f, accepted, g[2])}
    IN Div(Whole(Cardinality(covered)), Whole(Max({1, Cardinality(groups)})))

Categories == {"liquidity", "solvency_leverage", "profitability", "cash_flow",
               "earnings_quality", "business_going_concern"}

\* config/scoring.json
Weight ==
    [liquidity |-> 17, solvency_leverage |-> 17, profitability |-> 12, cash_flow |-> 16,
     earnings_quality |-> 12, business_going_concern |-> 9]

EffectiveDeltas(signals, category) ==
    {<< s.id, s.delta >> : s \in {x \in EffectiveSignals(signals) : x.category = category}}

\* Of a category without a signal or a contradiction nothing is said.
Dimension(signals, contradictions, category) ==
    LET drivers == EffectiveDeltas(signals, category)
        opposed == Len(SelectSeq(contradictions, LAMBDA c : c.category = category))
    IN IF drivers = {} /\ opposed = 0 THEN Missing
       ELSE Whole(Min({100, 10 + MapThenSumSet(LAMBDA d : d[2], drivers) + 10 * opposed}))

Aggregate(signals, contradictions) ==
    LET dims == [c \in Categories |-> Dimension(signals, contradictions, c)]
        scored == {c \in Categories : dims[c] # Missing}
        weights == MapThenSumSet(LAMBDA c : Weight[c], scored)
    IN [dimensions |-> dims,
        score |-> IF Cardinality(scored) < 2 THEN Missing
                  ELSE Div(Whole(MapThenSumSet(LAMBDA c : Weight[c] * dims[c][1], scored)),
                           Whole(weights))]

-----------------------------------------------------------------------------
(* contradictions.py with config/consistency_policy.json                    *)

\* A declining free cash flow is looked for as fcf_growth, a fact nothing
\* produces: free_cash_flow_growth is the name that is computed.
CHECKS ==
    [liquidity |->
        {Below("cash_growth", -1, 10), Below("operating_cash_flow_growth", -1, 10),
         Above("short_term_debt_growth", 2, 10), Below("current_ratio", 1, 1)},
     solvency_leverage |->
        {Above("debt_to_assets", 6, 10), Above("liabilities_to_assets", 8, 10),
         Below("interest_coverage", 15, 10), Above("total_debt_growth", 2, 10)},
     profitability |->
        {Below("revenue_growth", -5, 100), Below("net_income_growth", -15, 100),
         Below("operating_margin_change", -2, 100), Below("net_margin", 0, 1)},
     cash_flow |->
        {Below("operating_cash_flow_growth", -15, 100), Below("free_cash_flow", 0, 1),
         Below("fcf_growth", -2, 10), Below("cfo_to_net_income", 8, 10)},
     earnings_quality |->
        {Below("cfo_to_net_income", 8, 10), Above("accounts_receivable_growth_gap", 15, 100),
         Below("free_cash_flow", 0, 1)},
     business_going_concern |->
        {Below("working_capital", 0, 1), Below("operating_cash_flow", 0, 1),
         Below("net_income", 0, 1), Above("going_concern_doubt", 0, 1)}]

EVIDENCE_CONSTRUCTS ==
    [liquidity |->
        [liquidity_position |-> {"current_ratio", "working_capital"},
         cash_generation |-> {"cash_growth", "operating_cash_flow_growth"},
         funding_pressure |-> {"short_term_debt_growth", "total_debt_growth"},
         liquid_investments |-> {"marketable_securities", "short_term_investments"},
         funding_access |-> {"committed_credit_capacity", "debt_market_access"}],
     solvency_leverage |->
        [capital_structure |-> {"debt_to_assets", "liabilities_to_assets"},
         debt_service |-> {"interest_coverage"},
         debt_trajectory |-> {"total_debt_growth"}],
     profitability |->
        [profit_level |-> {"net_margin", "operating_margin"},
         profit_trajectory |-> {"net_income_growth", "operating_margin_change"},
         demand_trajectory |-> {"revenue_growth"}],
     cash_flow |->
        [cash_generation |-> {"operating_cash_flow", "operating_cash_flow_growth"},
         free_cash_flow |-> {"free_cash_flow", "fcf_growth"},
         cash_conversion |-> {"cfo_to_net_income"}],
     earnings_quality |->
        [cash_conversion |-> {"cfo_to_net_income", "free_cash_flow"},
         working_capital_quality |-> {"accounts_receivable_growth_gap", "inventory_growth_gap"}],
     business_going_concern |->
        [operating_viability |-> {"net_income", "operating_cash_flow"},
         near_term_liquidity |-> {"working_capital"},
         explicit_disclosure |-> {"going_concern_doubt"}]]

Get(table, category, default) ==
    IF category \in DOMAIN table THEN table[category] ELSE default
Checks(category) == Get(CHECKS, category, {})
Constructs(category) == Get(EVIDENCE_CONSTRUCTS, category, << >>)

\* A construct the claim names and its category lacks is never available.
RequiredConstructs(claim) ==
    IF claim.needs # {} THEN claim.needs
    ELSE IF claim.category = "liquidity"
         THEN {"liquidity_position", "cash_generation", "funding_pressure"}
    ELSE DOMAIN Constructs(claim.category)

MissingConstructs(claim, facts) ==
    LET constructs == Constructs(claim.category) IN
    {k \in RequiredConstructs(claim) :
        k \in DOMAIN constructs => \A metric \in constructs[k] : Fact(facts, metric) = Missing}

Available(claim, facts) ==
    {c \in Checks(claim.category) : Fact(facts, c.metric) # Missing}
Opposing(claim, facts) == {c \in Available(claim, facts) : Holds(facts, c)}
Supporting(claim, facts) == Available(claim, facts) \ Opposing(claim, facts)

\* Only claims whose quotation was verified get here.
EvaluateClaimConsistency(claim, facts) ==
    LET opposing == Cardinality(Opposing(claim, facts)) IN
    CASE MissingConstructs(claim, facts) # {} -> "INCOMPLETE_CONTEXT"
      [] /\ MissingConstructs(claim, facts) = {}
         /\ claim.polarity # "positive" /\ claim.direction # "positive" -> "NOT_APPLICABLE"
      [] OTHER -> IF opposing >= 2 THEN "MATERIAL_CONTRADICTION"
                  ELSE IF opposing = 1 THEN "TENSION" ELSE "NO_CONTRADICTION"

\* enterprise/tension.py: whether the claim is optimistic is not asked.
ClassifyTension(claim, facts) ==
    LET opposing == Cardinality(Opposing(claim, facts))
        supporting == Cardinality(Supporting(claim, facts)) IN
    CASE MissingConstructs(claim, facts) # {} \/ opposing + supporting = 0 ->
            "Insufficient Evidence"
      [] OTHER ->
            IF opposing >= 2 /\ supporting = 0 THEN "Material Contradiction"
            ELSE IF opposing > 0 THEN IF supporting > 0 THEN "Context-dependent" ELSE "Tension"
            ELSE IF supporting >= 2 THEN "Supported" ELSE "Weakly Supported"

Contradictions(accepted, facts) ==
    SelectSeq(accepted, LAMBDA c :
        EvaluateClaimConsistency(c, facts) = "MATERIAL_CONTRADICTION")

\* Each line item is a requirement of its own here, not part of a group.
ContradictionProven(f, accepted, claim, facts) ==
    \A check \in Opposing(claim, facts) : Covered(f, accepted, check.metric)

-----------------------------------------------------------------------------
(* The claims: evidence.py, and the loop of assess over what was extracted. *)

\* The quotation is on the page and the claim shares its words.
Accepted(quotes) == SelectSeq(quotes, LAMBDA c : c.quoted /\ c.grounded)

\* What assess returns.
Assessed(f, quotes, language) ==
    LET accepted == Accepted(quotes)
        facts == BuildFacts(f, accepted)
        signals == Triggered(facts)
        contradictions == Contradictions(accepted, facts)
        total == Aggregate(signals, contradictions)
    IN [signals |-> signals,
        proven |-> {s.id : s \in {x \in EffectiveSignals(signals) :
                                    \A n \in Names(x) : Covered(f, accepted, n)}},
        contradictions |-> contradictions,
        bound |-> {c \in ToSet(contradictions) : ContradictionProven(f, accepted, c, facts)},
        consistency |-> [i \in DOMAIN accepted |-> EvaluateClaimConsistency(accepted[i], facts)],
        tensions |-> [i \in DOMAIN accepted |-> ClassifyTension(accepted[i], facts)],
        dimensions |-> total.dimensions,
        score |-> total.score,
        coverage |-> EvidenceCoverage(f, accepted, signals),
        suppressed |-> language /\ accepted = << >>]

-----------------------------------------------------------------------------
(* The state machine: a pipeline is built, the provider answers, assess ends. *)

\* What the constructor refuses: two rules of one id, or the same single
\* comparison twice in one category.
RulesAreDistinct ==
    ~ \E i, j \in DOMAIN Rules :
        /\ i # j
        /\ \/ Rules[i].id = Rules[j].id
           \/ /\ Cardinality(Rules[i].conditions) = 1
              /\ Rules[i].category = Rules[j].category
              /\ Rules[i].conditions = Rules[j].conditions

AssessmentInit ==
    /\ RulesAreDistinct
    /\ filing \in Filings
    /\ risky \in BOOLEAN
    /\ returned = << >>
    /\ published = << >>

Extract(c) ==
    /\ published = << >>
    /\ Len(returned) < MaxClaims
    /\ returned' = Append(returned, c)
    /\ UNCHANGED << filing, risky, published >>

Conclude ==
    /\ published = << >>
    /\ published' = << Assessed(filing, returned, risky) >>
    /\ UNCHANGED << filing, risky, returned >>

AssessmentNext == Conclude \/ \E c \in Claims[filing.theme] : Extract(c)

AssessmentSpec == AssessmentInit /\ [][AssessmentNext]_assessmentVars

-----------------------------------------------------------------------------
(* Properties *)

\* The filing, with line item `item` of `year` at another amount.
Altered(f, item, year, amount) ==
    IF year = "now" THEN [f EXCEPT !.now[item] = amount] ELSE [f EXCEPT !.before[item] = amount]

Reported(f, item, year) ==
    IF year = "now" THEN f.now[item] # Missing
    ELSE f.before # << >> /\ f.before[item] # Missing

(***************************************************************************)
(* A finding whose material inputs are all verified does not depend on an  *)
(* unverified number: whatever a reported line item that is not verified   *)
(* turns out to be, the proven rules still fire, and the adverse checks a  *)
(* proven contradiction rests on still hold.  The decision trace marks     *)
(* exactly these paths VERIFIED, and the proof gate counts them; what is   *)
(* required of a fact and what it is computed from are two pieces of code. *)
(***************************************************************************)
ProvenFindingsStand ==
    published # << >> =>
        \A item \in LineItems, year \in Years :
            Reported(filing, item, year) /\ filing.status[<< item, year >>] # "verified" =>
                \A amount \in Amounts :
                    LET accepted == Accepted(returned)
                        before == BuildFacts(filing, accepted)
                        facts == BuildFacts(Altered(filing, item, year, amount), accepted)
                    IN /\ \A i \in DOMAIN Rules :
                            Rules[i].id \in published[1].proven =>
                                \A c \in Rules[i].conditions : Holds(facts, c)
                       /\ \A claim \in published[1].bound :
                            Opposing(claim, before) \subseteq Opposing(claim, facts)

(***************************************************************************)
(* A company that grew by the same factor everywhere shows no trend: every *)
(* change and every gap is zero, though the published levels are computed  *)
(* on balances averaged over the two years (facts.py: "two periods         *)
(* identical in structure").                                               *)
(***************************************************************************)
SameStructureNoDrift ==
    published # << >> =>
    LET v == filing.now  p == filing.before
        proportional == \A a, b \in LineItems :
            Known({v[a], p[b]}) /\ Known({v[b], p[a]}) =>
                v[a][1] * p[b][1] * v[b][2] * p[a][2] = v[b][1] * p[a][1] * v[a][2] * p[b][2]
    IN p # << >> /\ proportional =>
        \A name \in DOMAIN Trends(v, p) : Trends(v, p)[name] # Missing => Zero(Trends(v, p)[name])
=============================================================================
