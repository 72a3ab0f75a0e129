------------------------------ MODULE SecCorpus ------------------------------
(* The empirical corpus from the SEC's bulk archives (sec_bulk.py, called by *)
(* scripts/import_sec_bulk.py): quarter by quarter an archive of filings is  *)
(* put into the directory, and every import builds observations and labels   *)
(* from all that are there.  A companyfacts archive takes their place.       *)
(*                                                                           *)
(* A day is a number.  A row of an archive that is dimensional, of a         *)
(* co-registrant or not in dollars is not plain.                             *)
EXTENDS Integers, Sequences, FiniteSets, SequencesExt

CONSTANTS
    Plan,          \* [company, fy] of the frozen plan
    Archives,      \* Archives[q]: what the archive of quarter q may hold
    FactArchives,  \* what companyfacts.zip may hold: sequences of entries
    TwelveMonths,  \* in days
    YearOf(_)      \* the year of a day

NoValue == 1000000
Fields == {"revenue", "net_income", "operating_cash_flow", "capital_expenditure",
           "total_assets", "total_debt", "short_term_debt", "long_term_debt"}
INSTANT_FIELDS == {"total_assets", "total_debt", "short_term_debt", "long_term_debt"}

VARIABLES
    archives,     \* contents of the archives there are, in the order of their names
    companyfacts, \* the entries of companyfacts.zip; << >> if there is none
    observations, \* numeric_corpus.json
    labels        \* deterioration_labels.json: [observation -> label]

corpusVars == << archives, companyfacts, observations, labels >>

-----------------------------------------------------------------------------
(* Selecting *)

\* The first element after a stable sort.
First(s, Before(_, _)) ==
    s[CHOOSE i \in DOMAIN s : \A j \in DOMAIN s :
        ~Before(s[j], s[i]) /\ (j < i => Before(s[i], s[j]))]

ValueOf(rows, Before(_, _)) == IF rows = << >> THEN NoValue ELSE First(rows, Before).val

\* load_statement_archives: every filing with its place in the archives.
Submissions ==
    UNION {{[archive |-> q, row |-> i, filing |-> archives[q][i]] : i \in DOMAIN archives[q]} :
             q \in DOMAIN archives}

FirstTag(r, s) == r.tag < s.tag

\* _select_fact: consolidated, of the period of the filing, of a year if it is a flow.
SelectFact(filing, field) ==
    ValueOf(SelectSeq(filing.rows, LAMBDA r :
                /\ r.field = field /\ r.plain /\ r.ddate = filing.period
                /\ r.qtrs \in (IF field \in INSTANT_FIELDS THEN {0} ELSE {0, 4})),
            FirstTag)

\* _select_reported_duration_fact: of the first tag, the longest duration.
SelectReported(filing, field) ==
    ValueOf(SelectSeq(filing.rows, LAMBDA r :
                /\ r.field = field /\ r.plain /\ r.ddate = filing.period
                /\ r.qtrs \in 1 .. 4),
            LAMBDA r, s : r.tag < s.tag \/ (r.tag = s.tag /\ r.qtrs > s.qtrs))

WithTotalDebt(facts) ==
    IF /\ facts["total_debt"] = NoValue
       /\ NoValue \notin {facts["short_term_debt"], facts["long_term_debt"]}
    THEN [facts EXCEPT !["total_debt"] = facts["short_term_debt"] + facts["long_term_debt"]]
    ELSE facts

Available(filing) == IF filing.accepted < filing.filed THEN filing.filed ELSE filing.accepted

\* The archives of the SEC: an archive holds what was filed in its quarter, so
\* that no later one has the same filing or an earlier one.
ASSUME CorpusAssumption ==
    /\ TwelveMonths \in Nat \ {0} /\ DOMAIN Archives \subseteq Nat
    /\ \A q \in DOMAIN Archives : \A c \in Archives[q] :
          /\ DOMAIN c \subseteq Nat /\ IsFiniteSet(DOMAIN c)
          /\ \A i \in DOMAIN c : c[i].filed \in Nat /\ c[i].accepted \in Nat
    /\ \A p, q \in DOMAIN Archives : p < q =>
          \A b \in Archives[p], c \in Archives[q] : \A i \in DOMAIN b, j \in DOMAIN c :
             /\ b[i].filed < c[j].filed /\ Available(b[i]) < Available(c[j])
             /\ b[i].accn # c[j].accn

-----------------------------------------------------------------------------
(* build_numeric_corpus, and the pools the labels are built from *)

\* In the order of a stable sort by (filed, accepted).
FiledFirst(s, t) ==
    LET f == s.filing  g == t.filing IN
    \/ f.filed < g.filed
    \/ f.filed = g.filed /\ f.accepted < g.accepted
    \/ /\ f.filed = g.filed /\ f.accepted = g.accepted
       /\ s.archive < t.archive \/ (s.archive = t.archive /\ s.row < t.row)

Original(filings) == CHOOSE s \in filings : \A t \in filings \ {s} : FiledFirst(s, t)

Annual(submissions, company, fy) ==
    {s \in submissions : s.filing.company = company /\ s.filing.fy = fy /\ s.filing.form = "10-K"}

\* The original filing; what was filed later for the year is not substituted.
NumericObservation(submissions, company, fy) ==
    LET filing == Original(Annual(submissions, company, fy)).filing IN
    [company |-> company, fy |-> fy, period |-> filing.period, cutoff |-> Available(filing),
     facts |-> WithTotalDebt([field \in Fields |-> SelectFact(filing, field)])]

NumericCorpus(keys, submissions) ==
    {NumericObservation(submissions, k[1], k[2]) :
        k \in {x \in keys : Annual(submissions, x[1], x[2]) # {}}}

Planned == {<< p.company, p.fy >> : p \in Plan}
Companies == {p.company : p \in Plan}

\* build_annual_outcome_corpus, independent of the plan.
AnnualOutcomes(submissions) ==
    NumericCorpus({<< s.filing.company, s.filing.fy >> :
                     s \in {x \in submissions : /\ x.filing.form = "10-K"
                                                /\ x.filing.company \in Companies}},
                  submissions)

FreeCashFlow(filing) ==
    LET ocf == SelectReported(filing, "operating_cash_flow")
        capex == SelectReported(filing, "capital_expenditure")
    IN  IF NoValue \in {ocf, capex} THEN NoValue ELSE ocf - capex

\* build_reported_fcf_periods: one record for each accession, the first filed.
ReportedPeriods(submissions, company) ==
    LET reports == {s \in submissions : /\ s.filing.company = company
                                        /\ s.filing.form \in {"10-Q", "10-K"}}
    IN {[of |-> s, available |-> Available(s.filing), fcf |-> FreeCashFlow(s.filing)] :
           s \in {x \in reports : \A t \in reports \ {x} :
                    t.filing.accn = x.filing.accn => FiledFirst(x, t)}}

-----------------------------------------------------------------------------
(* build_companyfacts_corpus *)

\* _companyfact_candidates: fy is that of the filing an entry is taken from.
FactCandidates(company, field, fy) ==
    SelectSeq(companyfacts, LAMBDA e :
        e.company = company /\ e.field = field /\ e.fy = fy /\ e.plain)

Anchors(company, fy) ==
    LET revenue == FactCandidates(company, "revenue", fy) IN
    IF revenue # << >> THEN revenue ELSE FactCandidates(company, "total_assets", fy)

Anchor(company, fy) ==
    First(Anchors(company, fy), LAMBDA e, d :
        \/ e.filed < d.filed
        \/ e.filed = d.filed /\ (e.tag < d.tag \/ (e.tag = d.tag /\ e.accn < d.accn)))

FactObservation(company, fy) ==
    LET anchor == Anchor(company, fy)
        of(field) == SelectSeq(FactCandidates(company, field, fy), LAMBDA e :
                        e.accn = anchor.accn /\ e.end = anchor.end)
    IN [company |-> company, fy |-> fy, period |-> anchor.end, cutoff |-> anchor.filed,
        facts |-> WithTotalDebt([field \in Fields |->
            ValueOf(of(field), LAMBDA e, d :
                e.tag < d.tag \/ (e.tag = d.tag /\ e.filed < d.filed))])]

CompanyFactsCorpus ==
    {FactObservation(k[1], k[2]) : k \in {x \in Planned : Anchors(x[1], x[2]) # << >>}}

-----------------------------------------------------------------------------
(* build_deterioration_labels *)

Known(xs) == NoValue \notin xs
Absolute(x) == IF x < 0 THEN -x ELSE x

Declined(now, next, percent) ==
    100 * (next - now) <= -percent * Absolute(now)

\* TRUE, FALSE or UNKNOWN, as the condition of the endpoint can be told.
Verdict(known, holds) == IF known THEN IF holds THEN "TRUE" ELSE "FALSE" ELSE "UNKNOWN"

\* In the order of a stable sort by availability.
Sooner(r, s) ==
    r.available < s.available \/ (r.available = s.available /\ FiledFirst(r.of, s.of))

\* The first two reports within the window.
SubsequentReports(o, reports) ==
    LET inside == {r \in reports : o.cutoff < r.available /\ r.available <= o.cutoff + TwelveMonths}
    IN {r \in inside : Cardinality({s \in inside : Sooner(s, r)}) < 2}

ConditionStatuses(o, next, reports) ==
    LET now == o.facts
        both(field) == Known({now[field], next[field]})
        two == SubsequentReports(o, reports)
        debt == {now["total_debt"], next["total_debt"]}
        assets == {now["total_assets"], next["total_assets"]}
    IN [revenue_decline |->
            Verdict(both("revenue") /\ now["revenue"] # 0,
                    Declined(now["revenue"], next["revenue"], 10)),
        income_to_loss |->
            Verdict(both("net_income"), now["net_income"] > 0 /\ next["net_income"] <= 0),
        ocf_deterioration |->
            Verdict(both("operating_cash_flow"),
                    \/ /\ now["operating_cash_flow"] # 0
                       /\ Declined(now["operating_cash_flow"], next["operating_cash_flow"], 25)
                    \/ now["operating_cash_flow"] >= 0 /\ next["operating_cash_flow"] < 0),
        debt_to_assets_increase |->
            Verdict(Known(debt \cup assets) /\ 0 \notin assets,
                    10 * (next["total_debt"] * now["total_assets"]
                          - now["total_debt"] * next["total_assets"])
                      >= now["total_assets"] * next["total_assets"]),
        two_period_negative_fcf |->
            Verdict(Cardinality(two) = 2 /\ Known({r.fcf : r \in two}),
                    \A r \in two : r.fcf < 0)]

\* A mutant: what is unknown is taken for false.
Decided_UnknownIsFalse(true, unknown) == TRUE

\* Two conditions prove a positive; a negative, that fewer than two can be true.
Decided(true, unknown) == true >= 2 \/ true + unknown < 2

Labelled(o, next, reports) ==
    LET statuses == ConditionStatuses(o, next, reports)
        count(s) == Cardinality({c \in DOMAIN statuses : statuses[c] = s})
    IN IF Decided(count("TRUE"), count("UNKNOWN"))
       THEN [status |-> "VERIFIED", value |-> count("TRUE") >= 2, code |-> ""]
       ELSE [status |-> "REQUIRES_HUMAN_REVIEW", value |-> FALSE, code |-> ""]

\* Why there is no outcome: the company has none, or it is not known yet, as
\* nothing there is reaches the end of the window.
Unlabelled(o, outcomes, annual) ==
    LET later == {x \in outcomes : x.cutoff > o.cutoff}
        end == o.cutoff + TwelveMonths
    IN [status |-> "INSUFFICIENT_DATA", value |-> FALSE,
        code |-> IF later = {}
                 THEN IF \A x \in annual : x.cutoff < end THEN "RIGHT_CENSORED_DATA_HORIZON"
                      ELSE "TRUE_NO_ELIGIBLE_OUTCOME"
                 ELSE IF \A x \in later : x.cutoff > end THEN "TRUE_NO_ELIGIBLE_OUTCOME"
                 ELSE "OTHER"]

\* annual: the pool of outcomes, at most one of a company and a year.
Label(o, annual, reports) ==
    LET outcomes == {x \in annual : x.company = o.company /\ x.fy = o.fy + 1}
        eligible == {x \in outcomes : o.cutoff < x.cutoff /\ x.cutoff <= o.cutoff + TwelveMonths}
    IN IF eligible # {} THEN Labelled(o, (CHOOSE x \in eligible : TRUE).facts, reports)
       ELSE Unlabelled(o, outcomes, annual)

\* From the archives: what the import does for its corpus, and the E4 study
\* (e4_outcomes.py) for the features it froze.  Its check that an outcome lies
\* within the window is what makes an outcome eligible above.
BuildOutcomes(corpus, submissions) ==
    LET annual == AnnualOutcomes(submissions)
    IN [o \in corpus |-> Label(o, annual, ReportedPeriods(submissions, o.company))]

-----------------------------------------------------------------------------
(* import_sec_bulk.py *)

CorpusInit ==
    /\ archives = << >>
    /\ companyfacts = << >>
    /\ observations = {}
    /\ labels = [o \in {} |-> {}]

\* The archive of the next quarter is put into the directory.
Download(content) ==
    /\ archives' = Append(archives, content)
    /\ UNCHANGED << companyfacts, observations, labels >>

DownloadFacts(entries) ==
    /\ companyfacts = << >>
    /\ companyfacts' = entries
    /\ UNCHANGED << archives, observations, labels >>

\* Without any archive the corpus stays as it is.
Import ==
    /\ archives # << >> \/ companyfacts # << >>
    /\ LET corpus == IF companyfacts # << >> THEN CompanyFactsCorpus
                   ELSE NumericCorpus(Planned, Submissions)
       IN /\ observations' = corpus
          /\ labels' = IF companyfacts # << >>
                       THEN [o \in corpus |-> Label(o, corpus, {})]
                       ELSE BuildOutcomes(corpus, Submissions)
    /\ UNCHANGED << archives, companyfacts >>

CorpusNext ==
    \/ Import
    \/ \E q \in DOMAIN Archives : \E content \in Archives[q] :
          Len(archives) = q - 1 /\ Download(content)
    \/ \E entries \in FactArchives : DownloadFacts(entries)

CorpusSpec == CorpusInit /\ [][CorpusNext]_corpusVars

-----------------------------------------------------------------------------
(* Properties *)

Final(label) == label.status = "VERIFIED" \/ label.code = "TRUE_NO_ELIGIBLE_OUTCOME"

(***************************************************************************)
(* What an import has concluded no later quarter takes back: a verified    *)
(* label stays what it is, and an observation that has no eligible outcome *)
(* never gets one, whatever reports, restatements and years are still to   *)
(* come (as long as the corpus is built from the same source).  Missing    *)
(* facts, a second report not filed yet or a horizon not reached are told  *)
(* apart from a negative.                                                  *)
(***************************************************************************)
LabelsAreFinal ==
    [][ companyfacts = << >> /\ companyfacts' = << >> =>
          \A o \in DOMAIN labels :
            Final(labels[o]) => o \in DOMAIN labels' /\ labels'[o] = labels[o] ]_corpusVars

(***************************************************************************)
(* What xbrl.py:304-308 says of companyfacts: the SEC attaches a filing's  *)
(* fy to comparative facts too, so the period end determines which year an *)
(* observation represents.                                                 *)
(***************************************************************************)
ObservationIsOfItsYear == \A o \in observations : YearOf(o.period) = o.fy
=============================================================================
