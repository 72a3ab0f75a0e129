--------------------------- MODULE CohortSelection ---------------------------
(***************************************************************************)
(* How the E4 study comes by its companies (backend/finrisk/e4_core.py):   *)
(* the rows of the archives are scanned in whatever order they come, each  *)
(* company keeps its earliest original filing, filings with enough facts   *)
(* go on, sectors are sampled in proportion, and the local model gets a    *)
(* part of the cohort.  A SHA-256 rank is an arbitrary order of companies. *)
(***************************************************************************)
EXTENDS Naturals, FiniteSets, Sequences, SequencesExt, FiniteSetsExt, Functions

CONSTANTS
    Filings,    \* the rows of sub.txt that may be there, by accession
    Barred,     \* companies of earlier cohorts
    Ranks,      \* orders of the companies: for cohort, agent, stability
    Limit, AgentLimit, StabilityLimit

\* A rank is a digest followed by the company's number: no two are equal.
ASSUME CohortAssumption ==
    LET companies == {Filings[a].company : a \in DOMAIN Filings} IN
    /\ DOMAIN Filings \subseteq Nat /\ IsFiniteSet(DOMAIN Filings)
    /\ \A a \in DOMAIN Filings : Filings[a].filed \in Nat /\ Filings[a].sector \in Nat
    /\ \A o \in {"cohort", "agent", "stability"} :
          \A c \in companies : Ranks[o][c] \in Nat /\ \A d \in companies \ {c} : Ranks[o][c] # Ranks[o][d]
    /\ {Limit, AgentLimit, StabilityLimit} \subseteq Nat

VARIABLES
    scanned,    \* accessions read so far
    earliest,   \* candidates: [company -> accession]
    cohort,     \* the plan, with the subsets for the model
    phase       \* "scan", "sample", "features", "done"

cohortVars == << scanned, earliest, cohort, phase >>

Accessions == DOMAIN Filings
Company(a) == Filings[a].company
Companies == {Company(a) : a \in Accessions}
Sector(a) == Filings[a].sector

-----------------------------------------------------------------------------
(* Facts of one filing: the fields it reports for its own period and for     *)
(* each earlier date, and the distance of that date from a year before.      *)

Growth == {"revenue", "cash_flow", "debt", "cash"}

\* Debt is completed from its two parts.
Completed(fields) ==
    IF {"short_debt", "long_debt"} \subseteq fields THEN fields \cup {"debt"} ELSE fields

\* The date with most fields, then the nearest, then the first.
ComparativePeriod(a) ==
    LET dates == {d \in DOMAIN Filings[a].before : Filings[a].before[d].near}
        worse(d, e) ==
            LET f == Filings[a].before[d]  g == Filings[a].before[e] IN
            \/ Cardinality(f.fields) < Cardinality(g.fields)
            \/ Cardinality(f.fields) = Cardinality(g.fields) /\ f.gap > g.gap
            \/ Cardinality(f.fields) = Cardinality(g.fields) /\ f.gap = g.gap /\ d > e
    IN  {d \in dates : \A e \in dates \ {d} : ~worse(d, e)}

PreviousFields(a) ==
    Completed(UNION {Filings[a].before[d].fields : d \in ComparativePeriod(a)})

\* A ratio of the current year, and one growth figure.
Usable(a) ==
    /\ "ratio" \in Filings[a].current
    /\ Growth \cap Completed(Filings[a].current) \cap PreviousFields(a) # {}

-----------------------------------------------------------------------------
(* Sampling *)

InSector(rows, s) == {a \in rows : Sector(a) = s}
Sectors(rows) == {Sector(a) : a \in rows}

\* Largest remainder: floors first, then one more for the largest fractions;
\* of equal fractions the first sector by name.
Floor(rows, s) == (Limit * Cardinality(InSector(rows, s))) \div Cardinality(rows)
Fraction(rows, s) == (Limit * Cardinality(InSector(rows, s))) % Cardinality(rows)

\* (Where the code's floating point tells equal fractions apart, another one may
\* get the seat.)
Before(rows, s, t) ==
    \/ Fraction(rows, s) > Fraction(rows, t)
    \/ Fraction(rows, s) = Fraction(rows, t) /\ s < t

\* A mutant: every fraction is rounded up.
Quota_RoundsUp(rows, s) ==
    Floor(rows, s) + IF Fraction(rows, s) > 0 THEN 1 ELSE 0

\* The seats that the floors give away.
Seats(rows) == UNION {{s} \X (1 .. Floor(rows, s)) : s \in Sectors(rows)}

Quota(rows, s) ==
    LET ahead == {t \in Sectors(rows) \ {s} : Before(rows, t, s)}
        remaining == Limit - Cardinality(Seats(rows))
    IN  Floor(rows, s) + IF Cardinality(ahead) < remaining THEN 1 ELSE 0

\* The n first of some filings in an order of the companies.
Foremost(rows, order, n) ==
    {a \in rows : Cardinality({b \in rows : order[Company(b)] < order[Company(a)]}) < n}

StratifiedSample(rows) ==
    IF Cardinality(rows) <= Limit THEN rows
    ELSE UNION {Foremost(InSector(rows, s), Ranks.cohort, Quota(rows, s)) : s \in Sectors(rows)}

-----------------------------------------------------------------------------
(* Steps *)

CohortInit ==
    /\ scanned = {}
    /\ earliest = << >>
    /\ cohort = [plan |-> {}, agent |-> {}, stability |-> {}]
    /\ phase = "scan"

\* An original 10-K of the year, in the window, of no financial company.
Eligible(a) ==
    /\ Filings[a].original /\ Filings[a].inWindow /\ ~Filings[a].financial
    /\ Company(a) \notin Barred

\* (filed, accession), whatever order the rows come in.
Earlier(a, b) ==
    \/ Filings[a].filed < Filings[b].filed
    \/ Filings[a].filed = Filings[b].filed /\ a < b

Discover(a) ==
    /\ phase = "scan" /\ a \notin scanned
    /\ scanned' = scanned \cup {a}
    /\ earliest' =
          IF Eligible(a) /\ (Company(a) \in DOMAIN earliest => Earlier(a, earliest[Company(a)]))
          THEN [c \in DOMAIN earliest \cup {Company(a)} |->
                   IF c = Company(a) THEN a ELSE earliest[c]]
          ELSE earliest
    /\ UNCHANGED << cohort, phase >>

\* All archives read: extract_candidate_facts, _stratified_sample.
Sample ==
    /\ phase = "scan"
    /\ cohort' = [cohort EXCEPT !.plan =
          StratifiedSample({earliest[c] : c \in {d \in DOMAIN earliest : Usable(earliest[d])}})]
    /\ phase' = "features"
    /\ UNCHANGED << scanned, earliest >>

\* build_features: the agent's part, and a part of that for repetition.
DrawAgentPart ==
    LET part == Foremost(cohort.plan, Ranks.agent, AgentLimit) IN
    /\ phase = "features"
    /\ cohort' = [cohort EXCEPT !.agent = part,
                     !.stability = Foremost(part, Ranks.stability, StabilityLimit)]
    /\ phase' = "done"
    /\ UNCHANGED << scanned, earliest >>

CohortNext == (\E a \in Accessions : Discover(a)) \/ Sample \/ DrawAgentPart

CohortSpec == CohortInit /\ [][CohortNext]_cohortVars

-----------------------------------------------------------------------------
(* Properties *)

Smaller(m, n) == IF m < n THEN m ELSE n

\* Whatever the archives hold and in whatever order: the cohort has one filing
\* of a company, the earliest eligible one of all that were read, even if a
\* later one has more facts; nobody barred; as many companies as the limit
\* allows; in each sector its share rounded down or up; and the model's part
\* lies within it.
CohortIsFair ==
    phase # "scan" =>
      LET usable == {earliest[c] : c \in {d \in DOMAIN earliest : Usable(earliest[d])}} IN
      /\ \A a \in cohort.plan :
            /\ Eligible(a) /\ Usable(a)
            /\ \A b \in scanned \ {a} :
                  Company(b) = Company(a) => b \notin cohort.plan /\ (Eligible(b) => Earlier(a, b))
      /\ Cardinality(cohort.plan) = Smaller(Limit, Cardinality(usable))
      /\ Cardinality(usable) > Limit =>
            \A s \in Sectors(usable) :
               Cardinality(InSector(cohort.plan, s)) - Floor(usable, s) \in 0 .. 1
      /\ cohort.stability \subseteq cohort.agent /\ cohort.agent \subseteq cohort.plan
      /\ phase = "done" =>
            Cardinality(cohort.agent) = Smaller(AgentLimit, Cardinality(cohort.plan))
=============================================================================
