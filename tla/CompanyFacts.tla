----------------------------- MODULE CompanyFacts -----------------------------
(* The SEC's companyfacts of one company, as its filings add to them, and    *)
(* what parse_companyfacts (xbrl.py) selects for each line item and year.    *)
(* Forms, fiscal periods and durations are one flag of an entry.             *)
EXTENDS Integers, Sequences, FiniteSets, SequencesExt

CONSTANTS
    Tags,     \* Tags[item]: concepts of each taxonomy in turn, in the order of CONCEPTS
    Units,    \* in the order of the payload
    USD,
    Reports   \* [accn, filed, entries]; an entry is [tag, unit, fy, end, annual, val]

DebtParts == {"short_term_debt", "long_term_debt"}

ASSUME ConceptAssumption ==
    /\ DebtParts \cup {"total_debt"} \subseteq DOMAIN Tags
    /\ ToSet(Tags["short_term_debt"]) \cap ToSet(Tags["long_term_debt"]) = {}
    /\ \A item \in DOMAIN Tags : Tags[item] \in Seq(ToSet(Tags[item]))
    /\ Units \in Seq(ToSet(Units))

ASSUME ReportAssumption ==
    \A r \in Reports :
        /\ r.accn \in Int /\ r.filed \in Int
        /\ r.entries \in Seq(ToSet(r.entries))
        /\ \A e \in ToSet(r.entries) : e.unit \in ToSet(Units) /\ e.val \in Int

Unusable == -1   \* a val that is no number, or absent

YearOf(day) == day \div 10

VARIABLE payload   \* entries, each with the accn and the filed of its filing

Items == DOMAIN Tags
Filed == {e.accn : e \in ToSet(payload)}

-----------------------------------------------------------------------------
(* parse_companyfacts *)

\* _annual_candidates, by their places in the payload.  The comparatives of a
\* later filing carry its fy, and fall under neither year.
AnnualCandidates(entries, tag, unit, year) ==
    {i \in DOMAIN entries :
        /\ entries[i].tag = tag /\ entries[i].unit = unit
        /\ entries[i].annual /\ entries[i].fy = year /\ YearOf(entries[i].end) = year}

Later(e, d) == e.filed > d.filed \/ (e.filed = d.filed /\ e.accn > d.accn)

\* The last one after a stable sort.
LastFiled(entries, candidates) ==
    entries[CHOOSE i \in candidates :
                \A j \in candidates \ {i} :
                    \/ Later(entries[i], entries[j])
                    \/ ~Later(entries[j], entries[i]) /\ j < i]

\* A mutant: the first concept that has a value wins.
Beats_FirstConcept(e, d) == e.unit = USD /\ d.unit # USD

\* candidate_key > selected_key
Beats(e, d) ==
    \/ e.unit = USD /\ d.unit # USD
    \/ (e.unit = USD <=> d.unit = USD) /\ Later(e, d)

NoFact == [items |-> {}]

\* Concepts and their units in turn.
Slots(item) == (DOMAIN Tags[item]) \X (DOMAIN Units)
Before(s, t) == s[1] < t[1] \/ (s[1] = t[1] /\ s[2] < t[2])
InSlot(entries, item, year, slot) ==
    AnnualCandidates(entries, Tags[item][slot[1]], Units[slot[2]], year)
LatestIn(entries, item, year, slot) == LastFiled(entries, InSlot(entries, item, year, slot))

\* What is there first wins a tie.
BestSlot(entries, item, year) ==
    LET found == {s \in Slots(item) : InSlot(entries, item, year, s) # {}}
        of(slot) == LatestIn(entries, item, year, slot)
    IN CHOOSE s \in found :
            \A t \in found \ {s} :
                Beats(of(s), of(t)) \/ (~Beats(of(t), of(s)) /\ Before(s, t))

SelectedFact(entries, item, year) ==
    LET best == BestSlot(entries, item, year)
        entry == LatestIn(entries, item, year, best)
    IN IF \A s \in Slots(item) : InSlot(entries, item, year, s) = {} THEN NoFact
       ELSE IF entry.val = Unusable THEN NoFact
       ELSE [items |-> {item}, tags |-> {entry.tag}, year |-> year, value |-> entry.val,
             accn |-> entry.accn, filed |-> entry.filed, end |-> entry.end,
             unit |-> entry.unit,
             restated |-> \E i, j \in InSlot(entries, item, year, best) :
                            entries[i].val # entries[j].val]

\* Two parts of one filing in one unit are added up, if there is no total.
TotalDebt(entries, year) ==
    LET total == SelectedFact(entries, "total_debt", year)
        current == SelectedFact(entries, "short_term_debt", year)
        noncurrent == SelectedFact(entries, "long_term_debt", year)
    IN IF total # NoFact THEN total
       ELSE IF NoFact \in {current, noncurrent} THEN NoFact
       ELSE IF \/ current.accn # noncurrent.accn \/ current.end # noncurrent.end
               \/ current.unit # noncurrent.unit THEN NoFact
       ELSE [current EXCEPT !.items = DebtParts,
                            !.tags = current.tags \cup noncurrent.tags,
                            !.value = current.value + noncurrent.value,
                            !.filed = Max({current.filed, noncurrent.filed}),
                            !.restated = current.restated \/ noncurrent.restated]

Facts(entries) ==
    LET years == {e.fy : e \in ToSet(entries)} IN
    ({SelectedFact(entries, item, year) : item \in Items \ {"total_debt"}, year \in years}
       \cup {TotalDebt(entries, year) : year \in years}) \ {NoFact}

-----------------------------------------------------------------------------

FactsInit == payload = << >>

\* Filings arrive in the order of their dates.
File(r) ==
    /\ r.accn \notin Filed
    /\ \A e \in ToSet(payload) : e.filed <= r.filed
    /\ payload' = payload \o [i \in DOMAIN r.entries |->
                                [tag |-> r.entries[i].tag, unit |-> r.entries[i].unit,
                                 fy |-> r.entries[i].fy, end |-> r.entries[i].end,
                                 annual |-> r.entries[i].annual, val |-> r.entries[i].val,
                                 accn |-> r.accn, filed |-> r.filed]]

FactsNext == \E r \in Reports : File(r)

FactsSpec == FactsInit /\ [][FactsNext]_payload

-----------------------------------------------------------------------------
(* Properties *)

\* The entries that report a line item for a year.
Annual(entries, item, year) ==
    {e \in ToSet(entries) :
        e.tag \in ToSet(Tags[item]) /\ e.annual /\ e.fy = year /\ YearOf(e.end) = year}

\* Its filing reports the line item for the year, and none does so later, in this
\* currency or, if this one is not in dollars, in dollars.
Newest(fact, entries) ==
    \A item \in fact.items :
        /\ \E e \in Annual(entries, item, fact.year) :
              e.accn = fact.accn /\ e.filed = fact.filed /\ e.unit = fact.unit
        /\ \A e \in Annual(entries, item, fact.year) :
              /\ e.unit = USD => fact.unit = USD
              /\ e.unit = USD \/ fact.unit # USD => ~Later(e, fact)

\* Between two payloads.
Follows(before, after) ==
    /\ \A g \in Facts(after) : Newest(g, after)
    /\ \A f \in Facts(before), g \in Facts(after) :
        (/\ f.items = g.items /\ f.year = g.year
         /\ f.tags = g.tags /\ f.unit = g.unit
         /\ f.value # g.value) => g.restated

(***************************************************************************)
(* With every filing that arrives, a fact is that of the newest annual     *)
(* filing that reports its line item under any concept, a sum of debts     *)
(* mixes no two filings, and a value that changes under the concepts it    *)
(* had is marked restated: what was computed from the facts before can be  *)
(* told apart from what is computed now (the docstring of                  *)
(* parse_companyfacts).                                                    *)
(***************************************************************************)
FactsFollowFilings == [][Follows(payload, payload')]_payload
=============================================================================
