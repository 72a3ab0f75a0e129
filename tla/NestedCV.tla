------------------------------ MODULE NestedCV ------------------------------
(***************************************************************************)
(* Where the scores of E4-R come from: e4r_leakage.audit decides whether   *)
(* a packet may be used for the ledger, and e4r_models.nested_cv scores    *)
(* each observation with a model that is fitted, tuned and given its       *)
(* columns on the other folds.  Candidates and refits fail.  A run of the  *)
(* extensions alone scores its arms without the audit.                     *)
(*                                                                         *)
(* A score is the model that gave it, and a model the rows it has seen:    *)
(* when its columns were chosen, when its parameters were, and in fitting. *)
(***************************************************************************)
EXTENDS Naturals, FiniteSets, Sequences

CONSTANTS
    Datasets,    \* functions from observations to records, see below
    Columns,
    Coverage,    \* a column is kept if it has a value in so many of the rows ...
    Outer,       \* folds
    Grid,        \* candidates, in the order they are tried
    Marks        \* what the inner folds may say of one, on average

\* Days are counted; an outcome without a date has day 0.
ASSUME CVAssumption ==
    /\ Outer \in Nat
    /\ \A d \in Datasets :
          /\ IsFiniteSet(DOMAIN d)
          /\ \A o \in DOMAIN d :
                {d[o].period, d[o].cutoff, d[o].outcome} \cup d[o].facts \subseteq Nat

VARIABLES
    data,      \* [observation -> [company, cik, accession, facts, period, previous,
               \*   cutoff, outcome, window, named, columns]]
    folds,     \* [company -> fold]
    audited,   \* the run audits the packet before it scores
    current,   \* the fold being tested; 0 before the audit, Outer + 1 at the end
    tried,     \* marks of the candidates tried on it
    scores     \* oof_scores

cvVars == << data, folds, audited, current, tried, scores >>

Observations == DOMAIN data
NoMark == 0      \* every inner fit failed, or no inner fold had both classes
NoScore == [failed |-> TRUE]

-----------------------------------------------------------------------------
(* The audit: what confirms a leak.                                         *)

\* Companies, their CIKs and filings are as many as the observations.
Overlap ==
    \/ Cardinality({data[o].company : o \in Observations}) # Cardinality(Observations)
    \/ Cardinality({data[o].cik : o \in Observations}) # Cardinality(Observations)
    \/ Cardinality({data[o].accession : o \in Observations}) # Cardinality(Observations)

\* A fact after the end of the period, a period after the cutoff, a previous
\* period that is none.
LateFeatures(o) ==
    \/ \E f \in data[o].facts : f > data[o].period
    \/ data[o].period > data[o].cutoff
    \/ data[o].previous >= data[o].period

\* An outcome without a date passes.
EarlyOutcome(o) ==
    data[o].outcome # 0
    /\ (data[o].outcome <= data[o].cutoff \/ data[o].outcome > data[o].window)

\* A field that tells the outcome: by its name, by a later year in it or by
\* parting the labels; or a label without a verified outcome.
TellingNames(o) == data[o].named

Confirmed ==
    \/ Overlap
    \/ \E o \in Observations : LateFeatures(o) \/ EarlyOutcome(o) \/ TellingNames(o)

-----------------------------------------------------------------------------
(* The nested loop                                                          *)

TestRows(f) == {o \in Observations : folds[data[o].company] = f}
TrainRows(f) == Observations \ TestRows(f)

\* A mutant: coverage is looked up in all rows.
ColumnsFrom_AllRows(f) == Observations

\* _available_columns is given the training rows.
ColumnsFrom(f) == TrainRows(f)

KeptColumns(f) ==
    LET rows == ColumnsFrom(f) IN
    {c \in Columns : Cardinality({o \in rows : c \in data[o].columns}) * 10 >= Coverage * Cardinality(rows)}

\* The first of the candidates with the best mark.
Best ==
    CHOOSE i \in DOMAIN tried :
        /\ \A j \in DOMAIN tried : tried[j] <= tried[i]
        /\ \A j \in 1 .. (i - 1) : tried[j] < tried[i]

Survived == \E i \in DOMAIN tried : tried[i] # NoMark

Model(f) ==
    [params |-> Grid[Best], columns |-> KeptColumns(f),
     saw |-> [columns |-> ColumnsFrom(f), tuning |-> TrainRows(f), fit |-> TrainRows(f)]]

CVInit ==
    /\ data \in Datasets
    /\ folds \in [{data[o].company : o \in DOMAIN data} -> 1 .. Outer]
    /\ \A f \in 1 .. Outer : TestRows(f) # {}
    /\ audited = FALSE
    /\ current = 0
    /\ tried = << >>
    /\ scores = << >>

\* stage_leakage.
PassAudit ==
    /\ current = 0 /\ ~Confirmed
    /\ audited' = TRUE
    /\ current' = 1
    /\ UNCHANGED << data, folds, tried, scores >>

\* --extensions goes to its fits and returns before stage_leakage.
SkipAudit ==
    /\ current = 0
    /\ current' = 1
    /\ UNCHANGED << data, folds, audited, tried, scores >>

TryCandidate ==
    /\ current \in 1 .. Outer /\ Len(tried) < Len(Grid)
    /\ \E m \in Marks \cup {NoMark} : tried' = Append(tried, m)
    /\ UNCHANGED << data, folds, audited, current, scores >>

\* The best candidate is fitted on the whole training part, if there is one and
\* it can be; otherwise the fold has no scores.
ScoreFold ==
    /\ current \in 1 .. Outer /\ Len(tried) = Len(Grid)
    /\ \E fits \in BOOLEAN :
         scores' = [o \in DOMAIN scores \cup TestRows(current) |->
                      IF o \notin TestRows(current) THEN scores[o]
                      ELSE IF Survived /\ fits THEN Model(current) ELSE NoScore]
    /\ current' = current + 1
    /\ tried' = << >>
    /\ UNCHANGED << data, folds, audited >>

CVNext == PassAudit \/ SkipAudit \/ TryCandidate \/ ScoreFold

CVSpec == CVInit /\ [][CVNext]_cvVars

-----------------------------------------------------------------------------
(* Properties *)

\* Every observation of a study that is scored has one score or none at all for
\* its whole fold, and the model behind a score never saw a row of the same
\* company, neither in fitting nor in tuning nor when its columns were chosen.  If
\* the run audits, it saw none under another name either, and what it scores was
\* known before its outcome was.
ScoresAreBlind ==
    /\ current = Outer + 1 =>
        /\ DOMAIN scores = Observations
        /\ \A o, p \in Observations :
              folds[data[o].company] = folds[data[p].company] => scores[o] = scores[p]
    /\ \A o \in DOMAIN scores :
          scores[o] # NoScore =>
            /\ \A rows \in {scores[o].saw.columns, scores[o].saw.tuning, scores[o].saw.fit} :
                  \A p \in rows :
                     /\ data[p].company # data[o].company
                     /\ audited => data[p].cik # data[o].cik
            /\ audited /\ data[o].outcome # 0 => \A f \in data[o].facts : f < data[o].outcome
=============================================================================
