---------------------------- MODULE AgentBatches ----------------------------
(***************************************************************************)
(* backend/finrisk/e4_agent.py: the batches a local language model is      *)
(* asked about, one call at a time, with one exact retry and then          *)
(* bisection; the records that are kept of the calls; and the replay that  *)
(* rebuilds the predictions from the records.                              *)
(*                                                                         *)
(* Batches and their halves are runs of consecutive cases, so that those   *)
(* still to be asked of the present batch are known by their last cases.   *)
(* The answer to a case is the number of the call that gave it: two calls  *)
(* about one case need not agree.                                          *)
(***************************************************************************)
EXTENDS Naturals, Sequences, SequencesExt, FiniteSets, FiniteSetsExt, Functions

CONSTANTS
    Representations,  \* in order; "A2" is the one the hybrid uses
    CaseCount,        \* the cases are 1 .. CaseCount, in observation order
    MaxBatch,         \* cases in one request
    Budget,           \* tokens in one request
    Tokens(_, _),     \* what a request about cases takes in a representation
    MaxFaults         \* bound: calls that do not end in an accepted answer

ASSUME BatchAssumption ==
    /\ CaseCount \in Nat \ {0}
    /\ Representations \in Seq(STRING) /\ IsInjective(Representations)
    /\ "A2" \in ToSet(Representations)

VARIABLES
    turn,      \* the representation whose batches are asked, by its place
    root,      \* the first case of the present batch of the manifest
    from,      \* the first case that has no prediction yet
    ends,      \* the last cases of the batch and of its halves still to be asked
    attempt,   \* attempts made at the first of them
    records,   \* what is kept of each call, in order
    answers,   \* accepted answers
    failures,  \* cases given up
    stopped    \* an exception nobody catches ended the run

batchVars == << turn, root, from, ends, attempt, records, answers, failures, stopped >>

Cases == 1 .. CaseCount

-----------------------------------------------------------------------------
(* Batches *)

Joins(rep, first, c) == c - first + 1 <= MaxBatch /\ Tokens(rep, first .. c) <= Budget

\* make_batches: cases join the batch in order, and the one that does not fit
\* opens the next.
LastOf(rep, first) ==
    Max({d \in first .. CaseCount : \A c \in first + 1 .. d : Joins(rep, first, c)})

\* One packet over the budget ends the study before anything is asked.
Fits == \A r \in ToSet(Representations), c \in Cases : Tokens(r, {c}) <= Budget

\* The cases of a batch of the manifest.
Allowed(rep, first) == first .. LastOf(rep, first)

\* The next batch of the manifest, or none.
Open(t, first) ==
    /\ turn' = t /\ root' = first /\ from' = first
    /\ ends' = IF t <= Len(Representations) THEN {LastOf(Representations[t], first)} ELSE {}

BatchesInit ==
    /\ turn = 1 /\ root = 1 /\ from = 1
    /\ ends = {LastOf(Representations[1], 1)}
    /\ attempt = 0
    /\ records = << >>
    /\ answers = {} /\ failures = {}
    /\ stopped = ~Fits

-----------------------------------------------------------------------------
(* Calls *)

Asking == turn <= Len(Representations) /\ ~stopped
Rep == Representations[turn]
Asked == from .. Min(ends)
Call == Len(records) + 1

\* A response, as far as parsing and replay look at it: text that is JSON
\* with a list of cases, about which cases, one of them twice, all values in
\* range.
Garbled == [json |-> FALSE]
Answer(cases, twice, valid) ==
    [json |-> TRUE, cases |-> cases, twice |-> twice, valid |-> valid]

\* _parse, for a given list of expected cases.
Parses(response, expected) ==
    /\ response.json
    /\ ~response.twice /\ response.valid
    /\ response.cases = expected

\* What a model may answer that is not what it was asked for: a part of it, the
\* whole batch it has been split from, another part of that, something else, nothing.
Unfit ==
    {Garbled, Answer(Asked, TRUE, TRUE), Answer(Asked, FALSE, FALSE)}
    \cup {Answer(s, FALSE, TRUE) :
            s \in {{from}, Allowed(Rep, root), Allowed(Rep, root) \ Asked, {}, {CaseCount + 1}}
                    \ {Asked}}

NoResponse == [json |-> FALSE, lost |-> TRUE]

Keep(response) ==
    records' = Append(records, [rep |-> Rep, root |-> root, asked |-> Asked, response |-> response])

\* On to the other half, the next batch or the next representation.
Proceed ==
    IF Min(ends) # Max(ends)
    THEN /\ from' = Min(ends) + 1
         /\ ends' = ends \ {Min(ends)}
         /\ UNCHANGED << turn, root >>
    ELSE IF Min(ends) < CaseCount THEN Open(turn, Min(ends) + 1) ELSE Open(turn + 1, 1)

\* The first attempt, or the retry, is accepted.
Accept ==
    /\ Asking
    /\ Keep(Answer(Asked, FALSE, TRUE))
    /\ answers' = answers \cup {[rep |-> Rep, case |-> c, call |-> Call] : c \in Asked}
    /\ Proceed
    /\ attempt' = 0
    /\ UNCHANGED << failures, stopped >>

\* The last case of the left half, which is the longer one.
Middle == from + (Cardinality(Asked) + 1) \div 2 - 1

\* After the second failure the batch is split, or its only case given up.
GiveUp ==
    IF Asked = {from}
    THEN failures' = failures \cup {[rep |-> Rep, case |-> from]} /\ Proceed
    ELSE ends' = ends \cup {Middle} /\ UNCHANGED << turn, root, from, failures >>

Faults == Len(records) - Cardinality({a.call : a \in answers})

Fail(response) ==
    /\ Asking
    /\ Faults < MaxFaults
    /\ Keep(response)
    /\ attempt' = 1 - attempt
    /\ IF attempt = 0 THEN UNCHANGED << turn, root, from, ends, failures >> ELSE GiveUp
    /\ UNCHANGED << answers, stopped >>

\* AgentSchemaError: the response is kept for diagnosis.
Reject == Asking /\ \E r \in Unfit : Fail(r)

\* KeyError, TypeError, ValueError or OSError on the way: nothing to keep.
Lose == Fail(NoResponse)

\* A prompt over the budget by the runtime's count, or an exception of another
\* kind, leaves run_agent without predictions.
Stop ==
    /\ Asking
    /\ stopped' = TRUE
    /\ UNCHANGED << turn, root, from, ends, attempt, records, answers, failures >>

BatchesNext == Accept \/ Reject \/ Lose \/ Stop
BatchesSpec == BatchesInit /\ [][BatchesNext]_batchVars

Finished == turn > Len(Representations) /\ ~stopped

-----------------------------------------------------------------------------
(* Predictions and their replay *)

Keys == ToSet(Representations) \X Cases
Abstained == 0

\* A score is the call that gave it.
Predictions ==
    {[key |-> << a.rep, a.case >>, score |-> a.call] : a \in answers}
    \cup {[key |-> << f.rep, f.case >>, score |-> Abstained] : f \in failures}

\* H0 is there for every case with an A2 prediction and abstains with it.
HybridPredictions == {[case |-> p.key[2], score |-> p.score] : p \in {q \in Predictions : q.key[1] = "A2"}}

\* The records that replay_frozen_agent reads: those with a response.
Readable == {i \in DOMAIN records : "lost" \notin DOMAIN records[i].response}

\* It stops at a response that is not JSON, is about nothing or about a case
\* outside the batch of the manifest, or does not parse for its own cases.
Acceptable(record) ==
    LET r == record.response IN
    /\ r.json /\ r.cases # {} /\ r.cases \subseteq Allowed(record.rep, record.root)
    /\ Parses(r, r.cases)

Recovered ==
    UNION {{[key |-> << records[i].rep, c >>, score |-> i] : c \in records[i].response.cases}
              : i \in {j \in Readable : records[j].response.json}}

Given == {[key |-> << f.rep, f.case >>, score |-> Abstained] : f \in failures}

\* An exception: no predictions look like it.
Raised == {[key |-> << "raised", 0 >>, score |-> Abstained]}

\* A mutant: of two answers to a case the first is taken.
Replay_KeepsFirst ==
    IF \E i \in Readable : ~Acceptable(records[i]) THEN Raised
    ELSE {p \in Recovered : \A q \in Recovered : q.key = p.key => p.score <= q.score}
         \cup {p \in Given : \A q \in Recovered : q.key # p.key}

\* A case recovered twice, or recovered and failed, or not at all, is an error.
Replay ==
    LET all == Recovered \cup Given IN
    IF \/ \E i \in Readable : ~Acceptable(records[i])
       \/ \E p, q \in all : p.key = q.key /\ p # q
       \/ {p.key : p \in all} # Keys
    THEN Raised ELSE all

-----------------------------------------------------------------------------
(* Properties *)

\* A replay of what was kept either raises or gives the very predictions of the
\* run; and it raises only if a rejected response was kept.
ReplayNeverLies ==
    Finished =>
        \/ Replay = Predictions
        \/ /\ Replay = Raised
           /\ \E i \in Readable : ~Parses(records[i].response, records[i].asked)

\* However calls fail, a run that finishes has exactly one prediction for each
\* case in each representation: the answer of the last call that asked about it,
\* or an abstention after two failed calls about that case alone.  No batch of n
\* cases takes more than 2(2n-1) calls, the hybrid covers every case, and the
\* replay of what was kept never lies.
EveryCaseAnsweredOnce ==
    /\ ReplayNeverLies
    /\ Finished =>
        /\ {p.key : p \in Predictions} = Keys
        /\ Cardinality(Predictions) = Cardinality(Keys)
        /\ {h.case : h \in HybridPredictions} = Cases
        /\ \A p \in Predictions :
              LET about == {i \in DOMAIN records : records[i].rep = p.key[1] /\ p.key[2] \in records[i].asked}
              IN  IF p.score = Abstained
                  THEN Cardinality({i \in about : records[i].asked = {p.key[2]}}) = 2
                  ELSE p.score = Max(about)
    /\ \A r \in ToSet(Representations), c \in Cases :
          Cardinality({i \in DOMAIN records : records[i].rep = r /\ records[i].root = c})
              <= 2 * (2 * Cardinality(Allowed(r, c)) - 1)
=============================================================================
