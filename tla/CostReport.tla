----------------------------- MODULE CostReport -----------------------------
(***************************************************************************)
(* `magenta cost report`: the diagnosis of a cohort (graph/                *)
(* batch_diagnose.py) through the semantic cache and the confidence        *)
(* cascade (cost/), metered, and the quality check at its end.             *)
(*                                                                         *)
(* Commands are processes of their own, one after the other or side by     *)
(* side, over one cohort; the rows of SEMANTIC_CACHE are all they share,   *)
(* and outlive them. A call of the LLM is one step here: it answers or     *)
(* raises, and LlmGateway says how it comes to that.                       *)
(***************************************************************************)
EXTENDS Integers, Sequences, FiniteSets

CONSTANTS
    Reports,      \* the commands
    Cohort,       \* the engaged customers, in the order of the reports
    Shapes,
    ShapeOf,      \* a report's key text: band, segment, drivers
    Similarity,   \* cosine of two key texts, in percent
    Threshold,    \* SemanticCache's threshold, 75
    Answers,
    Confident,    \* answers _confidence_from_answer puts above the cascade's tau
    TagOf,        \* the root cause tag _extract_tag finds in an answer
    NoAnswer,     \* no answer in hand, or for a customer, yet
    SampleSize    \* the option --sample

CohortCustomers == {Cohort[i] : i \in DOMAIN Cohort}

ASSUME CostReportAssumption ==
    /\ Cohort \in Seq(CohortCustomers) /\ Cohort # <<>>
    /\ \A i, j \in DOMAIN Cohort : Cohort[i] = Cohort[j] => i = j
    /\ ShapeOf \in [CohortCustomers -> Shapes]
    /\ Similarity \in [Shapes -> [Shapes -> 0..100]] /\ Threshold \in 0..100
    /\ \A s \in Shapes : Similarity[s][s] = 100
    /\ Confident \subseteq Answers /\ DOMAIN TagOf = Answers
    /\ SampleSize \in Nat

VARIABLES
    step,     \* where each command is
    pos,      \* the customer it diagnoses
    answer,   \* the cascade's answer in hand
    semantic, \* SEMANTIC_CACHE, in the order of insertion
    out,      \* diagnose_cohort's result so far
    meter,    \* the CostMeter
    sampled,  \* customers of the sample so far
    agree,    \* of these, how many agreed
    missedAt  \* history: from a miss to its put, the rows that the miss had seen

sampling == <<sampled, agree>>
costVars == <<step, pos, answer, semantic, out, meter, sampling, missedAt>>

-----------------------------------------------------------------------------

\* Key text and value; which report put it, and how many rows its lookup had seen,
\* is history.
Row == [shape : Shapes, answer : Answers, by : Reports, seen : Nat]
Asking == {"cheap", "large"}
Sampling == {"sample", "again", "escalated", "forced"}
EndStates == {"reported", "failed"}
Meter == [n : Nat, cheap : Nat, hits : Nat, esc : Nat]

CostTypeOK ==
    /\ step \in [Reports -> {"idle", "lookup", "put"} \cup Asking \cup Sampling \cup EndStates]
    /\ pos \in [Reports -> 1..(Len(Cohort) + 1)]
    /\ answer \in [Reports -> [text : Answers, role : {"cheap", "large"}] \cup {NoAnswer}]
    /\ semantic \in Seq(Row)
    /\ out \in [Reports -> [CohortCustomers -> Answers \cup {NoAnswer}]]
    /\ meter \in [Reports -> Meter]
    /\ sampled \in [Reports -> 0..SampleSize] /\ agree \in [Reports -> 0..SampleSize]
    /\ \A r \in Reports : agree[r] <= sampled[r]
    /\ missedAt \in [Reports -> Nat]

At(r, place) == step[r] = place
Goto(r, place) == step' = [step EXCEPT ![r] = place]

Shape(r) == ShapeOf[Cohort[pos[r]]]
Rows == {semantic[i] : i \in DOMAIN semantic}
OwnRows(r) == {i \in DOMAIN semantic : semantic[i].by = r}

\* SemanticCache.get: a row of the greatest similarity, whichever the scan meets
\* first, if that reaches the threshold.
Closeness(i, shape) == Similarity[shape][semantic[i].shape]
Nearest(shape) ==
    {i \in DOMAIN semantic :
        \A j \in DOMAIN semantic : Closeness(j, shape) <= Closeness(i, shape)}

HitSameText(shape) ==         \* variant: a cache by the text itself
    \E i \in DOMAIN semantic : semantic[i].shape = shape

Hit(shape) ==
    \E i \in DOMAIN semantic : Closeness(i, shape) >= Threshold

-----------------------------------------------------------------------------

\* Only engaged customers are in the cohort; with none the command is over.
StartReport(r) ==
    /\ At(r, "idle")
    /\ Goto(r, "lookup")
    /\ UNCHANGED <<pos, answer, semantic, out, meter, sampling, missedAt>>

\* CostMeter.record; the large role is only asked to escalate.
Recorded(m, role) ==
    [n |-> m.n + 1,
     hits |-> IF role = "cache" THEN m.hits + 1 ELSE m.hits,
     cheap |-> IF role = "cheap" THEN m.cheap + 1 ELSE m.cheap,
     esc |-> IF role = "large" THEN m.esc + 1 ELSE m.esc]

Diagnosed(r, text) ==
    /\ out' = [out EXCEPT ![r][Cohort[pos[r]]] = text]
    /\ pos' = [pos EXCEPT ![r] = @ + 1]
    /\ Goto(r, IF pos[r] = Len(Cohort) THEN "sample" ELSE "lookup")

\* diagnose_cohort, up to the cascade.
LookupHits(r) ==
    /\ At(r, "lookup") /\ Hit(Shape(r))
    /\ \E i \in Nearest(Shape(r)) : Diagnosed(r, semantic[i].answer)
    /\ meter' = [meter EXCEPT ![r] = Recorded(@, "cache")]
    /\ UNCHANGED <<answer, semantic, sampling, missedAt>>

LookupMisses(r) ==
    /\ At(r, "lookup") /\ ~Hit(Shape(r))
    /\ Goto(r, "cheap")
    /\ missedAt' = [missedAt EXCEPT ![r] = Len(semantic)]
    /\ UNCHANGED <<pos, answer, semantic, out, meter, sampling>>

\* cascade: the cheap role first, the large one when it is not confident; the
\* large role's answer is taken as it is.
AnswerCheap(r, settled, escalate) ==
    \E text \in Answers :
        \/ /\ text \in Confident
           /\ answer' = [answer EXCEPT ![r] = [text |-> text, role |-> "cheap"]]
           /\ Goto(r, settled)
        \/ /\ text \notin Confident
           /\ Goto(r, escalate) /\ UNCHANGED answer

AnswerLarge(r, settled) ==
    /\ \E text \in Answers :
          answer' = [answer EXCEPT ![r] = [text |-> text, role |-> "large"]]
    /\ Goto(r, settled)

Cascade(r) ==
    /\ \/ At(r, "cheap") /\ AnswerCheap(r, "put", "large")
       \/ At(r, "large") /\ AnswerLarge(r, "put")
    /\ UNCHANGED <<pos, semantic, out, meter, sampling, missedAt>>

\* SemanticCache.put and its commit.
Put(r) ==
    LET got == answer[r]
    IN /\ At(r, "put")
       /\ meter' = [meter EXCEPT ![r] = Recorded(@, got.role)]
       /\ semantic' = Append(semantic, [shape |-> Shape(r), answer |-> got.text,
                                        by |-> r, seen |-> missedAt[r]])
       /\ Diagnosed(r, got.text)
       /\ answer' = [answer EXCEPT ![r] = NoAnswer]
       /\ missedAt' = [missedAt EXCEPT ![r] = 0]
       /\ UNCHANGED sampling

\* The quality check: a new cascade and a forced large answer for each customer
\* of the sample, whichever those are.
AllSampled(r) == sampled[r] = SampleSize \/ sampled[r] = Len(Cohort)

Sample(r) ==
    /\ At(r, "sample") /\ ~AllSampled(r)
    /\ sampled' = [sampled EXCEPT ![r] = @ + 1]
    /\ Goto(r, "again")
    /\ UNCHANGED <<pos, answer, semantic, out, meter, agree, missedAt>>

CascadeAgain(r) ==
    /\ \/ At(r, "again") /\ AnswerCheap(r, "forced", "escalated")
       \/ At(r, "escalated") /\ AnswerLarge(r, "forced")
    /\ UNCHANGED <<pos, semantic, out, meter, sampling, missedAt>>

Compare(r) ==
    /\ At(r, "forced")
    /\ \E text \in Answers :
          agree' = IF TagOf[answer[r].text] = TagOf[text]
                   THEN [agree EXCEPT ![r] = @ + 1] ELSE agree
    /\ Goto(r, "sample") /\ answer' = [answer EXCEPT ![r] = NoAnswer]
    /\ UNCHANGED <<pos, semantic, out, meter, sampled, missedAt>>

\* With its process goes all that a command held.
Fresh(r) ==
    /\ answer' = [answer EXCEPT ![r] = NoAnswer]
    /\ out' = [out EXCEPT ![r] = [c \in CohortCustomers |-> NoAnswer]]
    /\ meter' = [meter EXCEPT ![r] = [n |-> 0, cheap |-> 0, hits |-> 0, esc |-> 0]]
    /\ sampled' = [sampled EXCEPT ![r] = 0] /\ agree' = [agree EXCEPT ![r] = 0]
    /\ missedAt' = [missedAt EXCEPT ![r] = 0] /\ pos' = [pos EXCEPT ![r] = 1]
    /\ UNCHANGED semantic

ReportEnds(r) ==
    /\ At(r, "sample") /\ AllSampled(r)
    /\ Goto(r, "reported") /\ Fresh(r)

\* The provider, or the database, raises, or the process is killed: no report.
ReportFails(r) ==
    /\ step[r] \notin EndStates \cup {"idle"}
    /\ Goto(r, "failed") /\ Fresh(r)

-----------------------------------------------------------------------------

CostInit ==
    /\ step = [r \in Reports |-> "idle"] /\ pos = [r \in Reports |-> 1]
    /\ answer = [r \in Reports |-> NoAnswer] /\ semantic = <<>>
    /\ out = [r \in Reports |-> [c \in CohortCustomers |-> NoAnswer]]
    /\ meter = [r \in Reports |-> [n |-> 0, cheap |-> 0, hits |-> 0, esc |-> 0]]
    /\ sampled = [r \in Reports |-> 0] /\ agree = [r \in Reports |-> 0]
    /\ missedAt = [r \in Reports |-> 0]

ReportStep(r) ==
    \/ StartReport(r) \/ LookupHits(r) \/ LookupMisses(r) \/ Cascade(r) \/ Put(r)
    \/ Sample(r) \/ CascadeAgain(r) \/ Compare(r) \/ ReportEnds(r) \/ ReportFails(r)

CostNext == \E r \in Reports : ReportStep(r)

CostSpec == CostInit /\ [][CostNext]_costVars

-----------------------------------------------------------------------------
(* Safety *)

\* cost/cache.py:3: reuse does not drift.  A diagnosis is an answer that an LLM
\* gave for a shape within the threshold of the customer's own.
NoDrift ==
    \A r \in Reports, c \in CohortCustomers : out[r][c] # NoAnswer =>
        \E row \in Rows : /\ row.answer = out[r][c]
                          /\ Similarity[ShapeOf[c]][row.shape] >= Threshold

\* graph/batch_diagnose.py:3: an answer is paid for once.  However reports fail and
\* are run again, a row within the threshold of an earlier one is another report's,
\* whose lookup was before that one's put.
PaidOnce ==
    \A i, j \in DOMAIN semantic :
        i < j => \/ Similarity[semantic[j].shape][semantic[i].shape] < Threshold
                 \/ semantic[j].seen < i /\ semantic[i].by # semantic[j].by

\* cost/meter.py:1: a report's rates add up to the cohort, and what is not a hit is
\* a row that this command has added.
MeterAddsUp ==
    \A r \in Reports :
        LET m == meter[r]
        IN /\ step[r] \in Sampling => m.n = Len(Cohort)
           /\ m.n = m.hits + m.cheap + m.esc
           /\ step[r] \notin EndStates => m.n - m.hits = Cardinality(OwnRows(r))

\* Reuse is sound: no drift, nothing paid twice but by reports side by side, and a
\* report of it that adds up.
ReuseIsSound == NoDrift /\ PaidOnce /\ MeterAddsUp
=============================================================================
