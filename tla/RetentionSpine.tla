--------------------------- MODULE RetentionSpine ---------------------------
(***************************************************************************)
(* The decision spine of the retention agent: the nodes of the LangGraph   *)
(* graph (graph/nodes.py, graph/build.py), run concurrently for several    *)
(* requests of one tenant over the tables FULFILLMENTS, GUARDRAIL_CONTACTS *)
(* and AUDIT_LOG (graph/tables.py).  Every statement that ends in a commit *)
(* is one step, so two runs interleave, and a run dies, between any two of *)
(* them.                                                                   *)
(*                                                                         *)
(* A run enters at one of four points: POST /api/run-one ("api"), the      *)
(* command run-one ("cli", the only one with the Postgres checkpointer),   *)
(* AgentPolicy.decide inside an experiment ("policy", always a shadow run) *)
(* and a confirmed chat offer ("chat"), which calls the Act node alone and *)
(* drops the audit entry it returns.                                       *)
(*                                                                         *)
(* The scores of the ML models, the answer of the LLM and the arm the      *)
(* bandit or the council picks are chosen nondeterministically among those *)
(* the code admits.  All tables and keys carry TENANT_ID; the module is    *)
(* one tenant's.                                                           *)
(***************************************************************************)
EXTENDS Integers, FiniteSets

CONSTANTS
    Runs,           \* invocations: a re-run of the same request is another run
    Customers,
    Campaigns,
    ApiCampaign,    \* "API-RUN-ONE"
    AgentCampaign,  \* GraphDeps.campaign_id, "AGENT-EXP"
    Arms,           \* the offers with a cost: Arm without NO_ACTION
    NoAction,       \* Arm.NO_ACTION
    None,           \* Python's None
    Cost, Floor,    \* per arm: euros and the margin that must remain after it
    Margin,         \* per customer: gross_margin_monthly
    Suits,          \* customer-arm pairs that pass the arm-specific rules
    Answers,        \* the eligible_offer_ids the LLM may return
    Consenting,     \* customers whose runs carry consent_flags["MARKETING"]
    ValueCap,       \* euros above which the verdict is NEEDS_APPROVAL
    FreqCapMax,     \* contacts allowed ...
    Window,         \* ... in this many time units (freq_cap_days)
    EntryPoints,    \* the entry points in use
    MaxActive,      \* bound: runs in flight at once
    MaxAborts,      \* bound: runs that die half-way
    MaxTime         \* bound: clock

AllEntryPoints == {"api", "cli", "policy", "chat"}

ASSUME SpineAssumption ==
    /\ Campaigns # {} /\ {ApiCampaign, AgentCampaign} \subseteq Campaigns
    /\ NoAction \notin Arms /\ None \notin Arms \cup {NoAction}
    /\ None \notin [entry : AllEntryPoints, customer : Customers,
                    campaign : Campaigns, holdout : BOOLEAN]
    /\ Cost \in [Arms -> Nat] /\ Floor \in [Arms -> Nat]
    /\ Margin \in [Customers -> Nat]
    /\ Answers \subseteq SUBSET (Arms \cup {NoAction}) /\ {} \in Answers
    /\ Suits \subseteq Customers \X Arms /\ Consenting \subseteq Customers
    /\ ValueCap \in Nat /\ FreqCapMax \in Nat /\ Window \in Nat
    /\ EntryPoints \subseteq AllEntryPoints
    /\ MaxActive \in Nat /\ MaxAborts \in Nat /\ MaxTime \in Nat

VARIABLES
    pc,            \* the node, or the commit inside Act, each run is at
    request,       \* the input of each run, None before it starts
    diagnosed,     \* Diagnosis.eligible_offer_ids
    offer,         \* OfferDecision.arm
    failed,        \* GuardrailVerdict.failed_policies
    already,       \* Act's local: was the fulfilment there before the insert?
    log,           \* OverallState.audit_log, the run's accumulated entries
    thread,        \* the checkpointer's audit_log per (customer, campaign)
    fulfillments,  \* FULFILLMENTS; by is the run whose INSERT made the row
    contacts,      \* GUARDRAIL_CONTACTS, a row per INSERT
    audit,         \* AUDIT_LOG; writer is the run whose persist_audit made it
    trained,       \* the runs whose reward the bandit posterior has absorbed
    now

locals == <<diagnosed, offer, failed, already>>
tables == <<fulfillments, contacts, audit>>
vars == <<pc, request, locals, log, thread, tables, trained, now>>

-----------------------------------------------------------------------------
(* Types *)

Nodes == {"SENSE", "DIAGNOSE", "DECIDE", "GUARDRAIL", "ACT", "OUTCOME"}
Decisions == {"PASS", "NEEDS_APPROVAL", "REJECT"}
ActStatuses == {"NO_ACTION", "SHADOW", "FULFILLED", "IDEMPOTENT_HIT"}
Statuses == Decisions \cup ActStatuses \cup {"OK"}
Policies == {"CONSENT", "FREQ_CAP", "MIN_MARGIN"}
Locations == {"idle", "sense", "diagnose", "decide", "guardrail", "act",
              "insert", "contact", "outcome", "persist", "done", "failed"}

Offers == Arms \cup {NoAction}
Request == [entry : AllEntryPoints, customer : Customers,
            campaign : Campaigns, holdout : BOOLEAN]
Entry == [by : Runs, node : Nodes, status : Statuses]
Threads == Customers \X Campaigns
Row == [customer : Customers, campaign : Campaigns, arm : Arms, by : Runs]
Contact == [run : Runs, customer : Customers, campaign : Campaigns, at : Nat]
AuditRow == [writer : Runs, by : Runs, node : Nodes, status : Statuses]

TypeOK ==
    /\ pc \in [Runs -> Locations]
    /\ request \in [Runs -> Request \cup {None}]
    /\ diagnosed \in [Runs -> SUBSET Offers]
    /\ offer \in [Runs -> Offers \cup {None}]
    /\ failed \in [Runs -> SUBSET Policies]
    /\ already \in [Runs -> BOOLEAN]
    /\ log \in [Runs -> SUBSET Entry]
    /\ thread \in [Threads -> SUBSET Entry]
    /\ fulfillments \subseteq Row
    /\ contacts \subseteq Contact
    /\ audit \subseteq AuditRow
    /\ trained \subseteq Runs
    /\ now \in Nat

-----------------------------------------------------------------------------
(* Helpers *)

InFlight == {r \in Runs : pc[r] \notin {"idle", "done", "failed"}}
Thread(r) == <<request[r].customer, request[r].campaign>>
IsChat(r) == request[r].entry = "chat"

\* OfferCatalog.eligible: margin-safe arms that suit the customer.
Eligible(c) ==
    {NoAction} \cup
    {a \in Arms : Margin[c] - Cost[a] >= Floor[a] /\ <<c, a>> \in Suits}

\* idempotency_key: what the hash is taken of.
KeyOf(r) == <<request[r].customer, request[r].campaign, offer[r]>>
RowKey(f) == <<f.customer, f.campaign, f.arm>>

\* fulfillment_for(...) is not None
Fulfilled(key) == \E f \in fulfillments : RowKey(f) = key

\* contacts_since(now - freq_cap_days)
ContactsSince(c, since) ==
    {x \in contacts : x.customer = c /\ x.at >= since}

\* One audit entry of a node; under the Postgres checkpointer the whole
\* channel is checkpointed after the node, the last writer of a thread wins.
LogNode(r, node, status) ==
    LET entries == log[r] \cup {[by |-> r, node |-> node, status |-> status]}
    IN /\ log' = [log EXCEPT ![r] = entries]
       /\ thread' = IF request[r].entry = "cli"
                    THEN [thread EXCEPT ![Thread(r)] = entries]
                    ELSE thread

Goto(r, loc) == pc' = [pc EXCEPT ![r] = loc]
At(r, loc) == pc[r] = loc

-----------------------------------------------------------------------------
(* Entry points *)

\* The input audit_log [] is appended to what the thread's checkpoint holds.
Start(r, req) ==
    /\ At(r, "idle")
    /\ Cardinality(InFlight) < MaxActive
    /\ req.entry \in EntryPoints
    /\ request' = [request EXCEPT ![r] = req]
    /\ log' = [log EXCEPT ![r] =
                  IF req.entry = "cli"
                  THEN thread[<<req.customer, req.campaign>>] ELSE {}]
    /\ UNCHANGED <<thread, tables, trained, now>>

StartApi(r, c) ==
    /\ Start(r, [entry |-> "api", customer |-> c,
                 campaign |-> ApiCampaign, holdout |-> FALSE])
    /\ Goto(r, "sense")
    /\ UNCHANGED locals

StartCli(r, c, camp, holdout) ==
    /\ Start(r, [entry |-> "cli", customer |-> c,
                 campaign |-> camp, holdout |-> holdout])
    /\ Goto(r, "sense")
    /\ UNCHANGED locals

\* AgentPolicy.decide forces holdout whatever the experiment's own split is.
StartPolicy(r, c) ==
    /\ Start(r, [entry |-> "policy", customer |-> c,
                 campaign |-> AgentCampaign, holdout |-> TRUE])
    /\ Goto(r, "sense")
    /\ UNCHANGED locals

\* A customer says yes to a rung of the ladder; a rung is any arm of the
\* catalog, the catalog's eligibility is not consulted.
StartChat(r, c, arm) ==
    /\ Start(r, [entry |-> "chat", customer |-> c,
                 campaign |-> AgentCampaign, holdout |-> FALSE])
    /\ Goto(r, "act")
    /\ offer' = [offer EXCEPT ![r] = arm]
    /\ UNCHANGED <<diagnosed, failed, already>>

Begin(r) ==
    \E c \in Customers :
        \/ StartApi(r, c)
        \/ \E camp \in Campaigns, holdout \in BOOLEAN :
              StartCli(r, c, camp, holdout)
        \/ StartPolicy(r, c)
        \/ \E arm \in Arms : StartChat(r, c, arm)

-----------------------------------------------------------------------------
(* The nodes *)

\* sense and should_engage: only a PERSUADABLE customer goes on.
Sense(r) ==
    /\ At(r, "sense")
    /\ \E engage \in BOOLEAN :
          Goto(r, IF engage THEN "diagnose" ELSE "persist")
    /\ LogNode(r, "SENSE", "OK")
    /\ UNCHANGED <<request, locals, tables, trained, now>>

\* One LLM call; when it fails the set of arms is empty.
Diagnose(r) ==
    /\ At(r, "diagnose")
    /\ \E ids \in Answers : diagnosed' = [diagnosed EXCEPT ![r] = ids]
    /\ Goto(r, "decide")
    /\ LogNode(r, "DIAGNOSE", "OK")
    /\ UNCHANGED <<request, offer, failed, already, tables, trained, now>>

\* The bandit or the System-2 council picks from the same set; the diagnosis
\* is not read again.
Candidates(r) ==
    LET both == Eligible(request[r].customer) \cap diagnosed[r]
    IN IF both = {} THEN {NoAction} ELSE both

Decide(r) ==
    /\ At(r, "decide")
    /\ \E arm \in Candidates(r) : offer' = [offer EXCEPT ![r] = arm]
    /\ diagnosed' = [diagnosed EXCEPT ![r] = {}]
    /\ Goto(r, "guardrail")
    /\ LogNode(r, "DECIDE", "OK")
    /\ UNCHANGED <<request, failed, already, tables, trained, now>>

OverCap(c) ==                 \* variant: the bound is off by one
    Cardinality(ContactsSince(c, now - Window)) > FreqCapMax

AtCap(c) == Cardinality(ContactsSince(c, now - Window)) >= FreqCapMax

Refuses(c) == FALSE           \* variant: an absent flag counts as consent

NoConsent(c) == c \notin Consenting

FailedPolicies(r) ==
    LET c == request[r].customer
    IN {p \in Policies :
          \/ p = "CONSENT" /\ NoConsent(c)
          \/ p = "FREQ_CAP" /\ AtCap(c)
          \/ p = "MIN_MARGIN" /\ Margin[c] - Cost[offer[r]] < Floor[offer[r]]}

Decision(fails, cost) ==
    IF fails # {} THEN "REJECT"
    ELSE IF cost > ValueCap THEN "NEEDS_APPROVAL" ELSE "PASS"

\* guardrail and guardrail_route: NEEDS_APPROVAL goes on to Act like PASS.
Guardrail(r) ==
    /\ At(r, "guardrail")
    /\ \/ /\ offer[r] = NoAction
          /\ Goto(r, "act")
          /\ LogNode(r, "GUARDRAIL", "PASS")
          /\ UNCHANGED failed
       \/ /\ offer[r] # NoAction
          /\ LET fails == FailedPolicies(r)
                 decision == Decision(fails, Cost[offer[r]])
             IN /\ failed' = [failed EXCEPT ![r] = fails]
                /\ Goto(r, IF decision = "REJECT" THEN "persist" ELSE "act")
                /\ LogNode(r, "GUARDRAIL", decision)
    /\ UNCHANGED <<request, diagnosed, offer, already, tables, trained, now>>

ActNoActionFulfils(r) ==      \* variant: the early return is missing
    /\ At(r, "act")
    /\ offer[r] = NoAction
    /\ Goto(r, "insert")
    /\ UNCHANGED <<request, locals, log, thread, tables, trained, now>>

\* Act up to its first query.
ActNoAction(r) ==
    /\ At(r, "act")
    /\ offer[r] = NoAction
    /\ Goto(r, "outcome")
    /\ LogNode(r, "ACT", "NO_ACTION")
    /\ UNCHANGED <<request, locals, tables, trained, now>>

ActShadow(r) ==
    /\ At(r, "act")
    /\ offer[r] # NoAction
    /\ request[r].holdout
    /\ Goto(r, "outcome")
    /\ LogNode(r, "ACT", "SHADOW")
    /\ UNCHANGED <<request, locals, tables, trained, now>>

ActLookupCampaign(r) ==       \* variant: the lookup leaves the arm out of the key
    /\ At(r, "act")
    /\ offer[r] # NoAction /\ ~request[r].holdout
    /\ already' = [already EXCEPT ![r] =
          \E f \in fulfillments : <<f.customer, f.campaign>> = Thread(r)]
    /\ Goto(r, "insert")
    /\ UNCHANGED <<request, diagnosed, offer, failed, log, thread, tables,
                   trained, now>>

\* already = fulfillment_for(...) is not None
ActLookup(r) ==
    /\ At(r, "act")
    /\ offer[r] # NoAction
    /\ ~request[r].holdout
    /\ already' = [already EXCEPT ![r] = Fulfilled(KeyOf(r))]
    /\ Goto(r, "insert")
    /\ UNCHANGED <<request, diagnosed, offer, failed, log, thread, tables,
                   trained, now>>

\* Where Act returns to: the graph goes on, a chat turn ends and the audit
\* entry of the node is dropped.
ActReturns(r, status) ==
    IF IsChat(r)
    THEN Goto(r, "done") /\ UNCHANGED <<log, thread>>
    ELSE Goto(r, "outcome") /\ LogNode(r, "ACT", status)

\* insert_fulfillment: INSERT ... ON CONFLICT DO NOTHING, then commit.
InsertedRow(r) ==
    [customer |-> request[r].customer, campaign |-> request[r].campaign,
     arm |-> offer[r], by |-> r]

AfterPlainInsert(r) ==        \* variant: no unique key, no ON CONFLICT
    IF already[r] THEN fulfillments ELSE fulfillments \cup {InsertedRow(r)}

AfterInsert(r) ==
    IF Fulfilled(KeyOf(r)) THEN fulfillments
    ELSE fulfillments \cup {InsertedRow(r)}

ActInsert(r) ==
    /\ At(r, "insert")
    /\ fulfillments' = AfterInsert(r)
    /\ IF already[r] THEN ActReturns(r, "IDEMPOTENT_HIT")
       ELSE Goto(r, "contact") /\ UNCHANGED <<log, thread>>
    /\ UNCHANGED <<request, locals, contacts, audit, trained, now>>

\* record_contact: INSERT, then commit.
ContactRow(r) ==
    [run |-> r, customer |-> request[r].customer,
     campaign |-> request[r].campaign, at |-> now]

ActContact(r) ==
    /\ At(r, "contact")
    /\ contacts' = contacts \cup {ContactRow(r)}
    /\ ActReturns(r, "FULFILLED")
    /\ UNCHANGED <<request, locals, fulfillments, audit, trained, now>>

\* The posterior learns from every offer of a run that is not a shadow run.
Outcome(r) ==
    /\ At(r, "outcome")
    /\ trained' = IF ~request[r].holdout /\ offer[r] # NoAction
                  THEN trained \cup {r} ELSE trained
    /\ Goto(r, "persist")
    /\ LogNode(r, "OUTCOME", "OK")
    /\ UNCHANGED <<request, locals, tables, now>>

NoRows(r, entries) == {}      \* variant: the commit is missing

\* persist_audit: an INSERT per entry and one commit.
RowsOf(r, entries) ==
    {[writer |-> r, by |-> e.by, node |-> e.node, status |-> e.status] :
        e \in entries}

PersistAudit(r) ==
    /\ At(r, "persist")
    /\ audit' = audit \cup RowsOf(r, log[r])
    /\ log' = [log EXCEPT ![r] = {}]
    /\ Goto(r, "done")
    /\ UNCHANGED <<request, locals, thread, fulfillments, contacts, trained, now>>

-----------------------------------------------------------------------------
(* Failures and time *)

MayAbort == Cardinality({r \in Runs : pc[r] = "failed"}) < MaxAborts

\* The process dies, or a database call raises and ends the run.
Abort(r) ==
    /\ r \in InFlight
    /\ MayAbort
    /\ log' = [log EXCEPT ![r] = {}]
    /\ Goto(r, "failed")
    /\ UNCHANGED <<request, locals, thread, tables, trained, now>>

PositionFromLast(node) ==     \* variant: the log is flushed newest first
    CASE node = "SENSE" -> 6 [] node = "DIAGNOSE" -> 5 [] node = "DECIDE" -> 4
      [] node = "GUARDRAIL" -> 3 [] node = "ACT" -> 2 [] OTHER -> 1

\* Where an entry stands in the log: the order persist_audit inserts in.
Position(node) ==
    CASE node = "SENSE" -> 1 [] node = "DIAGNOSE" -> 2 [] node = "DECIDE" -> 3
      [] node = "GUARDRAIL" -> 4 [] node = "ACT" -> 5 [] OTHER -> 6

\* The API runs of a tenant share one connection, so the commit of another
\* run makes the entries persist_audit has inserted so far durable: a death
\* then leaves the log's first entries in the table.
AbortMidPersist(r) ==
    /\ At(r, "persist")
    /\ MayAbort
    /\ request[r].entry = "api"
    /\ \E other \in InFlight \ {r} : request[other].entry = "api"
    /\ \E upTo \in 1..5 :
          audit' = audit \cup
                   RowsOf(r, {e \in log[r] : Position(e.node) <= upTo})
    /\ log' = [log EXCEPT ![r] = {}]
    /\ Goto(r, "failed")
    /\ UNCHANGED <<request, locals, thread, fulfillments, contacts, trained, now>>

Tick ==
    /\ now < MaxTime
    /\ now' = now + 1
    /\ UNCHANGED <<pc, request, locals, log, thread, tables, trained>>

-----------------------------------------------------------------------------

Init ==
    /\ pc = [r \in Runs |-> "idle"]
    /\ request = [r \in Runs |-> None]
    /\ diagnosed = [r \in Runs |-> {}]
    /\ offer = [r \in Runs |-> None]
    /\ failed = [r \in Runs |-> {}]
    /\ already = [r \in Runs |-> FALSE]
    /\ log = [r \in Runs |-> {}]
    /\ thread = [t \in Threads |-> {}]
    /\ fulfillments = {} /\ contacts = {} /\ audit = {}
    /\ trained = {}
    /\ now = 0

Step(r) ==
    \/ Sense(r) \/ Diagnose(r) \/ Decide(r) \/ Guardrail(r)
    \/ ActNoAction(r) \/ ActShadow(r) \/ ActLookup(r)
    \/ ActInsert(r) \/ ActContact(r)
    \/ Outcome(r) \/ PersistAudit(r)

Next ==
    \/ \E r \in Runs : Begin(r) \/ Step(r) \/ Abort(r) \/ AbortMidPersist(r)
    \/ Tick

Spec == Init /\ [][Next]_vars

\* A run that started is a synchronous call on a live thread: it goes on.
FairSpec == Spec /\ \A r \in Runs : WF_vars(Step(r))

-----------------------------------------------------------------------------
(* Safety.  The invariants are conjunctions over the runs, stated on the   *)
(* tables as a query on the database would see them.                       *)

KeyOfContact(x) == <<x.customer, x.campaign, offer[x.run]>>
Contacted(r) == \E x \in contacts : x.run = r

\* A fulfilment is never left without its contact by a run that is alive: the
\* run whose INSERT made the row did not see it before, so it goes on to
\* record_contact (nodes.act).  Only a run that died in between leaves one.
InserterContacts ==
    \A f \in fulfillments :
        Contacted(f.by) \/ pc[f.by] \in {"contact", "failed"}

\* A contact counts against the cap of a customer only if the offer it is
\* about was fulfilled (nodes.act inserts before it records).
ContactBacked == \A x \in contacts : Fulfilled(KeyOfContact(x))

\* What the graph fulfils has passed its gates, whoever else writes in the
\* meantime: consent, the margin floor and no failed policy; and a shadow run
\* leaves no fulfilment, no contact and no trace in the bandit
\* (nodes.guardrail, guardrail_route, act, outcome).
GatedFulfilment ==
    /\ \A f \in fulfillments : ~IsChat(f.by) =>
          /\ f.customer \in Consenting
          /\ Margin[f.customer] - Cost[f.arm] >= Floor[f.arm]
          /\ failed[f.by] = {}
    /\ \A r \in Runs : request[r] # None /\ request[r].holdout =>
          ~Contacted(r) /\ r \notin trained /\ \A f \in fulfillments : f.by # r

\* The margin policy of the guardrail never fires on an offer the graph
\* decided: decide picks from the catalog's margin-safe arms.
MarginGateRedundant == \A r \in Runs : "MIN_MARGIN" \notin failed[r]

\* The guardrail counts the contacts when it runs and Act adds one later, so
\* runs in flight together may all pass; but never more of them than fit:
\* in every window the graph contacts a customer at most FreqCapMax times
\* plus once for each other run that can be in flight.
FrequencyCapUpToOverlap ==
    \A x \in contacts :
        Cardinality({y \in contacts :
                        /\ y.customer = x.customer /\ ~IsChat(y.run)
                        /\ x.at - Window <= y.at /\ y.at <= x.at})
        <= FreqCapMax + MaxActive - 1

\* scan_guardrail_compliance returns []: a customer with an Act entry
\* FULFILLED or IDEMPOTENT_HIT in AUDIT_LOG has an approving GUARDRAIL entry
\* there, even after a run died half-way.
Approved == {"PASS", "NEEDS_APPROVAL"}
Acted == {"FULFILLED", "IDEMPOTENT_HIT"}
GuardrailCompliance ==
    \A a \in audit : a.node = "ACT" /\ a.status \in Acted =>
        \E g \in audit :
            /\ g.node = "GUARDRAIL" /\ g.status \in Approved
            /\ request[g.by].customer = request[a.by].customer

\* The audit trail and the ledger agree: see OfferLedger.
Keys == Customers \X Campaigns \X Arms
LedgerReports(rows) ==
    {<<KeyOf(a.by), a.by, a.status = "FULFILLED">> :
        a \in {b \in rows : b.node = "ACT" /\ b.status \in Acted}}
Ledger == INSTANCE OfferLedger WITH
    granted <- {<<RowKey(f), f.by>> : f \in fulfillments},
    notices <- {<<KeyOfContact(x), x.run>> : x \in contacts},
    reports <- LedgerReports(audit)
ImplementsLedger == Ledger!Spec

-----------------------------------------------------------------------------
(* Liveness, under FairSpec. *)

\* Every fulfilment the graph makes is accounted for in AUDIT_LOG in the end,
\* by a FULFILLED or IDEMPOTENT_HIT entry of its own run, unless the run dies
\* between the commit of the row and persist_audit.
FulfilmentAudited ==
    \A r \in Runs :
        (\E f \in fulfillments : f.by = r /\ ~IsChat(r))
            ~> \/ \E a \in audit : a.by = r /\ a.node = "ACT" /\ a.status \in Acted
               \/ pc[r] = "failed"

-----------------------------------------------------------------------------
(* What the repository says and the code does not do. *)

\* graph/build.py:117: persist_audit flushes "one row per node run".
OneAuditRowPerNodeRun ==
    \A a, b \in audit : a.by = b.by /\ a.node = b.node => a = b

\* evalx/hardchecks.py:109: a SHADOW entry and a FULFILLMENTS row of one
\* customer are "mutually exclusive by construction".
HoldoutPurity ==
    \A a \in audit, f \in fulfillments :
        a.node = "ACT" /\ a.status = "SHADOW"
            => request[a.by].customer # f.customer
=============================================================================
