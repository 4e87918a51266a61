------------------------ MODULE RetentionSpine_proofs ------------------------
(***************************************************************************)
(* Proofs about RetentionSpine, for every set of runs, customers, arms and *)
(* campaigns and every bound.  SpineInv is the inductive invariant, CapInv *)
(* that of the frequency cap.                                              *)
(***************************************************************************)
EXTENDS RetentionSpine, FiniteSetTheorems, TLAPS

BeforeOffer == {"idle", "sense", "diagnose", "decide"}
InAct == {"act", "insert", "contact"}
PastAct == {"outcome", "persist", "done", "failed"}

-----------------------------------------------------------------------------
(* The inductive invariant *)

HasVerdict(entries, r) ==
    \E g \in entries : g.by = r /\ g.node = "GUARDRAIL" /\ g.status \in Approved
IsActed(e) == e.node = "ACT" /\ e.status \in Acted

\* A run's location and its locals go together.
RunInv ==
    \A r \in Runs :
        /\ pc[r] = "idle" <=> request[r] = None
        /\ pc[r] \in BeforeOffer => offer[r] = None
        /\ pc[r] \in {"guardrail", "outcome"} \cup InAct => offer[r] \in Offers
        /\ pc[r] \in {"insert", "contact"} =>
              offer[r] \in Arms /\ ~request[r].holdout
        /\ pc[r] \in BeforeOffer \cup {"guardrail"} => failed[r] = {}

\* The graph's offers come from the catalog and reach Act only approved.
GateInv ==
    \A r \in Runs :
        /\ "MIN_MARGIN" \notin failed[r]
        /\ request[r] # None /\ IsChat(r) =>
              pc[r] \notin BeforeOffer \cup {"guardrail"}
        /\ request[r] # None /\ ~IsChat(r) =>
              /\ offer[r] # None => offer[r] \in Eligible(request[r].customer)
              /\ pc[r] \in InAct \cup {"outcome"} =>
                    failed[r] = {} /\ (offer[r] \in Arms =>
                                          request[r].customer \in Consenting)
              /\ pc[r] \in InAct => HasVerdict(log[r], r)

\* The rows are those of their runs.
RowInv ==
    \A f \in fulfillments :
        /\ request[f.by] # None /\ ~request[f.by].holdout
        /\ RowKey(f) = KeyOf(f.by)
        /\ pc[f.by] \in {"contact"} \cup PastAct
        /\ Contacted(f.by) \/ pc[f.by] \in {"contact", "failed"}
        /\ ~IsChat(f.by) => f.customer \in Consenting /\ failed[f.by] = {}

ContactInv ==
    \A x \in contacts :
        /\ request[x.run] # None /\ ~request[x.run].holdout
        /\ KeyOfContact(x) = KeyOf(x.run)
        /\ pc[x.run] \in PastAct
        /\ Fulfilled(KeyOf(x.run))

\* What Act remembers of the ledger stays true: rows are never removed.
LookupInv ==
    /\ \A r \in Runs : (pc[r] = "insert" /\ already[r]) \/ pc[r] = "contact"
                          => Fulfilled(KeyOf(r))
    /\ \A r \in trained : request[r] # None /\ ~request[r].holdout

\* Every audit entry is true, wherever a copy of it is kept ...
EntryTrue(e) ==
    /\ request[e.by] # None
    /\ IsActed(e) =>
          /\ pc[e.by] \in PastAct
          /\ Fulfilled(KeyOf(e.by))
          /\ e.status = "FULFILLED" => Contacted(e.by)

EntryInv ==
    /\ \A r \in Runs : \A e \in log[r] : EntryTrue(e)
    /\ \A t \in Threads : \A e \in thread[t] : EntryTrue(e)
    /\ \A a \in audit : EntryTrue(a)

\* ... and no copy of a log holds an Act entry without its verdict.
VerdictClosed(entries) ==
    \A e \in entries : IsActed(e) => HasVerdict(entries, e.by)

VerdictInv ==
    /\ \A r \in Runs : VerdictClosed(log[r])
    /\ \A t \in Threads : VerdictClosed(thread[t])
    /\ VerdictClosed(audit)

SpineInv ==
    /\ TypeOK /\ RunInv /\ GateInv /\ RowInv /\ ContactInv /\ LookupInv
    /\ EntryInv /\ VerdictInv

-----------------------------------------------------------------------------
(* Types *)

LEMMA TypeInit == Init => TypeOK
BY SpineAssumption DEF Init, TypeOK, Locations, Threads

\* What the actions do to the log is typed.
LEMMA LogNodeType ==
    ASSUME TypeOK, NEW r \in Runs, NEW node \in Nodes, NEW status \in Statuses,
           LogNode(r, node, status)
    PROVE  /\ log' \in [Runs -> SUBSET Entry]
           /\ thread' \in [Threads -> SUBSET Entry]
<1> DEFINE entries == log[r] \cup {[by |-> r, node |-> node, status |-> status]}
<1>1. entries \in SUBSET Entry
  BY DEF TypeOK, Entry
<1>2. log' = [log EXCEPT ![r] = entries]
  BY DEF LogNode
<1>3. thread' = thread \/ thread' = [thread EXCEPT ![Thread(r)] = entries]
  BY DEF LogNode
<1> QED
  BY <1>1, <1>2, <1>3 DEF TypeOK

LEMMA StartType ==
    ASSUME TypeOK, NEW r \in Runs, NEW req \in Request, Start(r, req)
    PROVE  /\ request' \in [Runs -> Request \cup {None}]
           /\ log' \in [Runs -> SUBSET Entry]
<1>1. <<req.customer, req.campaign>> \in Threads
  BY DEF Request, Threads
<1>2. thread[<<req.customer, req.campaign>>] \in SUBSET Entry
  BY <1>1 DEF TypeOK
<1> QED
  BY <1>2 DEF TypeOK, Start

\* What the four entry points have in common, and how chat differs.
LEMMA BeginCases ==
    ASSUME NEW r \in Runs, Begin(r)
    PROVE  \E req \in Request :
              /\ Start(r, req)
              /\ UNCHANGED <<diagnosed, failed, already>>
              /\ \/ /\ req.entry # "chat" /\ Goto(r, "sense")
                    /\ offer' = offer
                 \/ /\ req.entry = "chat" /\ Goto(r, "act") /\ ~req.holdout
                    /\ \E arm \in Arms : offer' = [offer EXCEPT ![r] = arm]
<1>1. PICK c \in Customers :
        \/ StartApi(r, c)
        \/ \E camp \in Campaigns, holdout \in BOOLEAN :
              StartCli(r, c, camp, holdout)
        \/ StartPolicy(r, c)
        \/ \E arm \in Arms : StartChat(r, c, arm)
  BY DEF Begin
<1>2. CASE StartApi(r, c)
  <2>1. Start(r, [entry |-> "api", customer |-> c,
                  campaign |-> ApiCampaign, holdout |-> FALSE])
        /\ Goto(r, "sense") /\ UNCHANGED locals
    BY <1>2 DEF StartApi
  <2>2. [entry |-> "api", customer |-> c,
         campaign |-> ApiCampaign, holdout |-> FALSE] \in Request
    BY SpineAssumption DEF Request, AllEntryPoints
  <2> QED BY <2>1, <2>2 DEF locals
<1>3. ASSUME NEW camp \in Campaigns, NEW holdout \in BOOLEAN,
             StartCli(r, c, camp, holdout)
      PROVE  \E req \in Request :
                /\ Start(r, req)
                /\ UNCHANGED <<diagnosed, failed, already>>
                /\ req.entry # "chat" /\ Goto(r, "sense") /\ offer' = offer
  <2>1. Start(r, [entry |-> "cli", customer |-> c,
                  campaign |-> camp, holdout |-> holdout])
        /\ Goto(r, "sense") /\ UNCHANGED locals
    BY <1>3 DEF StartCli
  <2>2. [entry |-> "cli", customer |-> c,
         campaign |-> camp, holdout |-> holdout] \in Request
    BY DEF Request, AllEntryPoints
  <2> QED BY <2>1, <2>2 DEF locals
<1>4. CASE StartPolicy(r, c)
  <2>1. Start(r, [entry |-> "policy", customer |-> c,
                  campaign |-> AgentCampaign, holdout |-> TRUE])
        /\ Goto(r, "sense") /\ UNCHANGED locals
    BY <1>4 DEF StartPolicy
  <2>2. [entry |-> "policy", customer |-> c,
         campaign |-> AgentCampaign, holdout |-> TRUE] \in Request
    BY SpineAssumption DEF Request, AllEntryPoints
  <2> QED BY <2>1, <2>2 DEF locals
<1>5. ASSUME NEW arm \in Arms, StartChat(r, c, arm)
      PROVE  \E req \in Request :
                /\ Start(r, req)
                /\ UNCHANGED <<diagnosed, failed, already>>
                /\ req.entry = "chat" /\ Goto(r, "act") /\ ~req.holdout
                /\ offer' = [offer EXCEPT ![r] = arm]
  <2>1. Start(r, [entry |-> "chat", customer |-> c,
                  campaign |-> AgentCampaign, holdout |-> FALSE])
        /\ Goto(r, "act") /\ offer' = [offer EXCEPT ![r] = arm]
        /\ UNCHANGED <<diagnosed, failed, already>>
    BY <1>5 DEF StartChat
  <2>2. [entry |-> "chat", customer |-> c,
         campaign |-> AgentCampaign, holdout |-> FALSE] \in Request
    BY SpineAssumption DEF Request, AllEntryPoints
  <2> QED BY <2>1, <2>2
<1> QED BY <1>1, <1>2, <1>3, <1>4, <1>5

LEMMA TypeBegin ==
    ASSUME TypeOK, NEW r \in Runs, Begin(r)
    PROVE  TypeOK'
<1>1. PICK req \in Request :
        /\ Start(r, req)
        /\ UNCHANGED <<diagnosed, failed, already>>
        /\ \/ /\ req.entry # "chat" /\ Goto(r, "sense")
              /\ offer' = offer
           \/ /\ req.entry = "chat" /\ Goto(r, "act") /\ ~req.holdout
              /\ \E arm \in Arms : offer' = [offer EXCEPT ![r] = arm]
  BY BeginCases
<1>2. /\ request' \in [Runs -> Request \cup {None}]
      /\ log' \in [Runs -> SUBSET Entry]
      /\ UNCHANGED <<thread, tables, trained, now>>
  BY <1>1, StartType DEF Start
<1>3. pc' \in [Runs -> Locations] /\ offer' \in [Runs -> Offers \cup {None}]
  BY <1>1 DEF TypeOK, Goto, Locations, Offers
<1> QED
  BY <1>1, <1>2, <1>3 DEF TypeOK, tables

\* A run that has started has a request.
LEMMA StartedRequest ==
    ASSUME TypeOK, RunInv, NEW r \in Runs, pc[r] # "idle"
    PROVE  request[r] \in Request
BY DEF TypeOK, RunInv

LEMMA TypeStep ==
    ASSUME TypeOK, RunInv, NEW r \in Runs, Step(r)
    PROVE  TypeOK'
<1> USE DEF TypeOK, At, Goto, locals, tables
<1>1. CASE Sense(r)
  BY <1>1, LogNodeType DEF Sense, Nodes, Statuses, Locations
<1>2. CASE Diagnose(r)
  BY <1>2, LogNodeType, SpineAssumption
  DEF Diagnose, Nodes, Statuses, Locations, Offers
<1>3. CASE Decide(r)
  <2>1. Candidates(r) \subseteq Offers
    BY DEF Candidates, Eligible, Offers
  <2> QED
    BY <1>3, <2>1, LogNodeType DEF Decide, Nodes, Statuses, Locations
<1>4. CASE Guardrail(r)
  <2>1. FailedPolicies(r) \subseteq Policies
    BY DEF FailedPolicies
  <2>2. Decision(FailedPolicies(r), Cost[offer[r]]) \in Statuses
    BY DEF Decision, Statuses, Decisions
  <2>3. CASE offer[r] = NoAction
    BY <1>4, <2>3, LogNodeType
    DEF Guardrail, Nodes, Statuses, Decisions, Locations
  <2>4. CASE offer[r] # NoAction
    BY <1>4, <2>1, <2>2, <2>4, LogNodeType DEF Guardrail, Nodes, Locations
  <2> QED BY <2>3, <2>4
<1>5. CASE ActNoAction(r)
  BY <1>5, LogNodeType DEF ActNoAction, Nodes, Statuses, ActStatuses, Locations
<1>6. CASE ActShadow(r)
  BY <1>6, LogNodeType DEF ActShadow, Nodes, Statuses, ActStatuses, Locations
<1>7. CASE ActLookup(r)
  BY <1>7 DEF ActLookup, Fulfilled, Locations
<1>8. CASE ActInsert(r)
  <2>1. offer[r] \in Arms /\ request[r] \in Request
    BY <1>8, StartedRequest DEF ActInsert, RunInv
  <2>2. InsertedRow(r) \in Row
    BY <2>1 DEF InsertedRow, Row, Request
  <2>3. /\ pc' \in [Runs -> Locations]
        /\ log' \in [Runs -> SUBSET Entry]
        /\ thread' \in [Threads -> SUBSET Entry]
    BY <1>8, LogNodeType
    DEF ActInsert, ActReturns, Nodes, Statuses, ActStatuses, Locations
  <2> QED
    BY <1>8, <2>2, <2>3 DEF ActInsert, AfterInsert
<1>9. CASE ActContact(r)
  <2>1. ContactRow(r) \in Contact
    BY <1>9, StartedRequest DEF ActContact, ContactRow, Contact, Request
  <2>2. /\ pc' \in [Runs -> Locations]
        /\ log' \in [Runs -> SUBSET Entry]
        /\ thread' \in [Threads -> SUBSET Entry]
    BY <1>9, LogNodeType
    DEF ActContact, ActReturns, Nodes, Statuses, ActStatuses, Locations
  <2> QED
    BY <1>9, <2>1, <2>2 DEF ActContact
<1>10. CASE Outcome(r)
  BY <1>10, LogNodeType DEF Outcome, Nodes, Statuses, Locations
<1>11. CASE PersistAudit(r)
  <2>1. RowsOf(r, log[r]) \subseteq AuditRow
    BY DEF RowsOf, AuditRow, Entry
  <2> QED
    BY <1>11, <2>1 DEF PersistAudit, Locations
<1> QED
  BY <1>1, <1>2, <1>3, <1>4, <1>5, <1>6, <1>7, <1>8, <1>9, <1>10, <1>11 DEF Step

LEMMA TypeFailure ==
    ASSUME TypeOK, NEW r \in Runs, Abort(r) \/ AbortMidPersist(r)
    PROVE  TypeOK'
<1>1. CASE Abort(r)
  BY <1>1 DEF Abort, TypeOK, Goto, locals, tables, Locations
<1>2. CASE AbortMidPersist(r)
  <2>1. PICK upTo \in 1..5 :
          audit' = audit \cup
                   RowsOf(r, {e \in log[r] : Position(e.node) <= upTo})
    BY <1>2 DEF AbortMidPersist
  <2>2. audit' \subseteq AuditRow
    BY <2>1 DEF RowsOf, AuditRow, Entry, TypeOK
  <2> QED
    BY <1>2, <2>2 DEF AbortMidPersist, TypeOK, Goto, locals, Locations
<1> QED BY <1>1, <1>2

LEMMA TypeNext == TypeOK /\ RunInv /\ [Next]_vars => TypeOK'
<1> SUFFICES ASSUME TypeOK, RunInv, [Next]_vars PROVE TypeOK'
  OBVIOUS
<1>1. CASE Tick
  BY <1>1 DEF Tick, TypeOK, locals, tables
<1>2. CASE UNCHANGED vars
  BY <1>2 DEF vars, TypeOK, locals, tables
<1> QED
  BY <1>1, <1>2, TypeBegin, TypeStep, TypeFailure DEF Next

-----------------------------------------------------------------------------
(* What no step takes back *)

\* Requests are fixed, Act is left for good, and the ledger only grows.
Stable ==
    /\ \A r \in Runs : request[r] # None => request'[r] = request[r]
    /\ \A r \in Runs : pc[r] \in PastAct => pc'[r] \in PastAct
    /\ \A r \in Runs : pc[r] \in InAct \cup PastAct =>
          offer'[r] = offer[r] /\ failed'[r] = failed[r]
    /\ \A r \in Runs : pc[r] = "failed" => pc'[r] = "failed"
    /\ \A r \in Runs : pc[r] = "contact" =>
          \/ pc'[r] \in {"contact", "failed"}
          \/ pc'[r] \in PastAct /\ \E x \in contacts' : x.run = r
    /\ fulfillments \subseteq fulfillments'
    /\ contacts \subseteq contacts'

LEMMA StableNext == TypeOK /\ RunInv /\ [Next]_vars => Stable
<1> SUFFICES ASSUME TypeOK, RunInv, [Next]_vars PROVE Stable
  OBVIOUS
<1> USE DEF Stable, PastAct, InAct, At, Goto, locals, tables
<1>1. ASSUME NEW r \in Runs, Begin(r) PROVE Stable
  <2>1. pc[r] = "idle" /\ request[r] = None
    BY <1>1
    DEF Begin, StartApi, StartCli, StartPolicy, StartChat, Start, RunInv
  <2>2. \A q \in Runs \ {r} : /\ pc'[q] = pc[q] /\ request'[q] = request[q]
                               /\ offer'[q] = offer[q] /\ failed'[q] = failed[q]
    <3>1. /\ \E loc \in {"sense", "act"} : pc' = [pc EXCEPT ![r] = loc]
          /\ \E req : request' = [request EXCEPT ![r] = req]
          /\ offer' = offer \/ \E arm : offer' = [offer EXCEPT ![r] = arm]
          /\ failed' = failed
      BY <1>1 DEF Begin, StartApi, StartCli, StartPolicy, StartChat, Start
    <3> QED BY <3>1 DEF TypeOK
  <2>3. UNCHANGED <<fulfillments, contacts>>
    BY <1>1 DEF Begin, StartApi, StartCli, StartPolicy, StartChat, Start
  <2> QED BY <2>1, <2>2, <2>3
<1>2. ASSUME NEW r \in Runs, Step(r) PROVE Stable
  <2> USE DEF TypeOK, ActReturns, AfterInsert
  <2>1. CASE Sense(r) BY <2>1 DEF Sense
  <2>2. CASE Diagnose(r) BY <2>2 DEF Diagnose
  <2>3. CASE Decide(r) BY <2>3 DEF Decide
  <2>4. CASE Guardrail(r)
    <3>1. /\ pc[r] = "guardrail"
          /\ \E loc \in {"persist", "act"} : pc' = [pc EXCEPT ![r] = loc]
          /\ failed' = failed \/ failed' = [failed EXCEPT ![r] = FailedPolicies(r)]
          /\ UNCHANGED <<request, offer, fulfillments, contacts>>
      BY <2>4 DEF Guardrail
    <3> QED BY <3>1
  <2>5. CASE ActNoAction(r) BY <2>5 DEF ActNoAction
  <2>6. CASE ActShadow(r) BY <2>6 DEF ActShadow
  <2>7. CASE ActLookup(r) BY <2>7 DEF ActLookup
  <2>8. CASE ActInsert(r) BY <2>8 DEF ActInsert
  <2>9. CASE ActContact(r)
    <3>1. /\ pc[r] = "contact"
          /\ \E loc \in {"outcome", "done"} : pc' = [pc EXCEPT ![r] = loc]
          /\ contacts' = contacts \cup {ContactRow(r)}
          /\ UNCHANGED <<request, offer, failed, fulfillments>>
      BY <2>9 DEF ActContact
    <3>2. ContactRow(r).run = r
      BY DEF ContactRow
    <3> QED BY <3>1, <3>2
  <2>10. CASE Outcome(r) BY <2>10 DEF Outcome
  <2>11. CASE PersistAudit(r) BY <2>11 DEF PersistAudit
  <2> QED
    BY <1>2, <2>1, <2>2, <2>3, <2>4, <2>5, <2>6, <2>7, <2>8, <2>9, <2>10,
       <2>11 DEF Step
<1>3. ASSUME NEW r \in Runs, Abort(r) \/ AbortMidPersist(r) PROVE Stable
  BY <1>3 DEF Abort, AbortMidPersist, TypeOK
<1>4. CASE Tick
  BY <1>4 DEF Tick
<1>5. CASE UNCHANGED vars
  BY <1>5 DEF vars
<1> QED
  BY <1>1, <1>2, <1>3, <1>4, <1>5 DEF Next

\* A fact of the ledger, once true of a run that has acted, stays true.
LEMMA FulfilledStable ==
    ASSUME Stable, NEW r \in Runs, request[r] # None,
           pc[r] \in InAct \cup PastAct, Fulfilled(KeyOf(r))
    PROVE  Fulfilled(KeyOf(r))'
BY DEF Stable, Fulfilled, KeyOf, RowKey

LEMMA EntryTrueStable ==
    ASSUME TypeOK, Stable, NEW e, e.by \in Runs, EntryTrue(e)
    PROVE  EntryTrue(e)'
<1>1. request'[e.by] # None
  BY DEF Stable, EntryTrue
<1>2. ASSUME IsActed(e)
      PROVE  /\ pc'[e.by] \in PastAct
             /\ Fulfilled(KeyOf(e.by))'
             /\ e.status = "FULFILLED" => \E x \in contacts' : x.run = e.by
  BY <1>2, FulfilledStable DEF Stable, EntryTrue, Contacted
<1> QED BY <1>1, <1>2 DEF EntryTrue, Contacted

-----------------------------------------------------------------------------
(* The run-local parts of the invariant *)

LEMMA RunInvNext == TypeOK /\ RunInv /\ [Next]_vars => RunInv'
<1> SUFFICES ASSUME TypeOK, RunInv, [Next]_vars PROVE RunInv'
  OBVIOUS
<1> USE DEF RunInv, BeforeOffer, InAct, At, Goto, locals
<1>1. ASSUME NEW r \in Runs, Begin(r) PROVE RunInv'
  <2> USE DEF TypeOK
  <2>1. PICK req \in Request :
          /\ Start(r, req)
          /\ UNCHANGED <<diagnosed, failed, already>>
          /\ \/ /\ req.entry # "chat" /\ Goto(r, "sense")
                /\ offer' = offer
             \/ /\ req.entry = "chat" /\ Goto(r, "act") /\ ~req.holdout
                /\ \E arm \in Arms : offer' = [offer EXCEPT ![r] = arm]
    BY <1>1, BeginCases
  <2>2. pc[r] = "idle" /\ request' = [request EXCEPT ![r] = req]
    BY <2>1 DEF Start
  <2>3. None \notin Request
    BY SpineAssumption DEF Request
  <2> QED BY <2>1, <2>2, <2>3 DEF Offers
<1>2. ASSUME NEW r \in Runs, Step(r) PROVE RunInv'
  <2> USE DEF TypeOK, ActReturns, PastAct
  <2>1. CASE Sense(r) BY <2>1 DEF Sense
  <2>2. CASE Diagnose(r) BY <2>2 DEF Diagnose
  <2>3. CASE Decide(r)
    <3>1. Candidates(r) \subseteq Offers /\ None \notin Candidates(r)
      BY SpineAssumption DEF Candidates, Eligible, Offers
    <3> QED BY <2>3, <3>1 DEF Decide
  <2>4. CASE Guardrail(r)
    <3>1. CASE offer[r] = NoAction BY <2>4, <3>1 DEF Guardrail
    <3>2. CASE offer[r] # NoAction
      <4>1. \E loc \in {"persist", "act"} : pc' = [pc EXCEPT ![r] = loc]
        BY <2>4, <3>2 DEF Guardrail
      <4>2. /\ pc[r] = "guardrail"
            /\ failed' = [failed EXCEPT ![r] = FailedPolicies(r)]
            /\ UNCHANGED <<request, offer>>
        BY <2>4, <3>2 DEF Guardrail
      <4> QED BY <4>1, <4>2
    <3> QED BY <3>1, <3>2
  <2>5. CASE ActNoAction(r) BY <2>5 DEF ActNoAction
  <2>6. CASE ActShadow(r) BY <2>6 DEF ActShadow
  <2>7. CASE ActLookup(r) BY <2>7 DEF ActLookup, Offers
  <2>8. CASE ActInsert(r) BY <2>8 DEF ActInsert, Offers
  <2>9. CASE ActContact(r) BY <2>9 DEF ActContact, Offers
  <2>10. CASE Outcome(r) BY <2>10 DEF Outcome
  <2>11. CASE PersistAudit(r) BY <2>11 DEF PersistAudit
  <2> QED
    BY <1>2, <2>1, <2>2, <2>3, <2>4, <2>5, <2>6, <2>7, <2>8, <2>9, <2>10,
       <2>11 DEF Step
<1>3. ASSUME NEW r \in Runs, Abort(r) \/ AbortMidPersist(r) PROVE RunInv'
  BY <1>3 DEF Abort, AbortMidPersist, InFlight, TypeOK
<1>4. CASE Tick
  BY <1>4 DEF Tick
<1>5. CASE UNCHANGED vars
  BY <1>5 DEF vars
<1> QED
  BY <1>1, <1>2, <1>3, <1>4, <1>5 DEF Next

\* LogNode adds one entry to the log of its run.
LEMMA LogNodeGrows ==
    ASSUME TypeOK, NEW r \in Runs, NEW node, NEW status, LogNode(r, node, status)
    PROVE  /\ log'[r] = log[r] \cup
                          {[by |-> r, node |-> node, status |-> status]}
           /\ \A q \in Runs \ {r} : log'[q] = log[q]
           /\ \A q \in Runs : HasVerdict(log[q], q) => HasVerdict(log'[q], q)
<1>1. /\ log'[r] = log[r] \cup {[by |-> r, node |-> node, status |-> status]}
      /\ \A q \in Runs \ {r} : log'[q] = log[q]
  BY DEF LogNode, TypeOK
<1>2. \A q \in Runs : log[q] \subseteq log'[q]
  BY <1>1
<1> QED BY <1>1, <1>2 DEF HasVerdict

LEMMA VerdictAdded ==
    ASSUME NEW entries, NEW r, NEW status \in Approved
    PROVE  HasVerdict(entries \cup
                {[by |-> r, node |-> "GUARDRAIL", status |-> status]}, r)
<1> DEFINE g == [by |-> r, node |-> "GUARDRAIL", status |-> status]
<1>1. g \in entries \cup {g} /\ g.by = r /\ g.node = "GUARDRAIL"
      /\ g.status \in Approved
  OBVIOUS
<1> HIDE DEF g
<1>2. HasVerdict(entries \cup {g}, r)
  BY <1>1 DEF HasVerdict
<1> QED BY <1>2 DEF g

LEMMA GateInvNext == TypeOK /\ RunInv /\ GateInv /\ [Next]_vars => GateInv'
<1> SUFFICES ASSUME TypeOK, RunInv, GateInv, [Next]_vars PROVE GateInv'
  OBVIOUS
<1> USE DEF GateInv, BeforeOffer, InAct, At, Goto, locals, IsChat
<1>1. ASSUME NEW r \in Runs, Begin(r) PROVE GateInv'
  <2> USE DEF TypeOK
  <2>1. PICK req \in Request :
          /\ Start(r, req)
          /\ UNCHANGED <<diagnosed, failed, already>>
          /\ \/ /\ req.entry # "chat" /\ Goto(r, "sense")
                /\ offer' = offer
             \/ /\ req.entry = "chat" /\ Goto(r, "act") /\ ~req.holdout
                /\ \E arm \in Arms : offer' = [offer EXCEPT ![r] = arm]
    BY <1>1, BeginCases
  <2>2. /\ pc[r] = "idle" /\ offer[r] = None
        /\ request' = [request EXCEPT ![r] = req]
        /\ \A q \in Runs \ {r} : log'[q] = log[q]
    BY <2>1 DEF Start, RunInv
  <2> QED BY <2>1, <2>2
<1>2. ASSUME NEW r \in Runs, Step(r) PROVE GateInv'
  <2> USE DEF TypeOK, ActReturns, PastAct
  <2>0. request[r] \in Request /\ pc[r] # "idle"
    BY <1>2, StartedRequest
    DEF Step, Sense, Diagnose, Decide, Guardrail, ActNoAction, ActShadow,
        ActLookup, ActInsert, ActContact, Outcome, PersistAudit
  <2>1. CASE Sense(r)
    BY <2>1, LogNodeGrows DEF Sense
  <2>2. CASE Diagnose(r)
    BY <2>2, LogNodeGrows DEF Diagnose
  <2>3. CASE Decide(r)
    <3>1. Candidates(r) \subseteq Eligible(request[r].customer)
      BY DEF Candidates, Eligible
    <3> QED BY <2>3, <3>1, LogNodeGrows DEF Decide
  <2>4. CASE Guardrail(r)
    <3>1. CASE offer[r] = NoAction
      <4>1. /\ pc[r] = "guardrail" /\ ~IsChat(r) /\ failed[r] = {}
            /\ pc' = [pc EXCEPT ![r] = "act"]
            /\ LogNode(r, "GUARDRAIL", "PASS")
            /\ UNCHANGED <<request, offer, failed>>
        BY <2>4, <3>1, <2>0, SpineAssumption DEF Guardrail, Request, RunInv
      <4>2. /\ HasVerdict(log'[r], r)
            /\ \A q \in Runs \ {r} : log'[q] = log[q]
        <5>1. /\ log'[r] = log[r] \cup
                     {[by |-> r, node |-> "GUARDRAIL", status |-> "PASS"]}
              /\ \A q \in Runs \ {r} : log'[q] = log[q]
          BY <4>1, LogNodeGrows
        <5>2. "PASS" \in Approved
          BY DEF Approved
        <5>3. HasVerdict(log[r] \cup
                {[by |-> r, node |-> "GUARDRAIL", status |-> "PASS"]}, r)
          BY <5>2, VerdictAdded
        <5> QED BY <5>1, <5>3
      <4>3. offer[r] \notin Arms
        BY <3>1, SpineAssumption
      <4> QED BY <4>1, <4>2, <4>3
    <3>2. CASE offer[r] # NoAction
      <4> DEFINE fails == FailedPolicies(r)
                 decision == Decision(fails, Cost[offer[r]])
      <4>1. /\ pc[r] = "guardrail" /\ ~IsChat(r)
            /\ pc' = [pc EXCEPT ![r] = IF decision = "REJECT" THEN "persist"
                                       ELSE "act"]
            /\ failed' = [failed EXCEPT ![r] = fails]
            /\ LogNode(r, "GUARDRAIL", decision)
            /\ UNCHANGED <<request, offer>>
        BY <2>4, <3>2, <2>0, SpineAssumption DEF Guardrail, Request
      <4>2. "MIN_MARGIN" \notin fails
        <5>1. offer[r] \in Eligible(request[r].customer) /\ offer[r] \in Arms
          BY <4>1, <3>2, <2>0, SpineAssumption DEF RunInv, Offers, Request
        <5>2. /\ Margin[request[r].customer] \in Nat
              /\ Cost[offer[r]] \in Nat /\ Floor[offer[r]] \in Nat
          BY <2>0, <5>1, SpineAssumption DEF Request
        <5> QED BY <5>1, <5>2, SpineAssumption DEF FailedPolicies, Eligible
      <4>3. decision # "REJECT" =>
              fails = {} /\ request[r].customer \in Consenting
              /\ decision \in Approved
        BY DEF Decision, FailedPolicies, NoConsent, Policies, Approved
      <4>4. \A q \in Runs \ {r} : /\ pc'[q] = pc[q] /\ log'[q] = log[q]
                                   /\ failed'[q] = failed[q]
        BY <4>1, LogNodeGrows
      <4>5. log'[r] = log[r] \cup
                        {[by |-> r, node |-> "GUARDRAIL", status |-> decision]}
        BY <4>1, LogNodeGrows
      <4>6. decision # "REJECT" => HasVerdict(log'[r], r)
        <5> HIDE DEF decision, fails
        <5>1. decision \in Approved => HasVerdict(log[r] \cup
                {[by |-> r, node |-> "GUARDRAIL", status |-> decision]}, r)
          BY VerdictAdded
        <5> QED BY <4>3, <4>5, <5>1
      <4>7. pc'[r] = (IF decision = "REJECT" THEN "persist" ELSE "act")
            /\ failed'[r] = fails
        BY <4>1
      <4> HIDE DEF decision, fails
      <4> QED BY <4>1, <4>2, <4>3, <4>4, <4>6, <4>7
    <3> QED BY <3>1, <3>2
  <2>5. CASE ActNoAction(r)
    BY <2>5, LogNodeGrows DEF ActNoAction
  <2>6. CASE ActShadow(r)
    BY <2>6, LogNodeGrows DEF ActShadow
  <2>7. CASE ActLookup(r)
    BY <2>7 DEF ActLookup
  <2>8. CASE ActInsert(r)
    BY <2>8, LogNodeGrows DEF ActInsert
  <2>9. CASE ActContact(r)
    BY <2>9, LogNodeGrows DEF ActContact
  <2>10. CASE Outcome(r)
    BY <2>10, LogNodeGrows DEF Outcome
  <2>11. CASE PersistAudit(r)
    BY <2>11 DEF PersistAudit
  <2> QED
    BY <1>2, <2>1, <2>2, <2>3, <2>4, <2>5, <2>6, <2>7, <2>8, <2>9, <2>10,
       <2>11 DEF Step
<1>3. ASSUME NEW r \in Runs, Abort(r) \/ AbortMidPersist(r) PROVE GateInv'
  BY <1>3 DEF Abort, AbortMidPersist, InFlight, TypeOK
<1>4. CASE Tick
  BY <1>4 DEF Tick, Eligible
<1>5. CASE UNCHANGED vars
  BY <1>5 DEF vars, Eligible
<1> QED
  BY <1>1, <1>2, <1>3, <1>4, <1>5 DEF Next

-----------------------------------------------------------------------------
(* The rows of the tables *)

\* Each table grows in one action only.
LEMMA NewRow ==
    ASSUME [Next]_vars, NEW f \in fulfillments', f \notin fulfillments
    PROVE  \E r \in Runs : /\ ActInsert(r) /\ ~Fulfilled(KeyOf(r))
                           /\ f = InsertedRow(r)
<1>1. PICK r \in Runs : ActInsert(r)
  <2>1. ASSUME NEW r \in Runs, Begin(r) PROVE FALSE
    BY <2>1 DEF Begin, StartApi, StartCli, StartPolicy, StartChat, Start, tables
  <2>2. ASSUME NEW r \in Runs, Step(r) PROVE ActInsert(r)
    BY <2>2 DEF Step, Sense, Diagnose, Decide, Guardrail, ActNoAction,
                ActShadow, ActLookup, ActContact, Outcome, PersistAudit, tables
  <2>3. ASSUME NEW r \in Runs, Abort(r) \/ AbortMidPersist(r) PROVE FALSE
    BY <2>3 DEF Abort, AbortMidPersist, tables
  <2> QED
    BY <2>1, <2>2, <2>3 DEF Next, Tick, vars, tables
<1> QED
  BY <1>1 DEF ActInsert, AfterInsert

LEMMA NewContact ==
    ASSUME [Next]_vars, NEW x \in contacts', x \notin contacts
    PROVE  \E r \in Runs : ActContact(r) /\ x = ContactRow(r)
<1>1. PICK r \in Runs : ActContact(r)
  <2>1. ASSUME NEW r \in Runs, Begin(r) PROVE FALSE
    BY <2>1 DEF Begin, StartApi, StartCli, StartPolicy, StartChat, Start, tables
  <2>2. ASSUME NEW r \in Runs, Step(r) PROVE ActContact(r)
    BY <2>2 DEF Step, Sense, Diagnose, Decide, Guardrail, ActNoAction,
                ActShadow, ActLookup, ActInsert, Outcome, PersistAudit, tables
  <2>3. ASSUME NEW r \in Runs, Abort(r) \/ AbortMidPersist(r) PROVE FALSE
    BY <2>3 DEF Abort, AbortMidPersist, tables
  <2> QED
    BY <2>1, <2>2, <2>3 DEF Next, Tick, vars, tables
<1> QED
  BY <1>1 DEF ActContact

LEMMA RowInvNext ==
    TypeOK /\ RunInv /\ GateInv /\ RowInv /\ LookupInv /\ [Next]_vars => RowInv'
<1> SUFFICES ASSUME TypeOK, RunInv, GateInv, RowInv, LookupInv, [Next]_vars,
                    NEW f \in fulfillments'
             PROVE  /\ request'[f.by] # None /\ ~request'[f.by].holdout
                    /\ RowKey(f) = KeyOf(f.by)'
                    /\ pc'[f.by] \in {"contact"} \cup PastAct
                    /\ \/ \E x \in contacts' : x.run = f.by
                       \/ pc'[f.by] \in {"contact", "failed"}
                    /\ ~IsChat(f.by)' =>
                          f.customer \in Consenting /\ failed'[f.by] = {}
  BY DEF RowInv, Contacted, RowKey
<1>1. CASE f \in fulfillments
  <2>1. f.by \in Runs
    BY <1>1 DEF TypeOK, Row
  <2>2. /\ request[f.by] # None /\ ~request[f.by].holdout
        /\ RowKey(f) = KeyOf(f.by)
        /\ pc[f.by] \in {"contact"} \cup PastAct
        /\ (\E x \in contacts : x.run = f.by) \/ pc[f.by] \in {"contact", "failed"}
        /\ ~IsChat(f.by) => f.customer \in Consenting /\ failed[f.by] = {}
    BY <1>1 DEF RowInv, Contacted
  <2>3. /\ request'[f.by] = request[f.by]
        /\ offer'[f.by] = offer[f.by] /\ failed'[f.by] = failed[f.by]
    BY <2>1, <2>2, StableNext DEF Stable, InAct
  <2>4. /\ pc'[f.by] \in {"contact"} \cup PastAct
        /\ (\E x \in contacts' : x.run = f.by) \/ pc'[f.by] \in {"contact", "failed"}
    BY <2>1, <2>2, StableNext DEF Stable, PastAct
  <2> QED
    BY <2>2, <2>3, <2>4 DEF KeyOf, IsChat
<1>2. CASE f \notin fulfillments
  <2>1. PICK r \in Runs : /\ ActInsert(r) /\ ~Fulfilled(KeyOf(r))
                          /\ f = InsertedRow(r)
    BY <1>2, NewRow
  <2>2. /\ pc[r] = "insert" /\ ~already[r]
        /\ request[r] # None /\ ~request[r].holdout
    BY <2>1 DEF ActInsert, At, LookupInv, RunInv
  <2>3. /\ pc' = [pc EXCEPT ![r] = "contact"]
        /\ UNCHANGED <<request, offer, failed>>
    BY <2>1, <2>2 DEF ActInsert, Goto, locals
  <2>4. /\ f.by = r
        /\ RowKey(f) = KeyOf(r)
        /\ f.customer = request[r].customer
    BY <2>1 DEF InsertedRow, RowKey, KeyOf
  <2>5. ~IsChat(r) => f.customer \in Consenting /\ failed[r] = {}
    BY <2>2, <2>4 DEF GateInv, RunInv, InAct
  <2> QED
    BY <2>1, <2>2, <2>3, <2>4, <2>5 DEF TypeOK, KeyOf, IsChat
<1> QED BY <1>1, <1>2

LEMMA ContactInvNext ==
    TypeOK /\ RunInv /\ ContactInv /\ LookupInv /\ [Next]_vars => ContactInv'
<1> SUFFICES ASSUME TypeOK, RunInv, ContactInv, LookupInv, [Next]_vars,
                    NEW x \in contacts'
             PROVE  /\ request'[x.run] # None /\ ~request'[x.run].holdout
                    /\ KeyOfContact(x)' = KeyOf(x.run)'
                    /\ pc'[x.run] \in PastAct
                    /\ Fulfilled(KeyOf(x.run))'
  BY DEF ContactInv
<1>1. CASE x \in contacts
  <2>1. x.run \in Runs
    BY <1>1 DEF TypeOK, Contact
  <2> QED
    BY <1>1, <2>1, StableNext, FulfilledStable
    DEF Stable, ContactInv, KeyOf, KeyOfContact
<1>2. CASE x \notin contacts
  <2>1. PICK r \in Runs : ActContact(r) /\ x = ContactRow(r)
    BY <1>2, NewContact
  <2>2. /\ pc[r] = "contact"
        /\ request[r] # None /\ ~request[r].holdout
        /\ Fulfilled(KeyOf(r))
    BY <2>1 DEF ActContact, At, LookupInv, RunInv
  <2>3. /\ \E loc \in {"outcome", "done"} : pc' = [pc EXCEPT ![r] = loc]
        /\ UNCHANGED <<request, offer, fulfillments>>
    BY <2>1 DEF ActContact, ActReturns, Goto, locals
  <2>4. /\ x.run = r /\ x.customer = request[r].customer
        /\ x.campaign = request[r].campaign
    BY <2>1 DEF ContactRow
  <2> QED
    BY <2>2, <2>3, <2>4 DEF TypeOK, KeyOf, KeyOfContact, Fulfilled, PastAct
<1> QED BY <1>1, <1>2

-----------------------------------------------------------------------------
(* What Act remembers *)

LEMMA Arrives ==
    ASSUME TypeOK, [Next]_vars, NEW q \in Runs
    PROVE  /\ pc'[q] = "insert" =>
                \/ pc[q] = "insert" /\ already'[q] = already[q]
                \/ ActLookup(q)
           /\ pc'[q] = "contact" => pc[q] = "contact" \/ ActInsert(q)
           /\ q \in trained' => q \in trained \/ Outcome(q)
<1> DEFINE Goal == /\ pc'[q] = "insert" =>
                        \/ pc[q] = "insert" /\ already'[q] = already[q]
                        \/ ActLookup(q)
                   /\ pc'[q] = "contact" => pc[q] = "contact" \/ ActInsert(q)
                   /\ q \in trained' => q \in trained \/ Outcome(q)
<1> USE DEF TypeOK, Goto, At, locals
<1>1. ASSUME NEW r \in Runs, Begin(r) PROVE Goal
  BY <1>1, BeginCases DEF Start
<1>2. ASSUME NEW r \in Runs, Step(r) PROVE Goal
  <2>1. CASE \/ Sense(r) \/ Diagnose(r) \/ Decide(r)
             \/ ActNoAction(r) \/ ActShadow(r) \/ PersistAudit(r)
    BY <2>1 DEF Sense, Diagnose, Decide, ActNoAction, ActShadow, PersistAudit
  <2>2. CASE Guardrail(r)
    <3>1. /\ \E loc \in {"persist", "act"} : pc' = [pc EXCEPT ![r] = loc]
          /\ UNCHANGED <<already, trained>>
      BY <2>2 DEF Guardrail
    <3> QED BY <3>1
  <2>3. CASE ActLookup(r)
    <3>1. /\ pc' = [pc EXCEPT ![r] = "insert"]
          /\ \E b : already' = [already EXCEPT ![r] = b]
          /\ UNCHANGED trained
      BY <2>3 DEF ActLookup
    <3> QED BY <2>3, <3>1
  <2>4. CASE ActInsert(r)
    <3>1. /\ \E loc \in {"contact", "outcome", "done"} :
                pc' = [pc EXCEPT ![r] = loc]
          /\ UNCHANGED <<already, trained>>
      BY <2>4 DEF ActInsert, ActReturns
    <3> QED BY <2>4, <3>1
  <2>5. CASE ActContact(r)
    <3>1. /\ \E loc \in {"outcome", "done"} : pc' = [pc EXCEPT ![r] = loc]
          /\ UNCHANGED <<already, trained>>
      BY <2>5 DEF ActContact, ActReturns
    <3> QED BY <3>1
  <2>6. CASE Outcome(r)
    <3>1. /\ pc' = [pc EXCEPT ![r] = "persist"]
          /\ trained' = trained \cup {r} \/ trained' = trained
          /\ UNCHANGED already
      BY <2>6 DEF Outcome
    <3> QED BY <2>6, <3>1
  <2> QED
    BY <1>2, <2>1, <2>2, <2>3, <2>4, <2>5, <2>6 DEF Step
<1>3. ASSUME NEW r \in Runs, Abort(r) \/ AbortMidPersist(r) PROVE Goal
  BY <1>3 DEF Abort, AbortMidPersist
<1>4. CASE Tick
  BY <1>4 DEF Tick
<1>5. CASE UNCHANGED vars
  BY <1>5 DEF vars
<1> QED
  BY <1>1, <1>2, <1>3, <1>4, <1>5 DEF Next

LEMMA LookupInvNext ==
    TypeOK /\ RunInv /\ LookupInv /\ [Next]_vars => LookupInv'
<1> SUFFICES ASSUME TypeOK, RunInv, LookupInv, [Next]_vars PROVE LookupInv'
  OBVIOUS
<1>1. ASSUME NEW r \in Runs,
             (pc'[r] = "insert" /\ already'[r]) \/ pc'[r] = "contact"
      PROVE  Fulfilled(KeyOf(r))'
  <2>1. CASE (pc[r] = "insert" /\ already[r]) \/ pc[r] = "contact"
    BY <2>1, StableNext, FulfilledStable DEF LookupInv, RunInv, InAct
  <2>2. CASE ActLookup(r)
    <3>1. /\ already' = [already EXCEPT ![r] = Fulfilled(KeyOf(r))]
          /\ pc' = [pc EXCEPT ![r] = "insert"]
          /\ UNCHANGED <<request, offer, fulfillments>>
      BY <2>2 DEF ActLookup, Goto, locals, tables
    <3>2. Fulfilled(KeyOf(r))
      BY <1>1, <3>1 DEF TypeOK
    <3> QED BY <3>1, <3>2 DEF Fulfilled, KeyOf
  <2>3. CASE ActInsert(r)
    <3>1. /\ fulfillments' = AfterInsert(r)
          /\ UNCHANGED <<request, offer>>
      BY <2>3 DEF ActInsert, locals
    <3>2. RowKey(InsertedRow(r)) = KeyOf(r)
      BY DEF InsertedRow, RowKey, KeyOf
    <3>3. \E f \in fulfillments' : RowKey(f) = KeyOf(r)
      BY <3>1, <3>2 DEF AfterInsert, Fulfilled
    <3> QED BY <3>1, <3>3 DEF Fulfilled, KeyOf, RowKey
  <2> QED
    BY <1>1, <2>1, <2>2, <2>3, Arrives
<1>2. ASSUME NEW r \in trained'
      PROVE  request'[r] # None /\ ~request'[r].holdout
  <2>1. r \in Runs
    BY TypeNext DEF TypeOK
  <2>2. request[r] # None /\ ~request[r].holdout
    <3>1. CASE r \in trained
      BY <3>1 DEF LookupInv
    <3>2. CASE Outcome(r) /\ r \notin trained
      <4>1. pc[r] = "outcome" /\ ~request[r].holdout
        BY <1>2, <3>2 DEF Outcome, At
      <4> QED BY <2>1, <4>1 DEF RunInv
    <3> QED BY <2>1, <3>1, <3>2, Arrives
  <2> QED BY <2>1, <2>2, StableNext DEF Stable
<1> QED BY <1>1, <1>2 DEF LookupInv

-----------------------------------------------------------------------------
(* The entries, wherever a copy of them is kept *)

\* What is already kept stays true.
LEMMA EntriesKept ==
    ASSUME TypeOK, EntryInv, Stable
    PROVE  /\ \A q \in Runs : \A e \in log[q] : EntryTrue(e)'
           /\ \A t \in Threads : \A e \in thread[t] : EntryTrue(e)'
           /\ \A a \in audit : EntryTrue(a)'
<1>1. \A q \in Runs : \A e \in log[q] : EntryTrue(e)'
  <2> SUFFICES ASSUME NEW q \in Runs, NEW e \in log[q] PROVE EntryTrue(e)'
    OBVIOUS
  <2>1. e.by \in Runs
    BY DEF TypeOK, Entry
  <2> QED BY <2>1, EntryTrueStable DEF EntryInv
<1>2. \A t \in Threads : \A e \in thread[t] : EntryTrue(e)'
  <2> SUFFICES ASSUME NEW t \in Threads, NEW e \in thread[t] PROVE EntryTrue(e)'
    OBVIOUS
  <2>1. e.by \in Runs
    BY DEF TypeOK, Entry
  <2> QED BY <2>1, EntryTrueStable DEF EntryInv
<1>3. \A a \in audit : EntryTrue(a)'
  <2> SUFFICES ASSUME NEW a \in audit PROVE EntryTrue(a)'
    OBVIOUS
  <2>1. a.by \in Runs
    BY DEF TypeOK, AuditRow
  <2> QED BY <2>1, EntryTrueStable DEF EntryInv
<1> QED BY <1>1, <1>2, <1>3

\* A step of a node adds one entry to its log and may checkpoint the log.
LEMMA LogNodeEntries ==
    ASSUME TypeOK, EntryInv, Stable, NEW r \in Runs,
           NEW node \in Nodes, NEW status \in Statuses,
           LogNode(r, node, status), UNCHANGED audit,
           EntryTrue([by |-> r, node |-> node, status |-> status])'
    PROVE  EntryInv'
<1> DEFINE new == [by |-> r, node |-> node, status |-> status]
<1>1. /\ \A q \in Runs : \A e \in log[q] : EntryTrue(e)'
      /\ \A t \in Threads : \A e \in thread[t] : EntryTrue(e)'
      /\ \A a \in audit : EntryTrue(a)'
  BY EntriesKept
<1>4. \A q \in Runs : log'[q] \subseteq log[q] \cup {new}
  BY DEF LogNode, TypeOK
<1>5. \A t \in Threads : \/ thread'[t] = thread[t]
                         \/ thread'[t] = log[r] \cup {new}
  BY DEF LogNode, TypeOK
<1> HIDE DEF new
<1>6. EntryTrue(new)'
  BY DEF new
<1> QED
  <2>1. \A q \in Runs : \A e \in log'[q] : EntryTrue(e)'
    BY <1>1, <1>4, <1>6
  <2>2. \A t \in Threads : \A e \in thread'[t] : EntryTrue(e)'
    BY <1>1, <1>5, <1>6
  <2>3. \A a \in audit' : EntryTrue(a)'
    BY <1>1
  <2> QED BY <2>1, <2>2, <2>3 DEF EntryInv

\* The entries of every node but Act are true as soon as the run has started.
LEMMA OtherEntry ==
    ASSUME TypeOK, RunInv, Stable, NEW r \in Runs, pc[r] # "idle",
           NEW node, NEW status, node # "ACT" \/ status \notin Acted
    PROVE  EntryTrue([by |-> r, node |-> node, status |-> status])'
<1>1. request'[r] # None
  BY DEF RunInv, Stable
<1> QED BY <1>1 DEF EntryTrue, IsActed

\* A step that moves entries about, and adds none.
LEMMA EntriesMoved ==
    ASSUME TypeOK, EntryInv, Stable,
           \A q \in Runs : \/ log'[q] \subseteq log[q]
                           \/ \E t \in Threads : log'[q] \subseteq thread[t],
           UNCHANGED thread,
           \A a \in audit' : \/ a \in audit
                             \/ \E q \in Runs : \E e \in log[q] :
                                   /\ a.by = e.by /\ a.node = e.node
                                   /\ a.status = e.status
    PROVE  EntryInv'
<1>1. /\ \A q \in Runs : \A e \in log[q] : EntryTrue(e)'
      /\ \A t \in Threads : \A e \in thread[t] : EntryTrue(e)'
      /\ \A a \in audit : EntryTrue(a)'
  BY EntriesKept
<1>4. \A q \in Runs : \A e \in log'[q] : EntryTrue(e)'
  BY <1>1
<1>5. \A a \in audit' : EntryTrue(a)'
  <2> SUFFICES ASSUME NEW a \in audit' PROVE EntryTrue(a)'
    OBVIOUS
  <2>1. CASE a \in audit
    BY <2>1, <1>1
  <2>2. CASE \E q \in Runs : \E e \in log[q] :
                /\ a.by = e.by /\ a.node = e.node /\ a.status = e.status
    BY <2>2, <1>1 DEF EntryTrue, IsActed
  <2> QED BY <2>1, <2>2
<1> QED BY <1>1, <1>4, <1>5 DEF EntryInv

LEMMA EntryInvNext ==
    TypeOK /\ RunInv /\ LookupInv /\ EntryInv /\ [Next]_vars => EntryInv'
<1> SUFFICES ASSUME TypeOK, RunInv, LookupInv, EntryInv, [Next]_vars
             PROVE  EntryInv'
  OBVIOUS
<1>0. Stable
  BY StableNext
<1> USE DEF At, Nodes, Statuses, Decisions, ActStatuses
<1>1. ASSUME NEW r \in Runs, Begin(r) PROVE EntryInv'
  <2>1. PICK req \in Request : Start(r, req)
    BY <1>1, BeginCases
  <2>2. <<req.customer, req.campaign>> \in Threads
    BY DEF Request, Threads
  <2>3. \A q \in Runs : \/ log'[q] \subseteq log[q]
                        \/ \E t \in Threads : log'[q] \subseteq thread[t]
    BY <2>1, <2>2 DEF Start, TypeOK
  <2> QED BY <1>0, <2>1, <2>3, EntriesMoved DEF Start, tables
<1>2. ASSUME NEW r \in Runs, Step(r) PROVE EntryInv'
  <2>0. ASSUME NEW node \in Nodes \ {"ACT"}, NEW status \in Statuses,
               pc[r] # "idle", LogNode(r, node, status), UNCHANGED audit
        PROVE  EntryInv'
    BY <1>0, <2>0, OtherEntry, LogNodeEntries
  <2>1. CASE Sense(r) BY <2>1, <2>0 DEF Sense, tables
  <2>2. CASE Diagnose(r) BY <2>2, <2>0 DEF Diagnose, tables
  <2>3. CASE Decide(r) BY <2>3, <2>0 DEF Decide, tables
  <2>4. CASE Guardrail(r)
    <3>1. \E status \in Statuses : LogNode(r, "GUARDRAIL", status)
      BY <2>4 DEF Guardrail, Decision
    <3> QED BY <2>4, <3>1, <2>0 DEF Guardrail, tables
  <2>5. ASSUME NEW status \in Statuses \ Acted,
               pc[r] # "idle", LogNode(r, "ACT", status), UNCHANGED audit
        PROVE  EntryInv'
    BY <1>0, <2>5, OtherEntry, LogNodeEntries
  <2>6. CASE ActNoAction(r) BY <2>6, <2>5 DEF ActNoAction, tables, Acted
  <2>7. CASE ActShadow(r) BY <2>7, <2>5 DEF ActShadow, tables, Acted
  <2>8. ASSUME UNCHANGED <<log, thread, audit>> PROVE EntryInv'
    BY <1>0, <2>8, EntriesMoved
  <2>9. CASE ActLookup(r) BY <2>9, <2>8 DEF ActLookup, tables
  <2>10. CASE ActInsert(r)
    <3>1. CASE ~already[r] \/ IsChat(r)
      BY <2>10, <3>1, <2>8 DEF ActInsert, ActReturns
    <3>2. CASE already[r] /\ ~IsChat(r)
      <4>1. /\ pc[r] = "insert"
            /\ pc' = [pc EXCEPT ![r] = "outcome"]
            /\ LogNode(r, "ACT", "IDEMPOTENT_HIT")
            /\ UNCHANGED audit
        BY <2>10, <3>2 DEF ActInsert, ActReturns, Goto
      <4>2. request'[r] # None /\ Fulfilled(KeyOf(r))'
        BY <1>0, <3>2, <4>1, FulfilledStable
        DEF LookupInv, RunInv, Stable, InAct
      <4>3. pc'[r] \in PastAct
        BY <4>1 DEF TypeOK, PastAct
      <4>4. EntryTrue([by |-> r, node |-> "ACT", status |-> "IDEMPOTENT_HIT"])'
        BY <4>2, <4>3 DEF EntryTrue
      <4> QED BY <1>0, <4>1, <4>4, LogNodeEntries
    <3> QED BY <3>1, <3>2
  <2>11. CASE ActContact(r)
    <3>1. CASE IsChat(r)
      BY <2>11, <3>1, <2>8 DEF ActContact, ActReturns
    <3>2. CASE ~IsChat(r)
      <4>1. /\ pc[r] = "contact"
            /\ pc' = [pc EXCEPT ![r] = "outcome"]
            /\ contacts' = contacts \cup {ContactRow(r)}
            /\ LogNode(r, "ACT", "FULFILLED")
            /\ UNCHANGED audit
        BY <2>11, <3>2 DEF ActContact, ActReturns, Goto
      <4>2. request'[r] # None /\ Fulfilled(KeyOf(r))'
        BY <1>0, <4>1, FulfilledStable DEF LookupInv, RunInv, Stable, InAct
      <4>3. pc'[r] \in PastAct
        BY <4>1 DEF TypeOK, PastAct
      <4>4. \E x \in contacts' : x.run = r
        <5>1. ContactRow(r).run = r
          BY DEF ContactRow
        <5> QED BY <4>1, <5>1
      <4>5. EntryTrue([by |-> r, node |-> "ACT", status |-> "FULFILLED"])'
        BY <4>2, <4>3, <4>4 DEF EntryTrue, Contacted
      <4> QED BY <1>0, <4>1, <4>5, LogNodeEntries
    <3> QED BY <3>1, <3>2
  <2>12. CASE Outcome(r) BY <2>12, <2>0 DEF Outcome, tables
  <2>13. CASE PersistAudit(r)
    <3>1. \A q \in Runs : log'[q] \subseteq log[q]
      BY <2>13 DEF PersistAudit, TypeOK
    <3>2. \A a \in audit' : \/ a \in audit
                            \/ \E e \in log[r] :
                                  /\ a.by = e.by /\ a.node = e.node
                                  /\ a.status = e.status
      BY <2>13 DEF PersistAudit, RowsOf
    <3> QED BY <1>0, <2>13, <3>1, <3>2, EntriesMoved DEF PersistAudit
  <2> QED
    BY <1>2, <2>1, <2>2, <2>3, <2>4, <2>6, <2>7, <2>9, <2>10, <2>11, <2>12,
       <2>13 DEF Step
<1>3. ASSUME NEW r \in Runs, Abort(r) PROVE EntryInv'
  <2>1. \A q \in Runs : log'[q] \subseteq log[q]
    BY <1>3 DEF Abort, TypeOK
  <2> QED BY <1>0, <1>3, <2>1, EntriesMoved DEF Abort, tables
<1>4. ASSUME NEW r \in Runs, AbortMidPersist(r) PROVE EntryInv'
  <2>1. \A q \in Runs : log'[q] \subseteq log[q]
    BY <1>4 DEF AbortMidPersist, TypeOK
  <2>2. \A a \in audit' : \/ a \in audit
                          \/ \E e \in log[r] :
                                /\ a.by = e.by /\ a.node = e.node
                                /\ a.status = e.status
    BY <1>4 DEF AbortMidPersist, RowsOf
  <2> QED BY <1>0, <1>4, <2>1, <2>2, EntriesMoved DEF AbortMidPersist
<1>5. CASE Tick \/ UNCHANGED vars
  BY <1>0, <1>5, EntriesMoved DEF Tick, vars, tables
<1> QED
  BY <1>1, <1>2, <1>3, <1>4, <1>5 DEF Next

\* No step tears an Act entry from the verdict of its run, in any copy.
LEMMA LogNodeVerdict ==
    ASSUME TypeOK, VerdictInv, NEW r \in Runs, NEW node, NEW status,
           LogNode(r, node, status), UNCHANGED audit,
           node = "ACT" /\ status \in Acted => HasVerdict(log[r], r)
    PROVE  VerdictInv'
<1> DEFINE new == [by |-> r, node |-> node, status |-> status]
<1>1. VerdictClosed(log[r] \cup {new})
  <2>1. \A e \in log[r] : IsActed(e) => HasVerdict(log[r], e.by)
    BY DEF VerdictInv, VerdictClosed
  <2>2. IsActed(new) => HasVerdict(log[r], new.by)
    BY DEF IsActed
  <2>3. \A q : HasVerdict(log[r], q) => HasVerdict(log[r] \cup {new}, q)
    BY DEF HasVerdict
  <2> HIDE DEF new
  <2> QED BY <2>1, <2>2, <2>3 DEF VerdictClosed
<1>2. \A q \in Runs : log'[q] = log[q] \/ log'[q] = log[r] \cup {new}
  BY DEF LogNode, TypeOK
<1>3. \A t \in Threads : \/ thread'[t] = thread[t]
                         \/ thread'[t] = log[r] \cup {new}
  BY DEF LogNode, TypeOK
<1> HIDE DEF new
<1>4. \A q \in Runs : VerdictClosed(log'[q])
  BY <1>1, <1>2 DEF VerdictInv
<1>5. \A t \in Threads : VerdictClosed(thread'[t])
  BY <1>1, <1>3 DEF VerdictInv
<1> QED BY <1>4, <1>5 DEF VerdictInv

\* persist_audit writes whole logs, or the entries up to a node: a verdict
\* comes before what Act did.
LEMMA RowsClosed ==
    ASSUME NEW r, NEW entries, VerdictClosed(entries), NEW upTo \in Nat
    PROVE  /\ VerdictClosed(RowsOf(r, entries))
           /\ VerdictClosed(RowsOf(r, {e \in entries : Position(e.node) <= upTo}))
<1>1. ASSUME NEW S \in SUBSET entries,
             \A e \in S : IsActed(e) => HasVerdict(S, e.by)
      PROVE  VerdictClosed(RowsOf(r, S))
  <2> SUFFICES ASSUME NEW a \in RowsOf(r, S), IsActed(a)
               PROVE  HasVerdict(RowsOf(r, S), a.by)
    BY DEF VerdictClosed
  <2>1. PICK e \in S : a = [writer |-> r, by |-> e.by, node |-> e.node,
                            status |-> e.status]
    BY DEF RowsOf
  <2>2. IsActed(e) /\ a.by = e.by
    BY <2>1 DEF IsActed
  <2>3. PICK g \in S : /\ g.by = e.by /\ g.node = "GUARDRAIL"
                       /\ g.status \in Approved
    BY <1>1, <2>2 DEF HasVerdict
  <2> DEFINE h == [writer |-> r, by |-> g.by, node |-> g.node,
                   status |-> g.status]
  <2>4. h \in RowsOf(r, S)
    BY DEF RowsOf
  <2>5. h.by = a.by /\ h.node = "GUARDRAIL" /\ h.status \in Approved
    BY <2>2, <2>3
  <2> HIDE DEF h
  <2> QED BY <2>4, <2>5 DEF HasVerdict
<1>2. VerdictClosed(RowsOf(r, entries))
  BY <1>1 DEF VerdictClosed
<1>3. VerdictClosed(RowsOf(r, {e \in entries : Position(e.node) <= upTo}))
  <2> DEFINE S == {e \in entries : Position(e.node) <= upTo}
  <2>1. ASSUME NEW e \in S, IsActed(e) PROVE HasVerdict(S, e.by)
    <3>1. PICK g \in entries : /\ g.by = e.by /\ g.node = "GUARDRAIL"
                               /\ g.status \in Approved
      BY <2>1 DEF VerdictClosed, HasVerdict
    <3>2. Position(e.node) = 5 /\ Position(g.node) = 4
      BY <2>1, <3>1 DEF IsActed, Position
    <3>3. g \in S
      BY <2>1, <3>2
    <3> QED BY <3>1, <3>3 DEF HasVerdict
  <2> HIDE DEF S
  <2>2. S \subseteq entries
    BY DEF S
  <2> QED BY <1>1, <2>1, <2>2 DEF S
<1> QED BY <1>2, <1>3

LEMMA VerdictInvNext ==
    TypeOK /\ RunInv /\ GateInv /\ VerdictInv /\ [Next]_vars => VerdictInv'
<1> SUFFICES ASSUME TypeOK, RunInv, GateInv, VerdictInv, [Next]_vars
             PROVE  VerdictInv'
  OBVIOUS
<1> USE DEF At, Acted
<1>1. VerdictClosed({})
  BY DEF VerdictClosed
<1>2. ASSUME NEW S, NEW T, VerdictClosed(S), VerdictClosed(T)
      PROVE  VerdictClosed(S \cup T)
  BY <1>2 DEF VerdictClosed, HasVerdict
<1>3. ASSUME UNCHANGED <<log, thread, audit>> PROVE VerdictInv'
  BY <1>3 DEF VerdictInv
<1>4. ASSUME NEW r \in Runs, Begin(r) PROVE VerdictInv'
  <2>1. PICK req \in Request : Start(r, req)
    BY <1>4, BeginCases
  <2>2. <<req.customer, req.campaign>> \in Threads
    BY DEF Request, Threads
  <2>3. \A q \in Runs : VerdictClosed(log'[q])
    BY <1>1, <2>1, <2>2 DEF Start, TypeOK, VerdictInv
  <2> QED BY <2>1, <2>3 DEF Start, VerdictInv, tables
<1>5. ASSUME NEW r \in Runs, Step(r) PROVE VerdictInv'
  <2>0. ASSUME NEW node, NEW status, node # "ACT" \/ status \notin Acted,
               LogNode(r, node, status), UNCHANGED audit
        PROVE  VerdictInv'
    BY <2>0, LogNodeVerdict
  <2>1. CASE Sense(r) BY <2>1, <2>0 DEF Sense, tables
  <2>2. CASE Diagnose(r) BY <2>2, <2>0 DEF Diagnose, tables
  <2>3. CASE Decide(r) BY <2>3, <2>0 DEF Decide, tables
  <2>4. CASE Guardrail(r) BY <2>4, <2>0 DEF Guardrail, tables
  <2>5. CASE ActNoAction(r) BY <2>5, <2>0 DEF ActNoAction, tables
  <2>6. CASE ActShadow(r) BY <2>6, <2>0 DEF ActShadow, tables
  <2>7. CASE ActLookup(r) BY <2>7, <1>3 DEF ActLookup, tables
  <2>8. ASSUME pc[r] \in InAct, pc[r] # "idle",
               NEW status, ActReturns(r, status), UNCHANGED audit
        PROVE  VerdictInv'
    <3>1. CASE IsChat(r)
      BY <2>8, <3>1, <1>3 DEF ActReturns
    <3>2. CASE ~IsChat(r)
      <4>1. HasVerdict(log[r], r)
        BY <2>8, <3>2 DEF GateInv, RunInv
      <4> QED BY <2>8, <3>2, <4>1, LogNodeVerdict DEF ActReturns
    <3> QED BY <3>1, <3>2
  <2>9. CASE ActInsert(r)
    <3>1. CASE already[r]
      BY <2>9, <3>1, <2>8 DEF ActInsert, InAct
    <3>2. CASE ~already[r]
      BY <2>9, <3>2, <1>3 DEF ActInsert
    <3> QED BY <3>1, <3>2
  <2>10. CASE ActContact(r)
    BY <2>10, <2>8 DEF ActContact, InAct
  <2>11. CASE Outcome(r) BY <2>11, <2>0 DEF Outcome, tables
  <2>12. CASE PersistAudit(r)
    <3>1. VerdictClosed(RowsOf(r, log[r]))
      BY RowsClosed, 0 \in Nat DEF VerdictInv
    <3>2. VerdictClosed(audit')
      BY <2>12, <3>1, <1>2 DEF PersistAudit, VerdictInv
    <3>3. \A q \in Runs : log'[q] = {} \/ log'[q] = log[q]
      BY <2>12 DEF PersistAudit, TypeOK
    <3> QED BY <2>12, <3>2, <3>3, <1>1 DEF PersistAudit, VerdictInv
  <2> QED
    BY <1>5, <2>1, <2>2, <2>3, <2>4, <2>5, <2>6, <2>7, <2>9, <2>10, <2>11,
       <2>12 DEF Step
<1>6. ASSUME NEW r \in Runs, Abort(r) PROVE VerdictInv'
  <2>1. \A q \in Runs : log'[q] = {} \/ log'[q] = log[q]
    BY <1>6 DEF Abort, TypeOK
  <2> QED BY <1>6, <2>1, <1>1 DEF Abort, VerdictInv, tables
<1>7. ASSUME NEW r \in Runs, AbortMidPersist(r) PROVE VerdictInv'
  <2>1. PICK upTo \in 1..5 :
          audit' = audit \cup
                   RowsOf(r, {e \in log[r] : Position(e.node) <= upTo})
    BY <1>7 DEF AbortMidPersist
  <2>2. VerdictClosed(RowsOf(r, {e \in log[r] : Position(e.node) <= upTo}))
    <3>1. VerdictClosed(log[r]) /\ upTo \in Nat
      BY DEF VerdictInv
    <3> DEFINE entries == log[r]
    <3> HIDE DEF entries
    <3>2. VerdictClosed(RowsOf(r,
                {e \in entries : Position(e.node) <= upTo}))
      BY <3>1, RowsClosed DEF entries
    <3> QED BY <3>2 DEF entries
  <2>3. VerdictClosed(audit')
    BY <2>1, <2>2, <1>2 DEF VerdictInv
  <2>4. \A q \in Runs : log'[q] = {} \/ log'[q] = log[q]
    BY <1>7 DEF AbortMidPersist, TypeOK
  <2> QED BY <1>7, <2>3, <2>4, <1>1 DEF AbortMidPersist, VerdictInv
<1> QED
  BY <1>3, <1>4, <1>5, <1>6, <1>7 DEF Next, Tick, vars, tables

-----------------------------------------------------------------------------
(* Theorems *)

LEMMA SpineInvInit == Init => SpineInv
<1> SUFFICES ASSUME Init PROVE SpineInv
  OBVIOUS
<1>1. TypeOK
  BY TypeInit
<1>2. RunInv
  BY SpineAssumption DEF Init, RunInv, InAct
<1>3. GateInv
  BY DEF Init, GateInv
<1>4. RowInv /\ ContactInv /\ LookupInv
  BY DEF Init, RowInv, ContactInv, LookupInv
<1>5. EntryInv /\ VerdictInv
  BY DEF Init, EntryInv, VerdictInv, VerdictClosed
<1> QED BY <1>1, <1>2, <1>3, <1>4, <1>5 DEF SpineInv

LEMMA SpineInvNext == SpineInv /\ [Next]_vars => SpineInv'
BY TypeNext, RunInvNext, GateInvNext, RowInvNext, ContactInvNext,
   LookupInvNext, EntryInvNext, VerdictInvNext DEF SpineInv

THEOREM Inductive == Spec => []SpineInv
BY SpineInvInit, SpineInvNext, PTL DEF Spec

\* The variables keep their types in every reachable state.
THEOREM TypeCorrect == Spec => []TypeOK
<1>1. SpineInv => TypeOK
  BY DEF SpineInv
<1> QED BY <1>1, Inductive, PTL

\* The run that inserted a fulfilment records its contact unless it dies
\* first, however the runs of the same offer interleave (nodes.act).
THEOREM InserterContactsAlways == Spec => []InserterContacts
<1>1. SpineInv => InserterContacts
  BY DEF SpineInv, RowInv, InserterContacts
<1> QED BY <1>1, Inductive, PTL

\* No contact without a fulfilled offer (nodes.act).
THEOREM ContactBackedAlways == Spec => []ContactBacked
<1>1. SpineInv => ContactBacked
  BY DEF SpineInv, ContactInv, ContactBacked
<1> QED BY <1>1, Inductive, PTL

\* The margin policy of the guardrail never fires (nodes.decide).
THEOREM MarginGateRedundantAlways == Spec => []MarginGateRedundant
<1>1. SpineInv => MarginGateRedundant
  BY DEF SpineInv, GateInv, MarginGateRedundant
<1> QED BY <1>1, Inductive, PTL

\* Nothing the graph fulfils has missed a gate, and a shadow run leaves no
\* trace but its audit entries (nodes.guardrail, act, outcome).
THEOREM GatedFulfilmentAlways == Spec => []GatedFulfilment
<1>1. SpineInv => GatedFulfilment
  <2> SUFFICES ASSUME SpineInv PROVE GatedFulfilment
    OBVIOUS
  <2>1. ASSUME NEW f \in fulfillments, ~IsChat(f.by)
        PROVE  /\ f.customer \in Consenting
               /\ Margin[f.customer] - Cost[f.arm] >= Floor[f.arm]
               /\ failed[f.by] = {}
    <3>1. /\ f.by \in Runs /\ request[f.by] # None
          /\ f.customer = request[f.by].customer
          /\ f.arm = offer[f.by] /\ f.arm \in Arms
          /\ f.customer \in Consenting /\ failed[f.by] = {}
      BY <2>1 DEF SpineInv, RowInv, TypeOK, Row, RowKey, KeyOf
    <3>2. f.arm \in Eligible(f.customer)
      BY <2>1, <3>1, SpineAssumption DEF SpineInv, GateInv
    <3> QED BY <3>1, <3>2, SpineAssumption DEF Eligible
  <2>2. ASSUME NEW r \in Runs, request[r] # None, request[r].holdout
        PROVE  ~Contacted(r) /\ r \notin trained /\ \A f \in fulfillments : f.by # r
    BY <2>2 DEF SpineInv, RowInv, ContactInv, LookupInv, Contacted
  <2> QED BY <2>1, <2>2 DEF GatedFulfilment
<1> QED BY <1>1, Inductive, PTL

\* The nightly hard check scan_guardrail_compliance finds nothing, even after
\* runs that died while they wrote their audit entries.
THEOREM GuardrailComplianceAlways == Spec => []GuardrailCompliance
<1>1. SpineInv => GuardrailCompliance
  BY DEF SpineInv, VerdictInv, VerdictClosed, HasVerdict, IsActed,
         GuardrailCompliance
<1> QED BY <1>1, Inductive, PTL

\* The spine keeps the contract of the ledger: a step that inserts a row is a
\* Grant, one that inserts a contact a Notify, one that makes audit entries
\* durable a Report; every other step leaves the ledger as it is.
THEOREM SpineImplementsLedger == Spec => ImplementsLedger
<1>1. Init => Ledger!Init
  BY DEF Init, Ledger!Init, LedgerReports
<1>2. SpineInv /\ SpineInv' /\ [Next]_vars => [Ledger!Next]_Ledger!vars
  <2> SUFFICES ASSUME SpineInv, SpineInv', [Next]_vars
               PROVE  [Ledger!Next]_Ledger!vars
    OBVIOUS
  <2>0. Stable
    BY StableNext DEF SpineInv
  <2> DEFINE granted == {<<RowKey(f), f.by>> : f \in fulfillments}
             notices == {<<KeyOfContact(x), x.run>> : x \in contacts}
             reports == LedgerReports(audit)
  <2>1. ASSUME UNCHANGED fulfillments PROVE UNCHANGED granted
    BY <2>1 DEF RowKey
  <2>2. ASSUME UNCHANGED contacts PROVE UNCHANGED notices
    <3>1. \A x \in contacts : KeyOfContact(x)' = KeyOfContact(x)
      BY <2>0 DEF SpineInv, ContactInv, TypeOK, Contact, Stable, KeyOfContact
    <3> QED BY <2>2, <3>1
  <2>3. \A a \in audit : IsActed(a) => KeyOf(a.by)' = KeyOf(a.by)
    BY <2>0 DEF SpineInv, EntryInv, EntryTrue, TypeOK, AuditRow, Stable, KeyOf
  <2>4. ASSUME UNCHANGED audit PROVE UNCHANGED reports
    BY <2>3, <2>4 DEF LedgerReports, IsActed
  <2>5. \A k : (\E g \in granted : g[1] = k) <=> Fulfilled(k)
    <3>1. ASSUME NEW k, NEW g \in granted, g[1] = k PROVE Fulfilled(k)
      BY <3>1 DEF Fulfilled
    <3>2. ASSUME NEW k, NEW f \in fulfillments, RowKey(f) = k
          PROVE  \E g \in granted : g[1] = k
      <4>1. <<RowKey(f), f.by>> \in granted /\ <<RowKey(f), f.by>>[1] = k
        BY <3>2
      <4> QED BY <4>1
    <3> QED BY <3>1, <3>2 DEF Fulfilled
  <2>6. ASSUME NEW r \in Runs, ActInsert(r)
        PROVE  [Ledger!Next]_Ledger!vars
    <3>1. UNCHANGED notices /\ UNCHANGED reports
      BY <2>2, <2>4, <2>6 DEF ActInsert
    <3>2. CASE Fulfilled(KeyOf(r))
      BY <2>1, <2>6, <3>1, <3>2 DEF ActInsert, AfterInsert, Ledger!vars
    <3>3. CASE ~Fulfilled(KeyOf(r))
      <4>1. fulfillments' = fulfillments \cup {InsertedRow(r)}
        BY <2>6, <3>3 DEF ActInsert, AfterInsert
      <4>2. RowKey(InsertedRow(r)) = KeyOf(r) /\ InsertedRow(r).by = r
        BY DEF RowKey, InsertedRow, KeyOf
      <4>3. granted' = granted \cup {<<KeyOf(r), r>>}
        BY <4>1, <4>2 DEF RowKey
      <4>4. KeyOf(r) \in Keys
        <5>1. pc[r] = "insert"
          BY <2>6 DEF ActInsert, At
        <5>2. request[r] \in Request /\ offer[r] \in Arms
          BY <5>1, StartedRequest DEF SpineInv, RunInv
        <5> QED BY <5>2 DEF KeyOf, Keys, Request
      <4>5. Ledger!Grant(KeyOf(r), r)
        BY <2>5, <3>1, <3>3, <4>3 DEF Ledger!Grant, Ledger!IsGranted
      <4> QED BY <4>4, <4>5 DEF Ledger!Next
    <3> QED BY <3>2, <3>3
  <2>7. ASSUME NEW r \in Runs, ActContact(r)
        PROVE  [Ledger!Next]_Ledger!vars
    <3>1. UNCHANGED granted /\ UNCHANGED reports
      BY <2>1, <2>4, <2>7 DEF ActContact
    <3>2. pc[r] = "contact"
      BY <2>7 DEF ActContact, At
    <3>3. Fulfilled(KeyOf(r)) /\ offer[r] \in Arms /\ request[r] \in Request
      BY <3>2, StartedRequest DEF SpineInv, LookupInv, RunInv
    <3>4. \A n \in notices : n[2] # r
      BY <3>2 DEF SpineInv, ContactInv, PastAct
    <3>5. notices' = notices \cup {<<KeyOf(r), r>>}
      <4>1. contacts' = contacts \cup {ContactRow(r)} /\ UNCHANGED offer
        BY <2>7 DEF ActContact, locals
      <4>2. KeyOfContact(ContactRow(r)) = KeyOf(r) /\ ContactRow(r).run = r
        BY DEF KeyOfContact, ContactRow, KeyOf
      <4>3. \A x : KeyOfContact(x)' = KeyOfContact(x)
        BY <4>1 DEF KeyOfContact
      <4> QED BY <4>1, <4>2, <4>3
    <3>6. Ledger!Notify(KeyOf(r), r)
      BY <2>5, <3>1, <3>3, <3>4, <3>5 DEF Ledger!Notify, Ledger!IsGranted
    <3>7. KeyOf(r) \in Keys
      BY <3>3 DEF KeyOf, Keys, Request
    <3> QED BY <3>6, <3>7 DEF Ledger!Next
  <2>8. ASSUME UNCHANGED <<fulfillments, contacts>>, audit \subseteq audit'
        PROVE  [Ledger!Next]_Ledger!vars
    <3>1. UNCHANGED granted /\ UNCHANGED notices
      BY <2>1, <2>2, <2>8
    <3>2. reports \subseteq reports'
      BY <2>3, <2>8 DEF LedgerReports, IsActed
    <3>3. ASSUME NEW s \in reports'
          PROVE  /\ s[2] \in Runs
                 /\ \E g \in granted' : g[1] = s[1]
                 /\ s[3] => <<s[1], s[2]>> \in notices'
      <4>1. PICK a \in audit' : /\ IsActed(a)
                                /\ s = <<KeyOf(a.by)', a.by, a.status = "FULFILLED">>
        BY <3>3 DEF LedgerReports, IsActed
      <4>2. a.by \in Runs /\ EntryTrue(a)'
        BY DEF SpineInv, EntryInv, TypeOK, AuditRow
      <4>3. \E f \in fulfillments' : RowKey(f) = KeyOf(a.by)'
        BY <4>1, <4>2 DEF EntryTrue, Fulfilled, RowKey
      <4>4. \E g \in granted' : g[1] = KeyOf(a.by)'
        <5>1. PICK f \in fulfillments' : RowKey(f) = KeyOf(a.by)'
          BY <4>3
        <5>2. /\ <<RowKey(f), f.by>> \in granted'
              /\ <<RowKey(f), f.by>>[1] = KeyOf(a.by)'
          BY <5>1 DEF RowKey
        <5> QED BY <5>2
      <4>5. ASSUME a.status = "FULFILLED"
            PROVE  <<KeyOf(a.by)', a.by>> \in notices'
        <5>1. PICK x \in contacts' : x.run = a.by
          BY <4>1, <4>2, <4>5 DEF EntryTrue, Contacted
        <5>2. KeyOfContact(x)' = KeyOf(a.by)'
          BY <5>1 DEF SpineInv, ContactInv
        <5> QED BY <5>1, <5>2
      <4> QED BY <4>1, <4>2, <4>4, <4>5
    <3> HIDE DEF granted, notices, reports
    <3>4. Ledger!Report
      BY <3>1, <3>2, <3>3
      DEF Ledger!Report, Ledger!Truthful, Ledger!IsGranted, granted, notices,
          reports
    <3> QED BY <3>4 DEF Ledger!Next
  <2>9. ASSUME NEW r \in Runs, Begin(r)
        PROVE  UNCHANGED <<fulfillments, contacts>> /\ audit \subseteq audit'
    BY <2>9, BeginCases DEF Start, tables
  <2>10. ASSUME NEW r \in Runs, Step(r)
         PROVE  \/ ActInsert(r) \/ ActContact(r)
                \/ /\ UNCHANGED <<fulfillments, contacts>>
                   /\ audit \subseteq audit'
    BY <2>10 DEF Step, Sense, Diagnose, Decide, Guardrail, ActNoAction,
                 ActShadow, ActLookup, Outcome, PersistAudit, tables
  <2>11. ASSUME NEW r \in Runs, Abort(r) \/ AbortMidPersist(r)
         PROVE  UNCHANGED <<fulfillments, contacts>> /\ audit \subseteq audit'
    BY <2>11 DEF Abort, AbortMidPersist, tables
  <2> QED
    BY <2>6, <2>7, <2>8, <2>9, <2>10, <2>11 DEF Next, Tick, vars, tables
<1> QED BY <1>1, <1>2, Inductive, PTL DEF Spec, ImplementsLedger, Ledger!Spec

-----------------------------------------------------------------------------
(* The frequency cap.  What a window holds is bounded together with what the *)
(* runs past the guardrail may still add: a verdict that passes finds the    *)
(* window below the cap and at most MaxActive runs in flight, and from then  *)
(* on a contact only moves a run from the one to the other.                  *)

Recent(c) == {y \in contacts : y.customer = c /\ ~IsChat(y.run) /\ y.at >= now - Window}
Pending(c) ==
    {r \in Runs : pc[r] \in InAct /\ ~IsChat(r) /\ request[r].customer = c /\ offer[r] \in Arms}
UpTo(x) ==
    {y \in contacts : /\ y.customer = x.customer /\ ~IsChat(y.run)
                      /\ x.at - Window <= y.at /\ y.at <= x.at}

CapInv ==
    /\ IsFiniteSet(contacts) /\ \A x \in contacts : x.at <= now
    /\ IsFiniteSet(InFlight) /\ Cardinality(InFlight) <= MaxActive
    /\ contacts # {} => MaxActive >= 1
    /\ MaxActive >= 1 =>
          \A c \in Customers :
              Cardinality(Recent(c)) + Cardinality(Pending(c)) <= FreqCapMax + MaxActive - 1
    /\ \A x \in contacts : Cardinality(UpTo(x)) <= FreqCapMax + MaxActive - 1

LEMMA CapInit == Init => CapInv
<1> SUFFICES ASSUME Init PROVE CapInv
  OBVIOUS
<1>1. /\ contacts = {} /\ InFlight = {} /\ \A c : Recent(c) = {} /\ Pending(c) = {}
  BY DEF Init, InFlight, Recent, Pending, InAct
<1>2. IsFiniteSet({}) /\ Cardinality({}) = 0
  BY FS_EmptySet
<1>3. MaxActive \in Nat /\ FreqCapMax \in Nat
  BY SpineAssumption
<1>4. MaxActive >= 1 => 0 + 0 <= FreqCapMax + MaxActive - 1
  BY <1>3
<1>5. MaxActive >= 1 =>
        \A c : Cardinality(Recent(c)) + Cardinality(Pending(c)) <= FreqCapMax + MaxActive - 1
  BY <1>1, <1>2, <1>4
<1>6. IsFiniteSet(InFlight) /\ Cardinality(InFlight) <= MaxActive /\ IsFiniteSet(contacts)
  BY <1>1, <1>2, <1>3
<1> QED BY <1>1, <1>5, <1>6 DEF CapInv

\* A pending run is in flight; the rows a window is made of are contacts.
LEMMA CapSets ==
    ASSUME CapInv
    PROVE  /\ MaxActive \in Nat /\ FreqCapMax \in Nat /\ Window \in Nat
           /\ Cardinality(InFlight) \in Nat
           /\ \A c : /\ Pending(c) \subseteq InFlight
                     /\ IsFiniteSet(Pending(c)) /\ Cardinality(Pending(c)) \in Nat
                     /\ Cardinality(Pending(c)) <= Cardinality(InFlight)
           /\ \A c : IsFiniteSet(Recent(c)) /\ Cardinality(Recent(c)) \in Nat
           /\ \A x : IsFiniteSet(UpTo(x)) /\ Cardinality(UpTo(x)) \in Nat
<1>1. MaxActive \in Nat /\ FreqCapMax \in Nat /\ Window \in Nat
  BY SpineAssumption
<1>2. \A c : Pending(c) \in SUBSET InFlight
  BY DEF Pending, InFlight, InAct
<1>3. \A c : Recent(c) \in SUBSET contacts
  BY DEF Recent
<1>4. \A x : UpTo(x) \in SUBSET contacts
  BY DEF UpTo
<1>5. IsFiniteSet(contacts) /\ IsFiniteSet(InFlight)
  BY DEF CapInv
<1> QED BY <1>1, <1>2, <1>3, <1>4, <1>5, FS_Subset, FS_CardinalityType

\* Who a contact is of, and whether the graph made it, does not change.
LEMMA ContactsFixed ==
    ASSUME SpineInv, Stable, NEW x \in contacts
    PROVE  /\ x.run \in Runs /\ x.customer \in Customers /\ x.at \in Nat
           /\ request[x.run]' = request[x.run] /\ IsChat(x.run)' = IsChat(x.run)
<1>1. x.run \in Runs /\ x.customer \in Customers /\ x.at \in Nat
  BY DEF SpineInv, TypeOK, Contact
<1>2. request[x.run] # None
  BY DEF SpineInv, ContactInv
<1>3. request[x.run]' = request[x.run]
  BY <1>1, <1>2 DEF Stable
<1> QED BY <1>1, <1>3 DEF IsChat

LEMMA WindowMoves ==
    ASSUME NEW earlier \in Nat, NEW later \in Nat, later >= earlier,
           NEW length \in Nat, NEW t \in Nat, t >= later - length
    PROVE  t >= earlier - length
OBVIOUS

\* Without a new contact, a customer's sum grows only by a verdict that found
\* the window below the cap.
LEMMA CapKept ==
    ASSUME SpineInv, CapInv, Stable, contacts' = contacts, now \in Nat, now' \in Nat, now' >= now,
           IsFiniteSet(InFlight'), Cardinality(InFlight)' <= MaxActive,
           \A c \in Customers :
               \/ Pending(c)' \subseteq Pending(c)
               \/ Cardinality(ContactsSince(c, now - Window)) < FreqCapMax
    PROVE  CapInv'
<1>1. MaxActive \in Nat /\ FreqCapMax \in Nat /\ Window \in Nat
  BY SpineAssumption
<1>2. \A x \in contacts : x.at \in Nat /\ IsChat(x.run)' = IsChat(x.run)
  BY ContactsFixed
<1>3. \A c : Recent(c)' \subseteq Recent(c)
  <2>1. \A t \in Nat : t >= now' - Window => t >= now - Window
    BY <1>1, WindowMoves
  <2> QED BY <1>2, <2>1 DEF Recent
<1>4. \A x : UpTo(x)' = UpTo(x)
  BY <1>2 DEF UpTo
<1>5. \A c : Pending(c)' \subseteq InFlight'
  BY DEF Pending, InFlight, InAct
<1>6. ASSUME MaxActive >= 1, NEW c \in Customers
      PROVE  Cardinality(Recent(c)') + Cardinality(Pending(c)') <= FreqCapMax + MaxActive - 1
  <2>1. /\ IsFiniteSet(Recent(c)) /\ IsFiniteSet(Pending(c))
        /\ Cardinality(Recent(c)) \in Nat /\ Cardinality(Pending(c)) \in Nat
    BY CapSets
  <2>2. /\ IsFiniteSet(Recent(c)') /\ Cardinality(Recent(c)') \in Nat
        /\ Cardinality(Recent(c)') <= Cardinality(Recent(c))
    BY <1>3, <2>1, FS_Subset, FS_CardinalityType
  <2>3. /\ IsFiniteSet(Pending(c)') /\ Cardinality(Pending(c)') \in Nat
        /\ Cardinality(Pending(c)') <= Cardinality(InFlight')
        /\ Cardinality(InFlight') \in Nat
    BY <1>5, FS_Subset, FS_CardinalityType
  <2>4. CASE Pending(c)' \subseteq Pending(c)
    <3>1. Cardinality(Pending(c)') <= Cardinality(Pending(c))
      BY <2>1, <2>4, FS_Subset
    <3>2. Cardinality(Recent(c)) + Cardinality(Pending(c)) <= FreqCapMax + MaxActive - 1
      BY <1>6 DEF CapInv
    <3> QED BY <1>1, <2>1, <2>2, <2>3, <3>1, <3>2
  <2>5. CASE Cardinality(ContactsSince(c, now - Window)) < FreqCapMax
    <3>1. Recent(c) \subseteq ContactsSince(c, now - Window)
      BY DEF Recent, ContactsSince
    <3>2. IsFiniteSet(ContactsSince(c, now - Window))
      BY FS_Subset DEF ContactsSince, CapInv
    <3>3. /\ Cardinality(Recent(c)) <= Cardinality(ContactsSince(c, now - Window))
          /\ Cardinality(ContactsSince(c, now - Window)) \in Nat
      BY <3>1, <3>2, FS_Subset, FS_CardinalityType
    <3>4. Cardinality(InFlight') <= MaxActive
      OBVIOUS
    <3> QED BY <1>1, <2>1, <2>2, <2>3, <2>5, <3>3, <3>4
  <2> QED BY <2>4, <2>5
<1>7. \A x \in contacts : x.at <= now'
  BY <1>2 DEF CapInv
<1> QED BY <1>4, <1>6, <1>7 DEF CapInv

\* record_contact: a run leaves the pending ones and its contact comes.
LEMMA CapMoves ==
    ASSUME SpineInv, CapInv, Stable, NEW r \in Runs, ActContact(r)
    PROVE  CapInv'
<1> DEFINE row == ContactRow(r)
<1>1. /\ contacts' = contacts \cup {row} /\ UNCHANGED <<request, offer, now>>
      /\ pc[r] = "contact" /\ pc'[r] \in {"done", "outcome"}
      /\ \A q \in Runs \ {r} : pc'[q] = pc[q]
  BY DEF ActContact, ActReturns, Goto, At, locals, SpineInv, TypeOK
<1>2. /\ now \in Nat /\ MaxActive \in Nat /\ FreqCapMax \in Nat /\ Window \in Nat
  BY SpineAssumption DEF SpineInv, TypeOK
<1>3. /\ row.run = r /\ row.at = now /\ row.customer = request[r].customer
      /\ request[r] \in Request /\ row.customer \in Customers
      /\ offer[r] \in Arms
  <2>1. request[r] \in Request /\ offer[r] \in Arms
    BY <1>1, StartedRequest DEF SpineInv, RunInv
  <2> QED BY <2>1 DEF ContactRow, Request
<1> HIDE DEF row
<1>4. r \in InFlight /\ InFlight' \subseteq InFlight
  BY <1>1 DEF InFlight
<1>5. /\ MaxActive >= 1 /\ IsFiniteSet(InFlight')
      /\ Cardinality(InFlight') <= MaxActive
  <2>1. Cardinality(InFlight) # 0 /\ Cardinality(InFlight) \in Nat
    BY <1>4, FS_EmptySet, FS_CardinalityType DEF CapInv
  <2>2. /\ IsFiniteSet(InFlight') /\ Cardinality(InFlight') <= Cardinality(InFlight)
        /\ Cardinality(InFlight') \in Nat
    BY <1>4, FS_Subset, FS_CardinalityType DEF CapInv
  <2>3. Cardinality(InFlight) <= MaxActive
    BY DEF CapInv
  <2> QED BY <1>2, <2>1, <2>2, <2>3
<1>6. IsFiniteSet(contacts') /\ \A x \in contacts' : x.at <= now'
  BY <1>1, <1>2, <1>3, FS_AddElement DEF CapInv
<1>7. \A x \in contacts : /\ x.at \in Nat /\ x.customer \in Customers
                          /\ IsChat(x.run)' = IsChat(x.run)
  BY ContactsFixed
<1>8. IsChat(r)' = IsChat(r)
  BY <1>1 DEF IsChat
<1>9. ASSUME NEW c \in Customers
      PROVE  /\ Cardinality(Recent(c)') + Cardinality(Pending(c)') <= FreqCapMax + MaxActive - 1
             /\ IsFiniteSet(Recent(c)')
             /\ Cardinality(Recent(c)') \in Nat /\ Cardinality(Pending(c)') \in Nat
  <2>1. /\ IsFiniteSet(Recent(c)) /\ IsFiniteSet(Pending(c))
        /\ Cardinality(Recent(c)) \in Nat /\ Cardinality(Pending(c)) \in Nat
    BY CapSets
  <2>2. Cardinality(Recent(c)) + Cardinality(Pending(c)) <= FreqCapMax + MaxActive - 1
    BY <1>5 DEF CapInv
  <2>3. Pending(c)' \subseteq Pending(c) \ {r}
    BY <1>1 DEF Pending, InAct, IsChat
  <2>4. CASE IsChat(r) \/ row.customer # c
    <3>1. Recent(c)' \subseteq Recent(c)
      BY <1>1, <1>3, <1>7, <1>8, <2>4 DEF Recent
    <3>2. /\ Cardinality(Recent(c)') <= Cardinality(Recent(c)) /\ IsFiniteSet(Recent(c)')
          /\ Cardinality(Pending(c)') <= Cardinality(Pending(c)) /\ IsFiniteSet(Pending(c)')
      BY <2>1, <2>3, <3>1, FS_Subset
    <3>3. Cardinality(Recent(c)') \in Nat /\ Cardinality(Pending(c)') \in Nat
      BY <3>2, FS_CardinalityType
    <3> QED BY <1>2, <2>1, <2>2, <3>2, <3>3
  <2>5. CASE ~IsChat(r) /\ row.customer = c
    <3>1. Recent(c)' \subseteq Recent(c) \cup {row}
      BY <1>1, <1>7 DEF Recent
    <3>2. r \in Pending(c)
      BY <1>1, <1>3, <2>5 DEF Pending, InAct
    <3>3. /\ IsFiniteSet(Recent(c) \cup {row}) /\ Cardinality(Recent(c) \cup {row}) \in Nat
          /\ Cardinality(Recent(c) \cup {row}) <= Cardinality(Recent(c)) + 1
      <4>1. /\ IsFiniteSet(Recent(c) \cup {row})
            /\ Cardinality(Recent(c) \cup {row}) =
                 IF row \in Recent(c) THEN Cardinality(Recent(c)) ELSE Cardinality(Recent(c)) + 1
        BY <2>1, FS_AddElement
      <4> QED BY <2>1, <4>1
    <3>4. /\ IsFiniteSet(Pending(c) \ {r}) /\ Cardinality(Pending(c) \ {r}) \in Nat
          /\ Cardinality(Pending(c) \ {r}) = Cardinality(Pending(c)) - 1
      BY <2>1, <3>2, FS_RemoveElement, FS_CardinalityType
    <3>5. /\ Cardinality(Recent(c)') <= Cardinality(Recent(c) \cup {row})
          /\ Cardinality(Pending(c)') <= Cardinality(Pending(c) \ {r})
          /\ IsFiniteSet(Recent(c)') /\ IsFiniteSet(Pending(c)')
      BY <2>3, <3>1, <3>3, <3>4, FS_Subset
    <3>6. Cardinality(Recent(c)') \in Nat /\ Cardinality(Pending(c)') \in Nat
      BY <3>5, FS_CardinalityType
    <3> QED BY <1>2, <2>1, <2>2, <3>3, <3>4, <3>5, <3>6
  <2> QED BY <2>4, <2>5
<1>10. ASSUME NEW x \in contacts'
       PROVE  Cardinality(UpTo(x)') <= FreqCapMax + MaxActive - 1
  <2>1. CASE x.at < now
    <3>1. x \in contacts
      BY <1>1, <1>2, <1>3, <2>1
    <3>2. UpTo(x)' = UpTo(x)
      BY <1>1, <1>2, <1>3, <1>7, <2>1, <3>1 DEF UpTo
    <3> QED BY <3>1, <3>2 DEF CapInv
  <2>2. CASE x.at = now
    <3>1. x.customer \in Customers
      BY <1>1, <1>3, <1>7
    <3>2. UpTo(x)' \subseteq Recent(x.customer)'
      BY <1>1, <2>2 DEF UpTo, Recent
    <3>3. /\ Cardinality(UpTo(x)') <= Cardinality(Recent(x.customer)')
          /\ Cardinality(UpTo(x)') \in Nat
      BY <1>9, <3>1, <3>2, FS_Subset, FS_CardinalityType
    <3>4. /\ Cardinality(Recent(x.customer)') + Cardinality(Pending(x.customer)')
               <= FreqCapMax + MaxActive - 1
          /\ Cardinality(Recent(x.customer)') \in Nat /\ Cardinality(Pending(x.customer)') \in Nat
      BY <1>9, <3>1
    <3> QED BY <1>2, <3>3, <3>4
  <2>3. x.at \in Nat /\ x.at <= now
    BY <1>1, <1>2, <1>3, <1>6, <1>7
  <2> QED BY <1>2, <2>1, <2>2, <2>3
<1> QED BY <1>5, <1>6, <1>9, <1>10 DEF CapInv

\* A run other than one that passes the guardrail becomes pending nowhere.
LEMMA PendingKept ==
    ASSUME SpineInv, NEW r \in Runs, UNCHANGED request,
           \A q \in Runs \ {r} : pc'[q] = pc[q] /\ offer'[q] = offer[q],
           pc'[r] \in InAct => pc[r] \in InAct /\ offer'[r] = offer[r]
    PROVE  \A c : Pending(c)' \subseteq Pending(c)
<1> QED BY DEF Pending, IsChat

LEMMA FlightKept ==
    ASSUME CapInv, NEW r \in Runs, r \in InFlight, \A q \in Runs \ {r} : pc'[q] = pc[q]
    PROVE  IsFiniteSet(InFlight') /\ Cardinality(InFlight)' <= MaxActive
<1>1. InFlight' \subseteq InFlight
  BY DEF InFlight
<1>2. /\ IsFiniteSet(InFlight') /\ Cardinality(InFlight') <= Cardinality(InFlight)
      /\ IsFiniteSet(InFlight) /\ Cardinality(InFlight) <= MaxActive
  BY <1>1, FS_Subset DEF CapInv
<1>3. Cardinality(InFlight') \in Nat /\ Cardinality(InFlight) \in Nat /\ MaxActive \in Nat
  BY <1>2, FS_CardinalityType, SpineAssumption
<1> QED BY <1>2, <1>3

LEMMA CapBegins ==
    ASSUME SpineInv, CapInv, Stable, NEW r \in Runs, Begin(r)
    PROVE  CapInv'
<1>1. PICK req \in Request :
        /\ Start(r, req)
        /\ \/ req.entry # "chat" /\ Goto(r, "sense") /\ offer' = offer
           \/ /\ req.entry = "chat" /\ Goto(r, "act")
              /\ \E arm \in Arms : offer' = [offer EXCEPT ![r] = arm]
  BY BeginCases
<1>2. /\ pc[r] = "idle" /\ Cardinality(InFlight) < MaxActive
      /\ request' = [request EXCEPT ![r] = req] /\ UNCHANGED <<contacts, now>>
  BY <1>1 DEF Start, At, tables
<1>3. \A q \in Runs \ {r} : pc'[q] = pc[q] /\ offer'[q] = offer[q] /\ request'[q] = request[q]
  BY <1>1, <1>2 DEF Goto, SpineInv, TypeOK
<1>4. request'[r] = req /\ (pc'[r] \in InAct => req.entry = "chat")
  BY <1>1, <1>2 DEF Goto, InAct, SpineInv, TypeOK
<1>5. \A c : Pending(c)' \subseteq Pending(c)
  BY <1>3, <1>4 DEF Pending, IsChat
<1>6. IsFiniteSet(InFlight') /\ Cardinality(InFlight)' <= MaxActive
  <2>1. InFlight' \subseteq InFlight \cup {r}
    BY <1>3 DEF InFlight
  <2>2. /\ IsFiniteSet(InFlight \cup {r})
        /\ Cardinality(InFlight \cup {r}) =
             IF r \in InFlight THEN Cardinality(InFlight) ELSE Cardinality(InFlight) + 1
    BY FS_AddElement DEF CapInv
  <2>3. /\ IsFiniteSet(InFlight')
        /\ Cardinality(InFlight') <= Cardinality(InFlight \cup {r})
    BY <2>1, <2>2, FS_Subset
  <2>4. Cardinality(InFlight') \in Nat /\ Cardinality(InFlight) \in Nat /\ MaxActive \in Nat
    BY <2>3, FS_CardinalityType, SpineAssumption DEF CapInv
  <2> QED BY <1>2, <2>2, <2>3, <2>4
<1>7. now \in Nat
  BY DEF SpineInv, TypeOK
<1> QED BY <1>2, <1>5, <1>6, <1>7, CapKept

\* A verdict lets a run through only if the window is below the cap.
LEMMA CapGates ==
    ASSUME SpineInv, CapInv, Stable, NEW r \in Runs, Guardrail(r)
    PROVE  CapInv'
<1>1. /\ pc[r] = "guardrail" /\ UNCHANGED <<request, offer, contacts, now>>
      /\ \A q \in Runs \ {r} : pc'[q] = pc[q]
      /\ offer[r] \in Arms /\ pc'[r] \in InAct =>
            Cardinality(ContactsSince(request[r].customer, now - Window)) < FreqCapMax
  <2>1. /\ pc[r] = "guardrail" /\ UNCHANGED <<request, offer, contacts, now>>
        /\ \A q \in Runs \ {r} : pc'[q] = pc[q]
    BY DEF Guardrail, At, Goto, locals, tables, SpineInv, TypeOK
  <2>2. ASSUME offer[r] \in Arms, pc'[r] \in InAct
        PROVE  Cardinality(ContactsSince(request[r].customer, now - Window)) < FreqCapMax
    <3>1. offer[r] # NoAction
      BY <2>2, SpineAssumption
    <3>2. FailedPolicies(r) = {}
      BY <2>2, <3>1 DEF Guardrail, Decision, Goto, InAct, SpineInv, TypeOK
    <3>3. ~AtCap(request[r].customer)
      BY <3>2 DEF FailedPolicies, Policies
    <3>4. Cardinality(ContactsSince(request[r].customer, now - Window)) \in Nat /\ FreqCapMax \in Nat
      BY FS_Subset, FS_CardinalityType, SpineAssumption DEF ContactsSince, CapInv
    <3> QED BY <3>3, <3>4 DEF AtCap
  <2> QED BY <2>1, <2>2
<1>2. r \in InFlight /\ now \in Nat
  BY <1>1 DEF InFlight, SpineInv, TypeOK
<1>3. ASSUME NEW c \in Customers
      PROVE  \/ Pending(c)' \subseteq Pending(c)
             \/ Cardinality(ContactsSince(c, now - Window)) < FreqCapMax
  BY <1>1 DEF Pending, IsChat
<1>4. IsFiniteSet(InFlight') /\ Cardinality(InFlight)' <= MaxActive
  BY <1>1, <1>2, FlightKept
<1> QED BY <1>1, <1>2, <1>3, <1>4, CapKept

LEMMA CapInvNext == SpineInv /\ CapInv /\ [Next]_vars => CapInv'
<1> SUFFICES ASSUME SpineInv, CapInv, [Next]_vars PROVE CapInv'
  OBVIOUS
<1>1. Stable /\ now \in Nat
  BY StableNext DEF SpineInv, TypeOK
<1>2. ASSUME NEW r \in Runs, UNCHANGED <<request, contacts, now>>, r \in InFlight,
             \A q \in Runs \ {r} : pc'[q] = pc[q] /\ offer'[q] = offer[q],
             pc'[r] \in InAct => pc[r] \in InAct /\ offer'[r] = offer[r]
      PROVE  CapInv'
  <2>1. \A c : Pending(c)' \subseteq Pending(c)
    BY <1>2, PendingKept
  <2>2. IsFiniteSet(InFlight') /\ Cardinality(InFlight)' <= MaxActive
    BY <1>2, FlightKept
  <2> QED BY <1>1, <1>2, <2>1, <2>2, CapKept
<1>3. ASSUME NEW r \in Runs, Step(r), ~Guardrail(r), ~ActContact(r)
      PROVE  CapInv'
  <2>1. UNCHANGED <<request, contacts, now>> /\ r \in InFlight
    BY <1>3 DEF Step, Sense, Diagnose, Decide, ActNoAction, ActShadow, ActLookup, ActInsert,
                Outcome, PersistAudit, InFlight, At, tables
  <2>2. \A q \in Runs \ {r} : pc'[q] = pc[q] /\ offer'[q] = offer[q]
    BY <1>3 DEF Step, Sense, Diagnose, Decide, ActNoAction, ActShadow, ActLookup, ActInsert,
                ActReturns, Outcome, PersistAudit, Goto, locals, SpineInv, TypeOK
  <2>3. pc'[r] \in InAct => pc[r] \in InAct /\ offer'[r] = offer[r]
    BY <1>3 DEF Step, Sense, Diagnose, Decide, ActNoAction, ActShadow, ActLookup, ActInsert,
                ActReturns, Outcome, PersistAudit, Goto, At, InAct, locals, SpineInv, TypeOK
  <2> QED BY <1>2, <2>1, <2>2, <2>3
<1>4. ASSUME NEW r \in Runs, Abort(r) \/ AbortMidPersist(r)
      PROVE  CapInv'
  BY <1>2, <1>4 DEF Abort, AbortMidPersist, Goto, At, InAct, InFlight, locals, tables,
                    SpineInv, TypeOK
<1>5. CASE Tick \/ UNCHANGED vars
  <2>1. /\ UNCHANGED <<pc, request, offer, contacts>> /\ now' \in Nat /\ now' >= now
    BY <1>1, <1>5 DEF Tick, vars, locals, tables
  <2>2. /\ \A c : Pending(c)' = Pending(c)
        /\ InFlight' = InFlight
    BY <2>1 DEF Pending, InFlight, IsChat
  <2>3. IsFiniteSet(InFlight) /\ Cardinality(InFlight) <= MaxActive
    BY DEF CapInv
  <2> QED BY <1>1, <2>1, <2>2, <2>3, CapKept
<1> QED BY <1>1, <1>3, <1>4, <1>5, CapBegins, CapGates, CapMoves DEF Next

\* graph/nodes.py:275, 378: contacts are counted by the guardrail and added by
\* Act, so concurrent runs pass the cap together; but for every number of runs,
\* window and clock, by no more than the other runs that can be in flight.
THEOREM FrequencyCapUpToOverlapAlways == Spec => []FrequencyCapUpToOverlap
<1>1. CapInv => FrequencyCapUpToOverlap
  BY DEF CapInv, FrequencyCapUpToOverlap, UpTo
<1> QED BY <1>1, CapInit, CapInvNext, Inductive, PTL DEF Spec
=============================================================================
