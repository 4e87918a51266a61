----------------------------- MODULE Negotiation -----------------------------
(***************************************************************************)
(* One negotiation: a RetentionChat (chat/agent.py) with its offer ladder  *)
(* (chat/ladder.py), driven by run_negotiation (chat/runner.py), which     *)
(* alternates with the customer, or by the page Negotiation.tsx over       *)
(* POST /api/chat/{id}/turn (api/routes_chat.py), where nothing keeps a    *)
(* second turn from starting while one is in flight: the Send button is    *)
(* disabled, the Enter key is not, and each turn runs respond() in a worker *)
(* thread on the session's one RetentionChat.                              *)
(*                                                                         *)
(* An action is a piece of respond() between two points where another      *)
(* thread may act: the LLM calls, the statements of Act that commit, and   *)
(* the checks whose outcome a later statement relies on.                   *)
(***************************************************************************)
EXTENDS Integers, Sequences, FiniteSets

CONSTANTS
    Turns,         \* the customer's turns: bounds the conversation
    Arms, None,
    Cost, Rank,    \* per arm: euros, and its place in offers.yaml
    Causes, Fits,  \* per arm: fits_causes
    Cap,           \* authority_cap, 80.0 in every caller
    HandoffAfter,  \* turns of both speakers after which to hand off, 8
    MaxTurns,      \* max_turns of run_negotiation, 8
    Drivers,       \* who may drive the session
    MaxInFlight,   \* bound: turns of one page session in flight
    MaxFails       \* bound: turns that raise

AllDrivers == {"runner", "page"}

ASSUME NegotiationAssumption ==
    /\ IsFiniteSet(Arms)
    /\ None \notin Arms
    /\ None \notin [status : {"ACCEPTED", "ESCALATED", "HANDOFF"},
                    offer : Arms \cup {None}]
    /\ Cost \in [Arms -> Nat] /\ Rank \in [Arms -> Nat]
    /\ Fits \in [Arms -> SUBSET Causes] /\ Cap \in Nat
    /\ HandoffAfter \in Nat /\ MaxTurns \in Nat
    /\ Drivers \subseteq AllDrivers
    /\ MaxInFlight \in Nat /\ MaxFails \in Nat

VARIABLES
    driver,
    rungs,         \* OfferLadder._rungs
    position,      \* OfferLadder._position
    current,       \* RetentionChat._current_offer
    awaiting,      \* RetentionChat._awaiting_confirm
    status,        \* DialogueState.status
    commitments,   \* DialogueState.commitments, as a set
    conceded,      \* DialogueState.concessions_made
    pc,            \* where each turn's respond() is
    yes,           \* does the turn's text hold a word of _ACCEPT_WORDS?
    heard,         \* what perceive made of the turn
    held,          \* locals accepted_offer and nxt
    already,       \* Act's local
    fulfillments,  \* FULFILLMENTS rows of this session's customer and campaign
    contacts,      \* GUARDRAIL_CONTACTS rows of this session
    final, result, \* run_negotiation's final_offer and what it returns
    prompt,        \* history: the offer whose CONFIRM_ACT reply the customer
                   \* has in front of them, None after any other reply
    seen,          \* history: prompt when each turn was sent
    orderly        \* history: every turn was sent after the answer to the last

ladder == <<rungs, position, current, conceded>>
dialogue == <<awaiting, status, commitments>>
turn == <<yes, heard, held, already>>
tables == <<fulfillments, contacts>>
runner == <<final, result>>
history == <<prompt, seen, orderly>>
vars == <<driver, ladder, dialogue, pc, turn, tables, runner, history>>

-----------------------------------------------------------------------------

Statuses == {"ACTIVE", "ACCEPTED", "ESCALATED", "HANDOFF"}

\* What next_act and the NEGOTIATE branch tell apart in a Perception, in the
\* order they test it: understanding below 0.6, sentiment below -0.6,
\* offer_response with sentiment above 0.4, another negotiating intent, the rest.
Perceptions == {"unclear", "angry", "accepting", "haggling", "other"}

Locations == {"idle", "perceive", "gate", "choose", "negotiate", "open",
              "opened", "haggle", "advance", "word", "confirm",
              "lookup", "insert", "contact", "accepted", "done", "failed"}

Ended == {"done", "failed"}
Started == {t \in Turns : pc[t] # "idle"}
InFlight == {t \in Started : pc[t] \notin Ended}

TypeOK ==
    /\ driver \in AllDrivers
    /\ rungs \in Seq(Arms) /\ position \in Nat
    /\ current \in Arms \cup {None} /\ conceded \in Seq(Arms)
    /\ awaiting \in BOOLEAN /\ status \in Statuses
    /\ commitments \subseteq Arms
    /\ pc \in [Turns -> Locations] /\ yes \in [Turns -> BOOLEAN]
    /\ heard \in [Turns -> Perceptions]
    /\ held \in [Turns -> Arms \cup {None}] /\ already \in [Turns -> BOOLEAN]
    /\ fulfillments \subseteq [arm : Arms, by : Turns]
    /\ contacts \subseteq [arm : Arms, by : Turns]
    /\ final \in Arms \cup {None}
    /\ result \in [status : Statuses \ {"ACTIVE"}, offer : Arms \cup {None}]
                     \cup {None}
    /\ prompt \in Arms \cup {None} /\ seen \in [Turns -> Arms \cup {None}]
    /\ orderly \in BOOLEAN

-----------------------------------------------------------------------------
(* The ladder: the offers that fit a diagnosed cause, cheapest first; the   *)
(* sort is stable, so equal costs keep the order of the catalog.           *)

Fitting(tags) == {a \in Arms : Fits[a] \cap tags # {}}

Dearer(a, b) ==               \* variant: reverse=True
    \/ Cost[a] > Cost[b]
    \/ Cost[a] = Cost[b] /\ Rank[a] < Rank[b]

Before(a, b) ==
    \/ Cost[a] < Cost[b]
    \/ Cost[a] = Cost[b] /\ Rank[a] < Rank[b]

Ladders(tags) ==
    {s \in [1..Cardinality(Fitting(tags)) -> Fitting(tags)] :
        \A i, j \in DOMAIN s : i < j => Before(s[i], s[j])}

-----------------------------------------------------------------------------
(* The drivers *)

At(t, loc) == pc[t] = loc
Goto(t, loc) == pc' = [pc EXCEPT ![t] = loc]

\* len(state.turns): respond appends the customer's turn, _emit the answer.
Length == Cardinality(Started) + Cardinality({t \in Turns : pc[t] = "done"})

RunnerGoesOnRegardless ==     \* variant: the loop does not break on a status
    /\ InFlight = {} /\ result = None
    /\ Cardinality(Started) < MaxTurns
    /\ \A t \in Turns : pc[t] # "failed"

RunnerGoesOn ==
    /\ InFlight = {} /\ result = None
    /\ status = "ACTIVE"
    /\ Cardinality(Started) < MaxTurns
    /\ \A t \in Turns : pc[t] # "failed"

Submit(t) ==
    /\ At(t, "idle")
    /\ \/ driver = "runner" /\ RunnerGoesOn
       \/ driver = "page" /\ Cardinality(InFlight) < MaxInFlight
    /\ Goto(t, "perceive")
    /\ \E w \in BOOLEAN : yes' = [yes EXCEPT ![t] = w]
    /\ seen' = [seen EXCEPT ![t] = prompt]
    /\ orderly' = (orderly /\ InFlight = {})
    /\ UNCHANGED <<driver, ladder, dialogue, heard, held, already, tables,
                   runner, prompt>>

EndsOnStatus ==               \* variant: the turns are not counted
    status # "ACTIVE"

Ends == status # "ACTIVE" \/ Cardinality(Started) = MaxTurns

\* Past the loop: an ACTIVE dialogue becomes HANDOFF.
Finish ==
    /\ driver = "runner" /\ result = None
    /\ InFlight = {} /\ \A t \in Turns : pc[t] # "failed"
    /\ Ends
    /\ LET s == IF status = "ACTIVE" THEN "HANDOFF" ELSE status
       IN result' = [status |-> s,
                     offer |-> IF s = "ACCEPTED" THEN final ELSE None]
    /\ UNCHANGED <<driver, ladder, dialogue, pc, turn, tables, final, history>>

\* The operator at stdin enters an empty line; an empty page never sends.
Leave ==
    /\ driver = "runner" /\ RunnerGoesOn
    /\ result' = [status |-> "HANDOFF", offer |-> None]
    /\ UNCHANGED <<driver, ladder, dialogue, pc, turn, tables, final, history>>

-----------------------------------------------------------------------------
(* respond() *)

\* _emit and what its caller makes of the reply.  A page may lose it: the
\* connection dropped, the thread went on.
Reply(t, s, offer, shown) ==
    /\ status' = s
    /\ Goto(t, "done")
    /\ final' = IF driver = "runner" /\ s = "ACCEPTED" /\ offer # None
                THEN offer ELSE final
    /\ \/ prompt' = shown /\ UNCHANGED orderly
       \/ driver = "page" /\ orderly' = FALSE /\ UNCHANGED prompt
    /\ UNCHANGED <<driver, turn, tables, result, seen>>

\* The LLM call of perceive.
Perceive(t) ==
    /\ At(t, "perceive")
    /\ \E p \in Perceptions : heard' = [heard EXCEPT ![t] = p]
    /\ Goto(t, "gate")
    /\ UNCHANGED <<driver, ladder, dialogue, yes, held, already, tables,
                   runner, history>>

GateKeepsWaiting(t) ==        \* variant: the flag survives backing out
    /\ At(t, "gate")
    /\ IF awaiting /\ yes[t]
       THEN /\ held' = [held EXCEPT ![t] = current]
            /\ Goto(t, "lookup")
       ELSE Goto(t, "choose") /\ UNCHANGED held
    /\ UNCHANGED <<driver, ladder, dialogue, yes, heard, already, tables,
                   runner, history>>

\* The confirmation gate.
Gate(t) ==
    /\ At(t, "gate")
    /\ IF awaiting /\ yes[t]
       THEN /\ held' = [held EXCEPT ![t] = current]
            /\ Goto(t, "lookup")
            /\ UNCHANGED awaiting
       ELSE /\ awaiting' = FALSE
            /\ Goto(t, "choose")
            /\ UNCHANGED held
    /\ UNCHANGED <<driver, ladder, status, commitments, yes, heard, already,
                   tables, runner, history>>

\* next_act.  CLARIFY and HANDOFF answer at once.
Clarify(t) ==
    /\ At(t, "choose") /\ heard[t] = "unclear"
    /\ Reply(t, status, current, None)
    /\ UNCHANGED <<ladder, awaiting, commitments>>

TooLong == Length > HandoffAfter

Handoff(t) ==
    /\ At(t, "choose") /\ heard[t] \notin {"unclear", "angry"}
    /\ TooLong
    /\ Reply(t, "HANDOFF", None, None)
    /\ UNCHANGED <<ladder, awaiting, commitments>>

Choose(t) ==
    /\ At(t, "choose")
    /\ \/ heard[t] = "angry" /\ Goto(t, "word")
       \/ heard[t] = "other" /\ ~TooLong /\ Goto(t, "word")
       \/ heard[t] \in {"accepting", "haggling"} /\ ~TooLong /\ Goto(t, "negotiate")
    /\ UNCHANGED <<driver, ladder, dialogue, turn, tables, runner, history>>

NegotiateAccepts(t) ==        \* variant: acceptance is tested before opening
    /\ At(t, "negotiate")
    /\ Goto(t, CASE heard[t] = "accepting" -> "haggle"
                 [] heard[t] # "accepting" /\ current = None -> "open"
                 [] OTHER -> "haggle")
    /\ UNCHANGED <<driver, ladder, dialogue, turn, tables, runner, history>>

Negotiate(t) ==
    /\ At(t, "negotiate")
    /\ Goto(t, IF current = None THEN "open" ELSE "haggle")
    /\ UNCHANGED <<driver, ladder, dialogue, turn, tables, runner, history>>

\* OfferLadder.open; the cap is not looked at.
Open(t) ==
    /\ At(t, "open") /\ rungs # <<>>
    /\ position' = 1 /\ current' = rungs[1]
    /\ Goto(t, "opened")
    /\ UNCHANGED <<driver, rungs, conceded, dialogue, turn, tables, runner,
                   history>>

NothingFits(t) ==
    /\ At(t, "open") /\ rungs = <<>>
    /\ Reply(t, "ESCALATED", None, None)
    /\ UNCHANGED <<ladder, awaiting, commitments>>

Accept(t) ==
    /\ pc[t] \in {"opened", "haggle"} /\ heard[t] = "accepting"
    /\ awaiting' = TRUE
    /\ Goto(t, "confirm")
    /\ UNCHANGED <<driver, ladder, status, commitments, turn, tables, runner,
                   history>>

Present(t) ==
    /\ At(t, "opened") /\ heard[t] = "haggling"
    /\ Goto(t, "word")
    /\ UNCHANGED <<driver, ladder, dialogue, turn, tables, runner, history>>

OnlyIfThere ==                \* variant: the cap is not looked at
    position < Len(rungs)

\* OfferLadder.concede: is there a next rung within the authority?
CanConcede == position < Len(rungs) /\ Cost[rungs[position + 1]] <= Cap

Concede(t) ==
    /\ At(t, "haggle") /\ heard[t] = "haggling"
    /\ CanConcede
    /\ held' = [held EXCEPT ![t] = rungs[position + 1]]
    /\ Goto(t, "advance")
    /\ UNCHANGED <<driver, ladder, dialogue, yes, heard, already, tables,
                   runner, history>>

Exhausted(t) ==
    /\ At(t, "haggle") /\ heard[t] = "haggling"
    /\ ~CanConcede
    /\ Reply(t, "ESCALATED", None, None)
    /\ UNCHANGED <<ladder, awaiting, commitments>>

\* The rest of concede and the statements after it.
Advance(t) ==
    /\ At(t, "advance")
    /\ position' = position + 1
    /\ current' = held[t]
    /\ conceded' = Append(conceded, held[t])
    /\ Goto(t, "word")
    /\ UNCHANGED <<driver, rungs, dialogue, turn, tables, runner, history>>

\* The LLM has worded a reply that asks for nothing.
Word(t) ==
    /\ At(t, "word")
    /\ Reply(t, status, current, None)
    /\ UNCHANGED <<ladder, awaiting, commitments>>

\* The LLM has worded CONFIRM_ACT; the offer is read again after the call.
Confirm(t) ==
    /\ At(t, "confirm")
    /\ commitments' = commitments \cup {current}
    /\ Reply(t, status, current, current)
    /\ UNCHANGED <<ladder, awaiting>>

-----------------------------------------------------------------------------
(* _fulfill_via_act_node: the three statements of Act that RetentionSpine  *)
(* describes as ActLookup, ActInsert and ActContact.                       *)

Fulfilled(arm) == \E f \in fulfillments : f.arm = arm
RowOf(t) == [arm |-> held[t], by |-> t]

Lookup(t) ==
    /\ At(t, "lookup")
    /\ already' = [already EXCEPT ![t] = Fulfilled(held[t])]
    /\ Goto(t, "insert")
    /\ UNCHANGED <<driver, ladder, dialogue, yes, heard, held, tables, runner,
                   history>>

InsertUnlessSeen(t) ==        \* variant: no ON CONFLICT DO NOTHING
    IF already[t] THEN fulfillments ELSE fulfillments \cup {RowOf(t)}

AfterInsert(t) ==
    IF Fulfilled(held[t]) THEN fulfillments ELSE fulfillments \cup {RowOf(t)}

Insert(t) ==
    /\ At(t, "insert")
    /\ fulfillments' = AfterInsert(t)
    /\ Goto(t, IF already[t] THEN "accepted" ELSE "contact")
    /\ UNCHANGED <<driver, ladder, dialogue, turn, contacts, runner, history>>

RecordContact(t) ==
    /\ At(t, "contact")
    /\ contacts' = contacts \cup {RowOf(t)}
    /\ Goto(t, "accepted")
    /\ UNCHANGED <<driver, ladder, dialogue, turn, fulfillments, runner, history>>

\* The flag stays set: the session takes further turns.
Accepted(t) ==
    /\ At(t, "accepted")
    /\ Reply(t, "ACCEPTED", held[t], held[t])
    /\ UNCHANGED <<ladder, awaiting, commitments>>

\* perceive or a database call raises: the turn ends in an error event, what
\* it has changed so far stays.
Fail(t) ==
    /\ pc[t] \in {"perceive", "lookup", "insert", "contact"}
    /\ Cardinality({u \in Turns : pc[u] = "failed"}) < MaxFails
    /\ Goto(t, "failed")
    /\ UNCHANGED <<driver, ladder, dialogue, turn, tables, runner, history>>

-----------------------------------------------------------------------------

Init ==
    /\ driver \in Drivers
    /\ \E tags \in SUBSET Causes : rungs \in Ladders(tags)
    /\ position = 0 /\ current = None /\ conceded = <<>>
    /\ awaiting = FALSE /\ status = "ACTIVE" /\ commitments = {}
    /\ pc = [t \in Turns |-> "idle"] /\ yes = [t \in Turns |-> FALSE]
    /\ heard = [t \in Turns |-> "other"] /\ held = [t \in Turns |-> None]
    /\ already = [t \in Turns |-> FALSE]
    /\ fulfillments = {} /\ contacts = {}
    /\ final = None /\ result = None
    /\ prompt = None /\ seen = [t \in Turns |-> None] /\ orderly = TRUE

Respond(t) ==
    \/ Perceive(t) \/ Gate(t) \/ Clarify(t) \/ Handoff(t) \/ Choose(t)
    \/ Negotiate(t) \/ Open(t) \/ NothingFits(t) \/ Accept(t) \/ Present(t)
    \/ Concede(t) \/ Exhausted(t) \/ Advance(t) \/ Word(t) \/ Confirm(t)
    \/ Lookup(t) \/ Insert(t) \/ RecordContact(t) \/ Accepted(t)

Next ==
    \/ \E t \in Turns : Submit(t) \/ Respond(t) \/ Fail(t)
    \/ Finish \/ Leave

Spec == Init /\ [][Next]_vars

\* LLM and database calls return (they have timeouts); run_negotiation is a
\* loop on a live thread whose persona answers.
RunnerStep == driver = "runner" /\ (Finish \/ \E t \in Turns : Submit(t))
FairSpec ==
    Spec /\ WF_vars(RunnerStep) /\ \A t \in Turns : WF_vars(Respond(t))

-----------------------------------------------------------------------------
(* Safety, for overlapping turns too unless "orderly" is assumed. *)

\* agent.py:123: the flag is only ever set alongside an offer, so the
\* RuntimeError of the gate is unreachable; no interleaving of turns reaches it.
AwaitingHasOffer ==
    /\ awaiting => current # None
    /\ \A t \in Turns : pc[t] \in {"lookup", "insert", "contact", "accepted"}
                            => held[t] # None

\* agent.py:9: nothing is fulfilled without a CONFIRM_ACT reply that named the
\* offer and a later yes to it, when each turn waits for the last one's reply:
\* whatever was conceded, backed out of, asked or failed in between.
Confirmed(f) == yes[f.by] /\ seen[f.by] = f.arm /\ f.arm \in commitments
ConfirmedThenYes == orderly => \A f \in fulfillments : Confirmed(f)

\* The authority cap bounds every concession and so every fulfilment beyond
\* the opening rung (ladder.concede), though two turns may concede at once
\* and skip a rung.
WithinAuthority ==
    \A a \in Arms : a \in {conceded[i] : i \in DOMAIN conceded} \/ Fulfilled(a) =>
        Cost[a] <= Cap \/ a = rungs[1]

\* Between turns of an orderly session the offer on the table is the ladder's
\* rung, reached by conceding one rung after the other, each no cheaper than
\* the one before (ladder.open, concede).
OnTheTable ==
    orderly /\ InFlight = {} =>
        /\ current = IF position = 0 THEN None ELSE rungs[position]
        /\ conceded = SubSeq(rungs, 2, position)
        /\ \A i \in 1..(position - 1) : Cost[rungs[i]] <= Cost[rungs[i + 1]]

\* What run_negotiation returns is what happened: ACCEPTED with the one offer
\* that was fulfilled, or no offer and nothing fulfilled.
RunnerOutcome ==
    result # None =>
        /\ result.status = "ACCEPTED" <=> result.offer # None
        /\ {f.arm : f \in fulfillments} = {result.offer} \ {None}

\* Overlapping turns keep the contract of the tables: see OfferLedger.
Ledger == INSTANCE OfferLedger WITH
    Runs <- Turns, Keys <- Arms,
    granted <- {<<f.arm, f.by>> : f \in fulfillments},
    notices <- {<<x.arm, x.by>> : x \in contacts},
    reports <- {}
ImplementsLedger == Ledger!Spec

-----------------------------------------------------------------------------
(* Liveness, under FairSpec. *)

\* run_negotiation comes to an end by itself, unless a turn raises.
RunnerEnds ==
    driver = "runner" ~> result # None \/ \E t \in Turns : pc[t] = "failed"

-----------------------------------------------------------------------------
(* What the repository says and the code does not do. *)

\* agent.py:9-14: "no fulfillment without CONFIRM_ACT + a separate, later
\* explicit yes turn", whoever drives the session.
SeparateLaterYes == \A f \in fulfillments : Confirmed(f)
=============================================================================
