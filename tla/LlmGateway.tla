----------------------------- MODULE LlmGateway -----------------------------
(***************************************************************************)
(* One logical call of an LLM (llm.py): the budget check (budget.py), the  *)
(* structured parse with its fallback to JSON mode and one repair, and     *)
(* under each of them the retry loop and the metering.                     *)
(*                                                                         *)
(* A logical call is named after the thread that makes it: a request's, or *)
(* one of the two that System-2's council (graph/system2.py) submits to a   *)
(* thread pool of its own.  One tenant, or none (scoped = {}: the commands) *)
(* What a reply says is left out: it parses or does not.                   *)
(***************************************************************************)
EXTENDS Integers, FiniteSets

CONSTANTS
    Callers, None,
    PoolOf,       \* the council's two threads of a caller, or none
    Uses,         \* what a caller may do: chat, chat_structured with a role, or deliberate
    ModelOf,      \* _model_for: the model configured or overridden for a role
    MaxAttempts,  \* RATE_LIMIT_MAX_ATTEMPTS, 5
    SleepCap,     \* RATE_LIMIT_ATTEMPT_SLEEP_CAP_S, 300, in milliseconds here
    TotalBudget,  \* RATE_LIMIT_TOTAL_BUDGET_S, 900, in milliseconds here
    DefaultWait,  \* the wait per attempt without a hint, 5 s
    Notices,      \* what 429 messages say
    TTL,          \* _BUDGET_CACHE's ttl_seconds, 60
    Budget,       \* MONTHLY_TOKEN_BUDGET in replies, None when not set
    QueryTime,    \* bound: how long is_over_budget takes to ask the database
    MaxTime,      \* bound: clock
    MaxMonths     \* bound: month changes

Roles == {"cheap", "large", "judge"}
Threads == Callers \cup UNION {PoolOf[c] : c \in Callers}

\* A notice is "in 510ms", "in 1m21.2s" or "in 21.2s", or gives no hint.
NoticeForms == {"ms", "m+s", "s", "none"}

ASSUME LlmGatewayAssumption ==
    /\ None \notin Callers /\ IsFiniteSet(Threads) /\ DOMAIN PoolOf = Callers
    /\ \A c, d \in Callers : c \notin PoolOf[d] /\ (c # d => PoolOf[c] \cap PoolOf[d] = {})
    /\ Uses \in [Callers -> SUBSET ({"chat", "parse", "council"} \X Roles)]
    /\ DOMAIN ModelOf = Roles
    /\ MaxAttempts \in Nat \ {0}
    /\ SleepCap \in Nat /\ TotalBudget \in Nat /\ DefaultWait \in Nat
    /\ Notices \subseteq [form : NoticeForms, min : Nat, sec : Nat, ms : Nat]
    /\ TTL \in Nat /\ Budget \in Nat \cup {None} /\ None \notin Nat
    /\ QueryTime \in Nat /\ MaxTime \in Nat /\ MaxMonths \in Nat

VARIABLES
    pc,       \* where each logical call is
    scoped,   \* the threads whose context has the tenant bound
    role,     \* the role the call asks for
    stage,    \* the provider call it is making
    attempt,  \* attempts of that provider call
    slept,    \* total_slept of that provider call, in milliseconds
    verdict,  \* is_over_budget's local `over`, with when it was read, or None
    verdicts, \* _BUDGET_CACHE's entry of the tenant, or None
    used,     \* tokens of LLM_USAGE this month, counted in replies
    rows,     \* LLM_USAGE by ROLE, all months
    due,      \* history: replies given to the tenant's requests, by the role asked,
              \* without those whose metering was lost
    strays,   \* history: of these, the ones a thread without the tenant got
    flipped,  \* history: when the ledger last crossed the budget
    months,   \* months that have ended
    now       \* time.monotonic()

progress == <<role, stage, attempt, slept>>
judging == <<verdict, verdicts>>
ledger == <<used, rows, flipped>>
bills == <<due, strays>>
gatewayVars ==
    <<pc, scoped, progress, judging, ledger, bills, months, now>>

-----------------------------------------------------------------------------

Stages == {"chat", "parse", "json", "repair"}
Ended == {"returned", "refused", "limited", "failed"}
RowRoles == Roles \cup {"unknown"}

GatewayTypeOK ==
    /\ pc \in [Threads -> {"idle", "join", "check", "query", "store", "send",
                           "meter", "reply"} \cup Ended]
    /\ scoped \subseteq Callers
    /\ role \in [Threads -> Roles] /\ stage \in [Threads -> Stages]
    /\ attempt \in [Threads -> 0..MaxAttempts]
    /\ slept \in [Threads -> 0..TotalBudget]
    /\ verdict \in [Threads -> [over : BOOLEAN, asked : Nat] \cup {None}]
    /\ verdicts \in [over : BOOLEAN, at : Nat] \cup {None}
    /\ used \in Nat /\ rows \in [RowRoles -> Nat] /\ due \in [Roles -> Nat]
    /\ strays \in [Roles -> Nat] /\ flipped \in Nat /\ months \in Nat /\ now \in Nat

At(c, loc) == pc[c] = loc
Goto(c, loc) == pc' = [pc EXCEPT ![c] = loc]

Over(tokens) == Budget # None /\ tokens >= Budget

\* _parse_retry_after_seconds, in milliseconds; None without a hint.
RetryAfter(notice) ==
    CASE notice.form = "ms"   -> notice.ms
      [] notice.form = "m+s"  -> 60000 * notice.min + 1000 * notice.sec + notice.ms
      [] notice.form = "s"    -> 1000 * notice.sec + notice.ms
      [] notice.form = "none" -> None

\* The sleep before the next attempt.
WaitFor(notice, tried) ==
    LET hint == RetryAfter(notice)
        wait == IF hint = None THEN DefaultWait * tried ELSE hint
    IN IF wait < SleepCap THEN wait ELSE SleepCap

\* _role_for_model: the first role, in the order of _ROLE_TO_KEY, whose model
\* it is.
RoleForModel(model) ==
    IF ModelOf["cheap"] = model THEN "cheap"
    ELSE IF ModelOf["large"] = model THEN "large"
    ELSE IF ModelOf["judge"] = model THEN "judge" ELSE "unknown"

-----------------------------------------------------------------------------
(* The budget check *)

\* chat or chat_structured: outside a tenant there is nothing to check.
FirstStep(c) == IF c \in scoped THEN "check" ELSE "send"

Begin(c, use) ==
    /\ stage' = [stage EXCEPT ![c] = use[1]]
    /\ role' = [role EXCEPT ![c] = use[2]]
    /\ Goto(c, FirstStep(c))
    /\ UNCHANGED <<scoped, attempt, slept, judging, ledger, bills, months, now>>

\* Mutant: the cache's entries do not expire.
FreshForEver == verdicts # None

Fresh == verdicts # None /\ now - verdicts.at <= TTL

AnswerWith(c, isOver) == Goto(c, IF isOver THEN "refused" ELSE "send")

\* _BUDGET_CACHE.get: either verdict is worth keeping.
Check(c) ==
    /\ At(c, "check")
    /\ \/ /\ Fresh
          /\ AnswerWith(c, verdicts.over)
          /\ UNCHANGED verdicts
       \/ /\ ~Fresh
          /\ verdicts' = None
          /\ Goto(c, "query")
    /\ UNCHANGED <<scoped, progress, verdict, ledger, bills, months, now>>

\* The organisation's budget (nothing changes it) and this month's ledger; an
\* exception of the database leaves chat.
Query(c) ==
    /\ At(c, "query")
    /\ \/ /\ verdict' = [verdict EXCEPT ![c] = [over |-> Over(used), asked |-> now]]
          /\ Goto(c, "store")
       \/ Goto(c, "failed") /\ UNCHANGED verdict
    /\ UNCHANGED <<scoped, progress, verdicts, ledger, bills, months, now>>

\* _BUDGET_CACHE.put, whatever another thread has put meanwhile.
Store(c) ==
    /\ At(c, "store")
    /\ verdicts' = [over |-> verdict[c].over, at |-> now]
    /\ AnswerWith(c, verdict[c].over)
    /\ verdict' = [verdict EXCEPT ![c] = None]
    /\ UNCHANGED <<scoped, progress, ledger, bills, months, now>>

-----------------------------------------------------------------------------
(* _call_with_retry *)

Sending(c) ==
    /\ At(c, "send")
    /\ attempt' = [attempt EXCEPT ![c] = @ + 1]

\* The next provider call of the same logical call, with a budget of its own.
GoOnWith(c, next) ==
    /\ stage' = [stage EXCEPT ![c] = next]
    /\ attempt' = [attempt EXCEPT ![c] = 0] /\ slept' = [slept EXCEPT ![c] = 0]
    /\ Goto(c, "send")

\* Mutant: the total is tested before the wait is added to it.
ExhaustedBeforeWait(c, wait) ==
    attempt[c] + 1 >= MaxAttempts \/ slept[c] > TotalBudget

\* A 429: sleep and try again, or raise when either bound is reached.
Exhausted(c, wait) ==
    attempt[c] + 1 >= MaxAttempts \/ slept[c] + wait > TotalBudget

RateLimited(c) ==
    /\ Sending(c)
    /\ \E notice \in Notices :
          LET wait == WaitFor(notice, attempt[c] + 1)
          IN IF Exhausted(c, wait)
                THEN Goto(c, "limited") /\ UNCHANGED slept
                ELSE slept' = [slept EXCEPT ![c] = @ + wait] /\ UNCHANGED pc
    /\ UNCHANGED <<scoped, role, stage, judging, ledger, bills, months, now>>

\* In a tenant's scope the reply is to be metered.
ForTenant(t) == t \in scoped \/ \E c \in scoped : t \in PoolOf[c]
OneMore(count, t) == [count EXCEPT ![role[t]] = @ + 1]
Bill(t) ==
    /\ due' = IF ForTenant(t) THEN OneMore(due, t) ELSE due
    /\ strays' = IF ForTenant(t) /\ t \notin scoped THEN OneMore(strays, t) ELSE strays

\* Mutant: the reply to the repair is not metered.
AnsweredRepairUnmetered(c) ==
    /\ Sending(c)
    /\ Bill(c)
    /\ Goto(c, IF c \in scoped /\ stage[c] # "repair" THEN "meter" ELSE "reply")
    /\ UNCHANGED <<scoped, role, stage, slept, judging, ledger, months, now>>

Answered(c) ==
    /\ Sending(c)
    /\ Bill(c)
    /\ Goto(c, IF c \in scoped THEN "meter" ELSE "reply")
    /\ UNCHANGED <<scoped, role, stage, slept, judging, ledger, months, now>>

\* Any other exception out of the client: only a parse has a fallback.  When it
\* is the client's parse that rejects a reply, _meter is not called for it.
ProviderFails(c) ==
    /\ At(c, "send")
    /\ IF stage[c] = "parse"
          THEN GoOnWith(c, "json")
          ELSE /\ Goto(c, "failed")
               /\ attempt' = [attempt EXCEPT ![c] = @ + 1]
               /\ UNCHANGED <<stage, slept>>
    /\ UNCHANGED <<scoped, role, judging, ledger, bills, months, now>>

\* _meter and record_usage; a missing usage or a failure is swallowed.
Meter(c) ==
    /\ At(c, "meter")
    /\ \/ /\ used' = used + 1
          /\ rows' = [rows EXCEPT ![RoleForModel(ModelOf[role[c]])] = @ + 1]
          /\ flipped' = IF Over(used) # Over(used') THEN now ELSE flipped
          /\ UNCHANGED due
       \/ due' = [due EXCEPT ![role[c]] = @ - 1] /\ UNCHANGED ledger
    /\ UNCHANGED strays
    /\ Goto(c, "reply")
    /\ UNCHANGED <<scoped, progress, judging, months, now>>

-----------------------------------------------------------------------------
(* What chat and chat_structured do with the reply *)

\* Text, or an instance of the model class.
Valid(c) ==
    /\ At(c, "reply")
    /\ Goto(c, "returned")
    /\ UNCHANGED <<scoped, progress, judging, ledger, bills, months, now>>

\* Mutant: repairs until the JSON validates.
InvalidAgain(c) ==
    /\ At(c, "reply") /\ stage[c] \in {"json", "repair"}
    /\ GoOnWith(c, "repair")
    /\ UNCHANGED <<scoped, role, judging, ledger, bills, months, now>>

\* JSON that does not validate: one repair, then the ValidationError leaves.
Invalid(c) ==
    /\ At(c, "reply")
    /\ \/ stage[c] = "json" /\ GoOnWith(c, "repair")
       \/ stage[c] = "repair" /\ Goto(c, "failed") /\ UNCHANGED <<stage, attempt, slept>>
    /\ UNCHANGED <<scoped, role, judging, ledger, bills, months, now>>

-----------------------------------------------------------------------------
(* deliberate *)

\* The council: a large chat on each thread of a new pool.  submit does not copy
\* the caller's context, so they run without its tenant.
Convene(c, council) ==
    /\ PoolOf[c] # {}
    /\ pc' = [t \in Threads |-> IF t = c THEN "join"
                               ELSE IF t \in PoolOf[c] THEN FirstStep(t) ELSE pc[t]]
    /\ role' = [t \in Threads |-> IF t \in {c} \cup PoolOf[c] THEN council[2] ELSE role[t]]
    /\ UNCHANGED <<scoped, stage, attempt, slept, judging, ledger, bills, months, now>>

\* The pool's shutdown waits for both.  When one has raised so does deliberate
\* (and decide answers without it); else the caller asks the critic itself.
Join(c) ==
    /\ At(c, "join")
    /\ \A t \in PoolOf[c] : pc[t] \in Ended
    /\ Goto(c, IF \A t \in PoolOf[c] : At(t, "returned") THEN FirstStep(c) ELSE "failed")
    /\ UNCHANGED <<scoped, progress, judging, ledger, bills, months, now>>

-----------------------------------------------------------------------------
(* The world *)

\* Asking the database takes no longer than QueryTime.
Tick ==
    /\ now < MaxTime
    /\ \A c \in Callers : At(c, "store") => now < verdict[c].asked + QueryTime
    /\ now' = now + 1
    /\ UNCHANGED <<pc, scoped, progress, judging, ledger, bills, months>>

\* LLM_USAGE is summed from date_trunc('month', NOW()).
NewMonth ==
    /\ months < MaxMonths
    /\ months' = months + 1 /\ used' = 0
    /\ flipped' = IF Over(used) # Over(0) THEN now ELSE flipped
    /\ UNCHANGED <<pc, scoped, progress, judging, rows, bills, now>>

\* The other tenants of _BUDGET_CACHE take the entry's place.
Crowded ==
    /\ verdicts # None
    /\ verdicts' = None
    /\ UNCHANGED <<pc, scoped, progress, verdict, ledger, bills, months, now>>

-----------------------------------------------------------------------------

\* A request of the API has its tenant bound, a command of the CLI has none.
Init ==
    /\ pc = [t \in Threads |-> "idle"] /\ scoped \in {Callers, {}}
    /\ role = [t \in Threads |-> "cheap"] /\ stage = [t \in Threads |-> "chat"]
    /\ attempt = [t \in Threads |-> 0] /\ slept = [t \in Threads |-> 0]
    /\ verdict = [t \in Threads |-> None] /\ verdicts = None
    /\ used = 0 /\ rows = [r \in RowRoles |-> 0]
    /\ due = [r \in Roles |-> 0] /\ strays = [r \in Roles |-> 0]
    /\ flipped = 0 /\ months = 0 /\ now = 0

CallStep(t) ==
    \/ Check(t) \/ Query(t) \/ Store(t)
    \/ RateLimited(t) \/ Answered(t) \/ ProviderFails(t) \/ Meter(t)
    \/ Valid(t) \/ Invalid(t)

\* One logical call, or one deliberation, of a caller.
Request(c) ==
    /\ At(c, "idle")
    /\ \E use \in Uses[c] : IF use[1] = "council" THEN Convene(c, use) ELSE Begin(c, use)

World == Tick \/ NewMonth \/ Crowded

Next ==
    \/ \E c \in Callers : Request(c) \/ Join(c)
    \/ \E t \in Threads : CallStep(t)
    \/ World

Spec == Init /\ [][Next]_gatewayVars

\* Threads go on; sleeps end.
FairSpec ==
    /\ Spec
    /\ \A t \in Threads : WF_gatewayVars(CallStep(t))
    /\ \A c \in Callers : WF_gatewayVars(Join(c))

-----------------------------------------------------------------------------
(* Safety *)

\* llm.py:69, 151: every reply got with the tenant in the context, and whose
\* metering is not lost, is a row of LLM_USAGE under the role the call asked for,
\* or about to be one, whatever fell back, was repaired or raised afterwards.
Metering(r) == Cardinality({t \in Threads : At(t, "meter") /\ role[t] = r})
MeteredUnderItsRole == \A r \in Roles : due[r] - strays[r] = rows[r] + Metering(r)

\* budget.py:12: a call that starts although the ledger is over the budget, or
\* is refused although it is not, does so on a verdict that was right at most
\* one TTL, and the time the database takes, ago.
VerdictWindow ==
    [][\A t \in Threads :
          /\ pc[t] \in {"check", "store"}
          /\ \/ pc'[t] = "send" /\ Over(used)
             \/ pc'[t] = "refused" /\ ~Over(used)
          => now - flipped <= TTL + QueryTime]_gatewayVars

-----------------------------------------------------------------------------
(* Liveness, under FairSpec. *)

\* llm.py:91: every logical call and every deliberation ends, however the
\* provider answers: no chain of rate limits, fallbacks and repairs goes on for
\* ever, and no caller waits for a pool that does not end.
CallEnds == \A t \in Threads : pc[t] # "idle" ~> pc[t] \in Ended

-----------------------------------------------------------------------------
(* What the repository says and the code does not do. *)

\* context.py:3-7, llm.py:171: the tenant of a request is seen by every LLM call
\* made for it, System-2's too: all its replies are in the ledger, or about to be.
EveryReplyMetered == \A r \in Roles : due[r] = rows[r] + Metering(r)
=============================================================================
