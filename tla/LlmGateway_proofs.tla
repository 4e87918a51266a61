--------------------------- MODULE LlmGateway_proofs ---------------------------
(***************************************************************************)
(* Proofs about LlmGateway, for every set of callers and of council        *)
(* threads, every bound on attempts and sleeps, every budget and any number *)
(* of month changes: retries are bounded, replies are metered, and a cached *)
(* verdict is as old as it may be and no older.                             *)
(***************************************************************************)
EXTENDS LlmGateway, FiniteSetTheorems, TLAPS

-----------------------------------------------------------------------------
(* The inductive invariant *)

\* Only a thread with a tenant asks for its budget and meters; a thread that will
\* call the provider has an attempt left; a pool is used by its caller only.
PlaceInv ==
    /\ \A t \in Threads : pc[t] \in {"check", "query", "store", "meter"} => t \in scoped
    /\ \A t \in Threads :
          pc[t] \in {"idle", "join", "check", "query", "store", "send"} =>
              attempt[t] < MaxAttempts
    /\ \A c \in Callers : \A t \in PoolOf[c] : pc[t] # "idle" => pc[c] # "idle"

\* The bill covers the strays and what is about to be metered.
BillInv == \A r \in Roles : strays[r] + Metering(r) <= due[r]

\* A verdict that is wrong has become so after it was asked for.
WrongSince(over, since) == (over /\ Over(used)) \/ (~over /\ ~Over(used)) \/ since <= flipped

VerdictInv ==
    /\ flipped <= now
    /\ verdicts # None =>
          verdicts.at <= now /\ WrongSince(verdicts.over, verdicts.at - QueryTime)
    /\ \A t \in Threads : At(t, "store") =>
          /\ verdict[t] \in [over : BOOLEAN, asked : Nat]
          /\ verdict[t].asked <= now /\ now <= verdict[t].asked + QueryTime
          /\ WrongSince(verdict[t].over, verdict[t].asked)

GatewayInv == GatewayTypeOK /\ PlaceInv /\ BillInv /\ VerdictInv

-----------------------------------------------------------------------------
(* The constants *)

LEMMA ThreadSets ==
    /\ IsFiniteSet(Threads) /\ Callers \subseteq Threads
    /\ \A c \in Callers : PoolOf[c] \subseteq Threads /\ c \notin PoolOf[c]
    /\ \A c, d \in Callers : c \notin PoolOf[d] /\ (c # d => PoolOf[c] \cap PoolOf[d] = {})
BY LlmGatewayAssumption DEF Threads

LEMMA MeteringNat == \A r \in Roles : Metering(r) \in Nat
BY ThreadSets, FS_Subset, FS_CardinalityType DEF Metering

\* llm.py:114: whatever the message says, the wait is a number of milliseconds
\* within the cap.
LEMMA WaitBounded ==
    ASSUME NEW notice \in Notices, NEW tried \in Nat
    PROVE  WaitFor(notice, tried) \in 0..SleepCap
<1>1. /\ notice.form \in NoticeForms /\ notice.min \in Nat
      /\ notice.sec \in Nat /\ notice.ms \in Nat
  BY LlmGatewayAssumption
<1>2. RetryAfter(notice) \in Nat \cup {None}
  BY <1>1 DEF RetryAfter, NoticeForms
<1>3. DefaultWait * tried \in Nat /\ SleepCap \in Nat
  BY LlmGatewayAssumption
<1> DEFINE wait == IF RetryAfter(notice) = None THEN DefaultWait * tried ELSE RetryAfter(notice)
<1>4. wait \in Nat
  BY <1>2, <1>3
<1>5. WaitFor(notice, tried) = IF wait < SleepCap THEN wait ELSE SleepCap
  BY DEF WaitFor
<1> HIDE DEF wait
<1> QED BY <1>3, <1>4, <1>5

-----------------------------------------------------------------------------
(* One thread moves.                                                       *)

LEMMA MoveKeepsPlace ==
    ASSUME GatewayTypeOK, PlaceInv, NEW t \in Threads, NEW loc,
           Goto(t, loc), UNCHANGED scoped, loc # "idle",
           t \in Callers \/ pc[t] # "idle",
           loc \in {"check", "query", "store", "meter"} => t \in scoped,
           loc \in {"join", "check", "query", "store", "send"} => attempt'[t] < MaxAttempts,
           \A u \in Threads \ {t} : attempt'[u] = attempt[u]
    PROVE  PlaceInv'
<1>1. \A u \in Threads : pc'[u] = IF u = t THEN loc ELSE pc[u]
  BY DEF GatewayTypeOK, Goto
<1>2. \A u \in Threads : pc'[u] \in {"check", "query", "store", "meter"} => u \in scoped'
  BY <1>1 DEF PlaceInv
<1>3. \A u \in Threads :
        pc'[u] \in {"idle", "join", "check", "query", "store", "send"} =>
            attempt'[u] < MaxAttempts
  BY <1>1 DEF PlaceInv
<1>4. \A c \in Callers : \A u \in PoolOf[c] : pc'[u] # "idle" => pc'[c] # "idle"
  BY <1>1, ThreadSets DEF PlaceInv
<1> QED BY <1>2, <1>3, <1>4 DEF PlaceInv

\* A move neither to nor from metering.
LEMMA MoveKeepsMetering ==
    ASSUME GatewayTypeOK, NEW t \in Threads, NEW loc, Goto(t, loc), loc # "meter", pc[t] # "meter",
           \A u \in Threads \ {t} : role'[u] = role[u]
    PROVE  \A r \in Roles : Metering(r)' = Metering(r)
<1>1. \A u \in Threads : pc'[u] = IF u = t THEN loc ELSE pc[u]
  BY DEF GatewayTypeOK, Goto
<1> QED BY <1>1 DEF Metering, At

\* The verdicts do not change while a thread moves, unless it stores one.
LEMMA MoveKeepsVerdict ==
    ASSUME GatewayTypeOK, VerdictInv, NEW t \in Threads, NEW loc, Goto(t, loc),
           loc # "store", UNCHANGED <<verdict, used, flipped, now>>,
           verdicts' \in {verdicts, None}
    PROVE  VerdictInv'
<1>1. \A u \in Threads : pc'[u] = IF u = t THEN loc ELSE pc[u]
  BY DEF GatewayTypeOK, Goto
<1> QED BY <1>1 DEF VerdictInv, WrongSince, At

-----------------------------------------------------------------------------
(* The initial states *)

LEMMA GatewayInit == Init => GatewayInv
<1> SUFFICES ASSUME Init PROVE GatewayInv
  OBVIOUS
<1> USE LlmGatewayAssumption
<1>1. GatewayTypeOK
  BY DEF Init, GatewayTypeOK, Roles, Stages, RowRoles
<1>2. PlaceInv
  BY ThreadSets DEF Init, PlaceInv
<1>3. \A r \in Roles : Metering(r) = 0
  <2>1. \A r \in Roles : {t \in Threads : At(t, "meter") /\ role[t] = r} = {}
    BY DEF Init, At
  <2> QED BY <2>1, FS_EmptySet DEF Metering
<1>4. BillInv
  BY <1>3 DEF Init, BillInv
<1>5. VerdictInv
  BY DEF Init, VerdictInv, At
<1> QED BY <1>1, <1>2, <1>4, <1>5 DEF GatewayInv

-----------------------------------------------------------------------------
(* The steps: a call begins *)

LEMMA BeginKeeps ==
    ASSUME GatewayInv, NEW c \in Callers, At(c, "idle"), NEW use \in Uses[c],
           use[1] # "council", Begin(c, use)
    PROVE  GatewayInv'
<1> USE DEF GatewayInv
<1>1. c \in Threads /\ use[1] \in {"chat", "parse"} /\ use[2] \in Roles
  BY LlmGatewayAssumption, ThreadSets
<1>2. FirstStep(c) \in {"check", "send"} /\ (FirstStep(c) = "check" => c \in scoped)
  BY DEF FirstStep
<1>3. GatewayTypeOK'
  BY <1>1, <1>2 DEF Begin, GatewayTypeOK, Goto, Stages, judging, ledger, bills
<1>4. PlaceInv'
  <2>1. attempt[c] < MaxAttempts
    BY <1>1 DEF PlaceInv, At
  <2> QED BY <1>1, <1>2, <2>1, MoveKeepsPlace DEF Begin
<1>5. BillInv'
  BY <1>1, <1>2, MoveKeepsMetering DEF Begin, BillInv, bills, At, GatewayTypeOK
<1>6. VerdictInv'
  BY <1>1, <1>2, MoveKeepsVerdict DEF Begin, judging, ledger
<1> QED BY <1>3, <1>4, <1>5, <1>6

LEMMA ConveneKeeps ==
    ASSUME GatewayInv, NEW c \in Callers, At(c, "idle"), NEW council \in Uses[c],
           Convene(c, council)
    PROVE  GatewayInv'
<1> USE DEF GatewayInv
<1>1. c \in Threads /\ council[2] \in Roles
  BY LlmGatewayAssumption, ThreadSets
<1>2. /\ pc' = [t \in Threads |-> IF t = c THEN "join"
                                 ELSE IF t \in PoolOf[c] THEN FirstStep(t) ELSE pc[t]]
      /\ role' = [t \in Threads |-> IF t \in {c} \cup PoolOf[c] THEN council[2] ELSE role[t]]
      /\ UNCHANGED <<scoped, stage, attempt, slept, judging, ledger, bills, months, now>>
  BY DEF Convene
<1>3. \A t : FirstStep(t) \in {"check", "send"} /\ (FirstStep(t) = "check" => t \in scoped)
  BY DEF FirstStep
<1>4. \A t \in {c} \cup PoolOf[c] : t \in Threads /\ pc[t] = "idle"
  BY <1>1, ThreadSets DEF PlaceInv, At
<1>5. GatewayTypeOK'
  <2>1. /\ pc' \in [Threads -> {"idle", "join", "check", "query", "store", "send",
                               "meter", "reply"} \cup Ended]
        /\ role' \in [Threads -> Roles]
    BY <1>1, <1>2, <1>3 DEF GatewayTypeOK
  <2> QED BY <1>2, <2>1 DEF GatewayTypeOK, judging, ledger, bills
<1>6. PlaceInv'
  <2>1. \A t \in Threads : pc'[t] \in {"check", "query", "store", "meter"} => t \in scoped'
    BY <1>2, <1>3 DEF PlaceInv
  <2>2. \A t \in Threads :
          pc'[t] \in {"idle", "join", "check", "query", "store", "send"} =>
              attempt'[t] < MaxAttempts
    BY <1>2, <1>4 DEF PlaceInv
  <2>3. \A d \in Callers : \A t \in PoolOf[d] : pc'[t] # "idle" => pc'[d] # "idle"
    <3>1. ASSUME NEW d \in Callers, NEW t \in PoolOf[d], pc'[t] # "idle"
          PROVE  pc'[d] # "idle"
      <4>1. CASE d = c
        BY <1>1, <1>2, <4>1
      <4>2. CASE d # c
        <5>1. /\ t # c /\ t \notin PoolOf[c] /\ d \notin PoolOf[c]
              /\ t \in Threads /\ d \in Threads
          BY <4>2, ThreadSets
        <5> QED BY <1>2, <3>1, <4>2, <5>1 DEF PlaceInv
      <4> QED BY <4>1, <4>2
    <3> QED BY <3>1
  <2> QED BY <2>1, <2>2, <2>3 DEF PlaceInv
<1>7. BillInv'
  <2>1. \A r \in Roles : Metering(r)' = Metering(r)
    <3>1. \A t \in Threads : /\ pc'[t] = "meter" <=> pc[t] = "meter"
                             /\ pc[t] = "meter" => role'[t] = role[t]
      BY <1>2, <1>3, <1>4
    <3> QED BY <3>1 DEF Metering, At
  <2> QED BY <1>2, <2>1 DEF BillInv, bills
<1>8. VerdictInv'
  <2>1. \A t \in Threads : pc'[t] = "store" => pc[t] = "store"
    BY <1>2, <1>3
  <2> QED BY <1>2, <2>1 DEF VerdictInv, WrongSince, At, judging, ledger, Over
<1> QED BY <1>5, <1>6, <1>7, <1>8

LEMMA JoinKeeps ==
    ASSUME GatewayInv, NEW c \in Callers, Join(c)
    PROVE  GatewayInv'
<1> USE DEF GatewayInv
<1>1. c \in Threads /\ pc[c] = "join"
  BY ThreadSets DEF Join, At
<1>2. PICK loc \in {FirstStep(c), "failed"} : Goto(c, loc)
  BY DEF Join
<1>3. loc \in {"check", "send", "failed"} /\ (loc = "check" => c \in scoped)
  BY DEF FirstStep
<1>4. UNCHANGED <<scoped, progress, judging, ledger, bills, months, now>>
  BY DEF Join
<1>5. GatewayTypeOK'
  BY <1>1, <1>2, <1>3, <1>4
  DEF GatewayTypeOK, Goto, Ended, progress, judging, ledger, bills
<1>6. PlaceInv'
  <2>1. attempt[c] < MaxAttempts
    BY <1>1 DEF PlaceInv
  <2> QED BY <1>1, <1>2, <1>3, <1>4, <2>1, MoveKeepsPlace DEF progress
<1>7. BillInv'
  BY <1>1, <1>2, <1>3, <1>4, MoveKeepsMetering DEF BillInv, bills, progress
<1>8. VerdictInv'
  BY <1>1, <1>2, <1>3, <1>4, MoveKeepsVerdict DEF judging, ledger
<1> QED BY <1>5, <1>6, <1>7, <1>8

-----------------------------------------------------------------------------
(* The steps: the budget check *)

LEMMA CheckKeeps ==
    ASSUME GatewayInv, NEW t \in Threads, Check(t)
    PROVE  GatewayInv'
<1> USE DEF GatewayInv
<1>1. /\ pc[t] = "check" /\ t \in scoped
      /\ verdicts' \in {verdicts, None}
      /\ UNCHANGED <<scoped, progress, verdict, ledger, bills, months, now>>
  BY DEF Check, At, PlaceInv
<1>2. PICK loc \in {"refused", "send", "query"} : Goto(t, loc)
  BY DEF Check, AnswerWith
<1>3. GatewayTypeOK'
  BY <1>1, <1>2 DEF GatewayTypeOK, Goto, Ended, progress, ledger, bills
<1>4. PlaceInv'
  <2>1. attempt[t] < MaxAttempts
    BY <1>1 DEF PlaceInv
  <2> QED BY <1>1, <1>2, <2>1, MoveKeepsPlace DEF progress
<1>5. BillInv'
  BY <1>1, <1>2, MoveKeepsMetering DEF BillInv, bills, progress
<1>6. VerdictInv'
  BY <1>1, <1>2, MoveKeepsVerdict DEF ledger
<1> QED BY <1>3, <1>4, <1>5, <1>6

LEMMA QueryKeeps ==
    ASSUME GatewayInv, NEW t \in Threads, Query(t)
    PROVE  GatewayInv'
<1> USE DEF GatewayInv
<1>1. /\ pc[t] = "query" /\ t \in scoped
      /\ UNCHANGED <<scoped, progress, verdicts, ledger, bills, months, now>>
  BY DEF Query, At, PlaceInv
<1>2. PICK loc \in {"store", "failed"} :
        /\ Goto(t, loc)
        /\ \/ /\ loc = "store"
              /\ verdict' = [verdict EXCEPT ![t] = [over |-> Over(used), asked |-> now]]
           \/ loc = "failed" /\ UNCHANGED verdict
  BY DEF Query
<1>3. Over(used) \in BOOLEAN
  BY DEF Over
<1>4. GatewayTypeOK'
  BY <1>1, <1>2, <1>3 DEF GatewayTypeOK, Goto, Ended, progress, ledger, bills
<1>5. PlaceInv'
  <2>1. attempt[t] < MaxAttempts
    BY <1>1 DEF PlaceInv
  <2> QED BY <1>1, <1>2, <2>1, MoveKeepsPlace DEF progress
<1>6. BillInv'
  BY <1>1, <1>2, MoveKeepsMetering DEF BillInv, bills, progress
<1>7. VerdictInv'
  <2>1. CASE loc = "failed"
    BY <1>1, <1>2, <2>1, MoveKeepsVerdict DEF ledger
  <2>2. CASE loc = "store"
    <3>1. \A u \in Threads : pc'[u] = IF u = t THEN "store" ELSE pc[u]
      BY <1>2, <2>2 DEF GatewayTypeOK, Goto
    <3>2. \A u \in Threads \ {t} : verdict'[u] = verdict[u]
      BY <1>2 DEF GatewayTypeOK
    <3>3. verdict'[t] = [over |-> Over(used), asked |-> now]
      BY <1>2, <2>2 DEF GatewayTypeOK
    <3>4. now \in Nat /\ QueryTime \in Nat
      BY LlmGatewayAssumption DEF GatewayTypeOK
    <3>5. WrongSince(Over(used), now)
      BY DEF WrongSince
    <3> QED BY <1>1, <1>3, <3>1, <3>2, <3>3, <3>4, <3>5
            DEF VerdictInv, WrongSince, At, ledger
  <2> QED BY <1>2, <2>1, <2>2
<1> QED BY <1>4, <1>5, <1>6, <1>7

LEMMA StoreKeeps ==
    ASSUME GatewayInv, NEW t \in Threads, Store(t)
    PROVE  GatewayInv'
<1> USE DEF GatewayInv
<1>1. /\ pc[t] = "store" /\ t \in scoped
      /\ verdicts' = [over |-> verdict[t].over, at |-> now]
      /\ verdict' = [verdict EXCEPT ![t] = None]
      /\ UNCHANGED <<scoped, progress, ledger, bills, months, now>>
  BY DEF Store, At, PlaceInv
<1>2. PICK loc \in {"refused", "send"} : Goto(t, loc)
  BY DEF Store, AnswerWith
<1>3. /\ verdict[t] \in [over : BOOLEAN, asked : Nat]
      /\ verdict[t].asked <= now /\ now <= verdict[t].asked + QueryTime
      /\ WrongSince(verdict[t].over, verdict[t].asked)
      /\ now \in Nat /\ QueryTime \in Nat /\ flipped \in Nat
  BY <1>1, LlmGatewayAssumption DEF VerdictInv, At, GatewayTypeOK
<1>4. GatewayTypeOK'
  BY <1>1, <1>2, <1>3 DEF GatewayTypeOK, Goto, Ended, progress, ledger, bills
<1>5. PlaceInv'
  <2>1. attempt[t] < MaxAttempts
    BY <1>1 DEF PlaceInv
  <2> QED BY <1>1, <1>2, <2>1, MoveKeepsPlace DEF progress
<1>6. BillInv'
  BY <1>1, <1>2, MoveKeepsMetering DEF BillInv, bills, progress
<1>7. VerdictInv'
  <2>1. /\ \A u \in Threads : pc'[u] = "store" => u # t /\ pc[u] = "store"
        /\ \A u \in Threads \ {t} : verdict'[u] = verdict[u]
    BY <1>1, <1>2 DEF GatewayTypeOK, Goto
  <2>2. WrongSince(verdict[t].over, now - QueryTime)
    BY <1>3 DEF WrongSince
  <2>3. verdicts'.at = now /\ verdicts'.over = verdict[t].over
    BY <1>1
  <2> QED BY <1>1, <1>3, <2>1, <2>2, <2>3 DEF VerdictInv, WrongSince, At, ledger
<1> QED BY <1>4, <1>5, <1>6, <1>7

-----------------------------------------------------------------------------
(* The steps: the provider *)

\* What an attempt does to the counters of its thread.
LEMMA SendingTypes ==
    ASSUME GatewayInv, NEW t \in Threads, At(t, "send")
    PROVE  /\ attempt[t] \in Nat /\ attempt[t] + 1 \in 0..MaxAttempts
           /\ [attempt EXCEPT ![t] = @ + 1] \in [Threads -> 0..MaxAttempts]
           /\ [attempt EXCEPT ![t] = 0] \in [Threads -> 0..MaxAttempts]
           /\ [slept EXCEPT ![t] = 0] \in [Threads -> 0..TotalBudget]
           /\ 0 < MaxAttempts
<1>1. attempt[t] \in 0..MaxAttempts /\ attempt[t] < MaxAttempts
      /\ MaxAttempts \in Nat \ {0} /\ TotalBudget \in Nat
  BY LlmGatewayAssumption DEF GatewayInv, GatewayTypeOK, PlaceInv, At
<1> QED BY <1>1 DEF GatewayInv, GatewayTypeOK

LEMMA RateLimitedKeeps ==
    ASSUME GatewayInv, NEW t \in Threads, RateLimited(t)
    PROVE  GatewayInv'
<1> USE DEF GatewayInv
<1>1. /\ At(t, "send") /\ attempt' = [attempt EXCEPT ![t] = @ + 1]
      /\ UNCHANGED <<scoped, role, stage, judging, ledger, bills, months, now>>
  BY DEF RateLimited, Sending
<1>2. PICK notice \in Notices :
        IF Exhausted(t, WaitFor(notice, attempt[t] + 1))
        THEN Goto(t, "limited") /\ UNCHANGED slept
        ELSE /\ slept' = [slept EXCEPT ![t] = @ + WaitFor(notice, attempt[t] + 1)]
             /\ UNCHANGED pc
  BY DEF RateLimited
<1>3. /\ WaitFor(notice, attempt[t] + 1) \in Nat
      /\ attempt[t] \in Nat /\ slept[t] \in Nat /\ TotalBudget \in Nat /\ MaxAttempts \in Nat
  BY <1>1, SendingTypes, WaitBounded, LlmGatewayAssumption DEF GatewayTypeOK
<1>4. CASE Exhausted(t, WaitFor(notice, attempt[t] + 1))
  <2>1. GatewayTypeOK'
    BY <1>1, <1>2, <1>4, SendingTypes DEF GatewayTypeOK, Goto, Ended, judging, ledger, bills
  <2>2. PlaceInv'
    <3>1. \A u \in Threads \ {t} : attempt'[u] = attempt[u]
      BY <1>1 DEF GatewayTypeOK
    <3> QED BY <1>1, <1>2, <1>4, <3>1, MoveKeepsPlace DEF At
  <2>3. BillInv'
    BY <1>1, <1>2, <1>4, MoveKeepsMetering DEF BillInv, bills, At
  <2>4. VerdictInv'
    BY <1>1, <1>2, <1>4, MoveKeepsVerdict DEF judging, ledger
  <2> QED BY <2>1, <2>2, <2>3, <2>4
<1>5. CASE ~Exhausted(t, WaitFor(notice, attempt[t] + 1))
  <2>1. /\ attempt[t] + 1 < MaxAttempts
        /\ slept[t] + WaitFor(notice, attempt[t] + 1) \in 0..TotalBudget
    BY <1>3, <1>5 DEF Exhausted
  <2>2. /\ slept' = [slept EXCEPT ![t] = @ + WaitFor(notice, attempt[t] + 1)]
        /\ UNCHANGED pc
    BY <1>2, <1>5
  <2>3. slept' \in [Threads -> 0..TotalBudget]
    BY <2>1, <2>2 DEF GatewayTypeOK
  <2>4. GatewayTypeOK'
    BY <1>1, <2>2, <2>3, SendingTypes DEF GatewayTypeOK, judging, ledger, bills
  <2>5. PlaceInv'
    BY <1>1, <2>1, <2>2 DEF PlaceInv, GatewayTypeOK
  <2>6. BillInv'
    BY <1>1, <2>2 DEF BillInv, bills, Metering, At
  <2>7. VerdictInv'
    BY <1>1, <2>2 DEF VerdictInv, WrongSince, Over, At, judging, ledger
  <2> QED BY <2>4, <2>5, <2>6, <2>7
<1> QED BY <1>4, <1>5

LEMMA ProviderFailsKeeps ==
    ASSUME GatewayInv, NEW t \in Threads, ProviderFails(t)
    PROVE  GatewayInv'
<1> USE DEF GatewayInv
<1>1. /\ At(t, "send")
      /\ UNCHANGED <<scoped, role, judging, ledger, bills, months, now>>
      /\ \/ GoOnWith(t, "json")
         \/ /\ Goto(t, "failed") /\ attempt' = [attempt EXCEPT ![t] = @ + 1]
            /\ UNCHANGED <<stage, slept>>
  BY DEF ProviderFails
<1>2. PICK loc \in {"send", "failed"} :
        /\ Goto(t, loc)
        /\ loc = "send" => attempt' = [attempt EXCEPT ![t] = 0]
        /\ attempt' \in {[attempt EXCEPT ![t] = 0], [attempt EXCEPT ![t] = @ + 1]}
        /\ slept' \in {slept, [slept EXCEPT ![t] = 0]}
        /\ stage' \in {stage, [stage EXCEPT ![t] = "json"]}
  BY <1>1 DEF GoOnWith
<1>3. GatewayTypeOK'
  BY <1>1, <1>2, SendingTypes
  DEF GatewayTypeOK, Goto, Ended, Stages, judging, ledger, bills
<1>4. PlaceInv'
  <2>1. \A u \in Threads \ {t} : attempt'[u] = attempt[u]
    BY <1>2 DEF GatewayTypeOK
  <2>2. loc = "send" => attempt'[t] < MaxAttempts
    BY <1>1, <1>2, SendingTypes DEF GatewayTypeOK
  <2> QED BY <1>1, <1>2, <2>1, <2>2, MoveKeepsPlace DEF At
<1>5. BillInv'
  BY <1>1, <1>2, MoveKeepsMetering DEF BillInv, bills, At
<1>6. VerdictInv'
  BY <1>1, <1>2, MoveKeepsVerdict DEF judging, ledger
<1> QED BY <1>3, <1>4, <1>5, <1>6

-----------------------------------------------------------------------------
(* The steps: the reply and its metering *)

LEMMA MeteringMore ==
    ASSUME GatewayTypeOK, NEW t \in Threads, Goto(t, "meter"), pc[t] # "meter",
           UNCHANGED role
    PROVE  \A r \in Roles : Metering(r)' = IF r = role[t] THEN Metering(r) + 1 ELSE Metering(r)
<1> DEFINE busy(r) == {u \in Threads : pc[u] = "meter" /\ role[u] = r}
<1>1. \A u \in Threads : pc'[u] = IF u = t THEN "meter" ELSE pc[u]
  BY DEF GatewayTypeOK, Goto
<1>2. \A r \in Roles : IsFiniteSet(busy(r)) /\ t \notin busy(r)
  BY ThreadSets, FS_Subset
<1>3. \A r \in Roles :
        {u \in Threads : pc'[u] = "meter" /\ role'[u] = r} =
            IF r = role[t] THEN busy(r) \cup {t} ELSE busy(r)
  BY <1>1
<1>4. \A r \in Roles : Cardinality(busy(r) \cup {t}) = Cardinality(busy(r)) + 1
  BY <1>2, FS_AddElement
<1> QED BY <1>3, <1>4 DEF Metering, At

LEMMA MeteringLess ==
    ASSUME GatewayTypeOK, NEW t \in Threads, NEW loc, Goto(t, loc), loc # "meter",
           pc[t] = "meter", UNCHANGED role
    PROVE  \A r \in Roles : Metering(r) = IF r = role[t] THEN Metering(r)' + 1 ELSE Metering(r)'
<1> DEFINE busy(r) == {u \in Threads : pc'[u] = "meter" /\ role'[u] = r}
<1>1. \A u \in Threads : pc'[u] = IF u = t THEN loc ELSE pc[u]
  BY DEF GatewayTypeOK, Goto
<1>2. \A r \in Roles : IsFiniteSet(busy(r)) /\ t \notin busy(r)
  BY <1>1, ThreadSets, FS_Subset
<1>3. \A r \in Roles :
        {u \in Threads : pc[u] = "meter" /\ role[u] = r} =
            IF r = role[t] THEN busy(r) \cup {t} ELSE busy(r)
  BY <1>1
<1>4. \A r \in Roles : Cardinality(busy(r) \cup {t}) = Cardinality(busy(r)) + 1
  BY <1>2, FS_AddElement
<1> QED BY <1>3, <1>4 DEF Metering, At

LEMMA AnsweredKeeps ==
    ASSUME GatewayInv, NEW t \in Threads, Answered(t)
    PROVE  GatewayInv'
<1> USE DEF GatewayInv
<1>1. /\ At(t, "send") /\ attempt' = [attempt EXCEPT ![t] = @ + 1] /\ Bill(t)
      /\ UNCHANGED <<scoped, role, stage, slept, judging, ledger, months, now>>
      /\ Goto(t, IF t \in scoped THEN "meter" ELSE "reply")
      /\ role[t] \in Roles
  BY DEF Answered, Sending, GatewayTypeOK
<1>2. \A r \in Roles : /\ due[r] \in Nat /\ strays[r] \in Nat /\ Metering(r) \in Nat
                       /\ strays[r] + Metering(r) <= due[r]
  BY MeteringNat DEF GatewayTypeOK, BillInv
<1>3. /\ due' = IF ForTenant(t) THEN OneMore(due, t) ELSE due
      /\ strays' = IF ForTenant(t) /\ t \notin scoped THEN OneMore(strays, t) ELSE strays
      /\ t \in scoped => ForTenant(t)
  BY <1>1 DEF Bill, ForTenant
<1>4. OneMore(due, t) \in [Roles -> Nat] /\ OneMore(strays, t) \in [Roles -> Nat]
  BY <1>1 DEF OneMore, GatewayTypeOK
<1>5. GatewayTypeOK'
  BY <1>1, <1>3, <1>4, SendingTypes DEF GatewayTypeOK, Goto, judging, ledger
<1>6. PlaceInv'
  <2>1. \A u \in Threads \ {t} : attempt'[u] = attempt[u]
    BY <1>1 DEF GatewayTypeOK
  <2> QED BY <1>1, <2>1, MoveKeepsPlace DEF At
<1>7. BillInv'
  <2>1. \A r \in Roles : /\ OneMore(due, t)[r] = IF r = role[t] THEN due[r] + 1 ELSE due[r]
                         /\ OneMore(strays, t)[r] = IF r = role[t] THEN strays[r] + 1 ELSE strays[r]
    BY <1>1 DEF OneMore, GatewayTypeOK
  <2>2. CASE t \in scoped
    <3>1. \A r \in Roles :
            Metering(r)' = IF r = role[t] THEN Metering(r) + 1 ELSE Metering(r)
      BY <1>1, <2>2, MeteringMore DEF At
    <3> QED BY <1>2, <1>3, <2>1, <2>2, <3>1 DEF BillInv
  <2>3. CASE t \notin scoped
    <3>1. \A r \in Roles : Metering(r)' = Metering(r)
      BY <1>1, <2>3, MoveKeepsMetering DEF At
    <3> QED BY <1>2, <1>3, <2>1, <2>3, <3>1 DEF BillInv
  <2> QED BY <2>2, <2>3
<1>8. VerdictInv'
  BY <1>1, MoveKeepsVerdict DEF judging, ledger
<1> QED BY <1>5, <1>6, <1>7, <1>8

\* budget.py: a change of the ledger leaves every verdict right, or as old as
\* the change.
LEMMA LedgerChangeKeeps ==
    ASSUME GatewayTypeOK, VerdictInv,
           used' \in Nat, flipped' = IF Over(used) # Over(used') THEN now ELSE flipped,
           UNCHANGED <<verdict, verdicts, now>>,
           \A t \in Threads : pc'[t] = "store" => pc[t] = "store"
    PROVE  VerdictInv' /\ flipped' \in Nat
<1>1. now \in Nat /\ flipped \in Nat /\ flipped <= now /\ QueryTime \in Nat
  BY LlmGatewayAssumption DEF GatewayTypeOK, VerdictInv
<1>2. flipped' \in Nat /\ flipped <= flipped' /\ flipped' <= now
  BY <1>1
<1>3. ASSUME NEW over \in BOOLEAN, NEW since \in Int, since <= now, WrongSince(over, since)
      PROVE  WrongSince(over, since)'
  <2>1. CASE Over(used) = Over(used')
    BY <1>2, <1>3, <2>1 DEF WrongSince, Over
  <2>2. CASE Over(used) # Over(used')
    BY <1>3, <2>2 DEF WrongSince
  <2> QED BY <2>1, <2>2
<1>4. verdicts # None => /\ verdicts.over \in BOOLEAN /\ verdicts.at \in Nat
                         /\ verdicts.at - QueryTime \in Int
                         /\ verdicts.at - QueryTime <= now
                         /\ verdicts.at <= now
                         /\ WrongSince(verdicts.over, verdicts.at - QueryTime)
  BY <1>1 DEF GatewayTypeOK, VerdictInv
<1>5. verdicts' # None =>
        verdicts'.at <= now' /\ WrongSince(verdicts.over, verdicts.at - QueryTime)'
  BY <1>3, <1>4
<1>6. ASSUME NEW t \in Threads, pc'[t] = "store"
      PROVE  /\ verdict'[t] \in [over : BOOLEAN, asked : Nat]
             /\ verdict'[t].asked <= now' /\ now' <= verdict'[t].asked + QueryTime
             /\ WrongSince(verdict[t].over, verdict[t].asked)'
  <2>1. /\ verdict[t] \in [over : BOOLEAN, asked : Nat]
        /\ verdict[t].asked <= now /\ now <= verdict[t].asked + QueryTime
        /\ WrongSince(verdict[t].over, verdict[t].asked)
    BY <1>6 DEF VerdictInv, At
  <2> QED BY <1>3, <2>1
<1> QED BY <1>2, <1>5, <1>6 DEF VerdictInv, At

LEMMA MeterKeeps ==
    ASSUME GatewayInv, NEW t \in Threads, Meter(t)
    PROVE  GatewayInv'
<1> USE DEF GatewayInv
<1>1. /\ pc[t] = "meter" /\ Goto(t, "reply") /\ role[t] \in Roles
      /\ UNCHANGED <<strays, scoped, progress, judging, months, now>>
  BY DEF Meter, At, GatewayTypeOK
<1>2. \A r \in Roles : /\ due[r] \in Nat /\ strays[r] \in Nat /\ Metering(r) \in Nat
                       /\ strays[r] + Metering(r) <= due[r] /\ Metering(r)' \in Nat
                       /\ Metering(r) = IF r = role[t] THEN Metering(r)' + 1 ELSE Metering(r)'
  <2>1. \A r \in Roles : Metering(r)' \in Nat
    BY ThreadSets, FS_Subset, FS_CardinalityType DEF Metering
  <2> QED BY <1>1, <2>1, MeteringNat, MeteringLess DEF GatewayTypeOK, BillInv, progress
<1>3. PlaceInv'
  BY <1>1, MoveKeepsPlace DEF progress
<1>4. \A u \in Threads : pc'[u] = "store" => pc[u] = "store"
  BY <1>1 DEF GatewayTypeOK, Goto
<1>5. CASE /\ used' = used + 1
           /\ rows' = [rows EXCEPT ![RoleForModel(ModelOf[role[t]])] = @ + 1]
           /\ flipped' = IF Over(used) # Over(used') THEN now ELSE flipped
           /\ UNCHANGED due
  <2>1. used' \in Nat
    BY <1>5 DEF GatewayTypeOK
  <2>2. VerdictInv' /\ flipped' \in Nat
    BY <1>1, <1>4, <1>5, <2>1, LedgerChangeKeeps DEF judging
  <2>3. rows' \in [RowRoles -> Nat]
    <3>1. RoleForModel(ModelOf[role[t]]) \in RowRoles
      BY DEF RoleForModel, RowRoles, Roles
    <3> QED BY <1>5, <3>1 DEF GatewayTypeOK
  <2>4. GatewayTypeOK'
    BY <1>1, <1>5, <2>1, <2>2, <2>3 DEF GatewayTypeOK, Goto, progress, judging
  <2>5. BillInv'
    BY <1>1, <1>2, <1>5 DEF BillInv
  <2> QED BY <1>3, <2>2, <2>4, <2>5
<1>6. CASE due' = [due EXCEPT ![role[t]] = @ - 1] /\ UNCHANGED ledger
  <2>1. \A r \in Roles : due'[r] = IF r = role[t] THEN due[r] - 1 ELSE due[r]
    BY <1>6 DEF GatewayTypeOK
  <2>2. due' \in [Roles -> Nat]
    <3>1. due[role[t]] - 1 \in Nat
      BY <1>1, <1>2
    <3> QED BY <1>6, <3>1 DEF GatewayTypeOK
  <2>3. GatewayTypeOK'
    BY <1>1, <1>6, <2>2 DEF GatewayTypeOK, Goto, progress, judging, ledger
  <2>4. BillInv'
    BY <1>1, <1>2, <2>1 DEF BillInv
  <2>5. VerdictInv'
    BY <1>1, <1>6, MoveKeepsVerdict DEF judging, ledger
  <2> QED BY <1>3, <2>3, <2>4, <2>5
<1> QED BY <1>5, <1>6 DEF Meter

LEMMA ReplyKeeps ==
    ASSUME GatewayInv, NEW t \in Threads, Valid(t) \/ Invalid(t)
    PROVE  GatewayInv'
<1> USE DEF GatewayInv
<1>1. /\ pc[t] = "reply"
      /\ UNCHANGED <<scoped, role, judging, ledger, bills, months, now>>
  BY DEF Valid, Invalid, At, progress
<1>2. PICK loc \in {"returned", "send", "failed"} :
        /\ Goto(t, loc)
        /\ attempt' \in {attempt, [attempt EXCEPT ![t] = 0]}
        /\ loc = "send" => attempt' = [attempt EXCEPT ![t] = 0]
        /\ slept' \in {slept, [slept EXCEPT ![t] = 0]}
        /\ stage' \in {stage, [stage EXCEPT ![t] = "repair"]}
  BY DEF Valid, Invalid, GoOnWith, progress
<1>3. MaxAttempts \in Nat \ {0} /\ TotalBudget \in Nat
  BY LlmGatewayAssumption
<1>4. GatewayTypeOK'
  BY <1>1, <1>2, <1>3 DEF GatewayTypeOK, Goto, Ended, Stages, judging, ledger, bills
<1>5. PlaceInv'
  <2>1. \A u \in Threads \ {t} : attempt'[u] = attempt[u]
    BY <1>2 DEF GatewayTypeOK
  <2>2. loc = "send" => attempt'[t] < MaxAttempts
    BY <1>2, <1>3 DEF GatewayTypeOK
  <2> QED BY <1>1, <1>2, <2>1, <2>2, MoveKeepsPlace
<1>6. BillInv'
  BY <1>1, <1>2, MoveKeepsMetering DEF BillInv, bills
<1>7. VerdictInv'
  BY <1>1, <1>2, MoveKeepsVerdict DEF judging, ledger
<1> QED BY <1>4, <1>5, <1>6, <1>7

-----------------------------------------------------------------------------
(* The steps: the world *)

LEMMA WorldKeeps ==
    ASSUME GatewayInv, World
    PROVE  GatewayInv'
<1> USE DEF GatewayInv
<1>1. CASE Tick
  <2>1. now' = now + 1 /\ now \in Nat /\ QueryTime \in Nat
    BY <1>1, LlmGatewayAssumption DEF Tick, GatewayTypeOK
  <2>2. UNCHANGED <<pc, scoped, progress, judging, ledger, bills, months>>
    BY <1>1 DEF Tick
  <2>3. GatewayTypeOK' /\ PlaceInv' /\ BillInv'
    BY <2>1, <2>2
    DEF GatewayTypeOK, PlaceInv, BillInv, Metering, At, progress, judging, ledger, bills
  <2>4. \A t \in Threads : At(t, "store") => now < verdict[t].asked + QueryTime
    BY <1>1 DEF Tick, PlaceInv, At, GatewayTypeOK
  <2>5. VerdictInv'
    BY <2>1, <2>2, <2>4 DEF VerdictInv, WrongSince, Over, At, judging, ledger, GatewayTypeOK
  <2> QED BY <2>3, <2>5
<1>2. CASE NewMonth
  <2>1. /\ months' = months + 1 /\ used' = 0
        /\ flipped' = IF Over(used) # Over(used') THEN now ELSE flipped
        /\ UNCHANGED <<pc, scoped, progress, judging, rows, bills, now>>
    BY <1>2 DEF NewMonth
  <2>2. VerdictInv' /\ flipped' \in Nat
    BY <2>1, LedgerChangeKeeps DEF judging
  <2>3. GatewayTypeOK' /\ PlaceInv' /\ BillInv'
    BY <2>1, <2>2
    DEF GatewayTypeOK, PlaceInv, BillInv, Metering, At, progress, judging, bills
  <2> QED BY <2>2, <2>3
<1>3. CASE Crowded
  BY <1>3 DEF Crowded, GatewayTypeOK, PlaceInv, BillInv, Metering, VerdictInv, WrongSince,
              Over, At, progress, ledger, bills
<1> QED BY <1>1, <1>2, <1>3 DEF World

LEMMA GatewayNext == GatewayInv /\ [Next]_gatewayVars => GatewayInv'
<1> SUFFICES ASSUME GatewayInv, [Next]_gatewayVars PROVE GatewayInv'
  OBVIOUS
<1>1. ASSUME NEW c \in Callers, Request(c) PROVE GatewayInv'
  <2>1. PICK use \in Uses[c] : IF use[1] = "council" THEN Convene(c, use) ELSE Begin(c, use)
    BY <1>1 DEF Request
  <2> QED BY <1>1, <2>1, BeginKeeps, ConveneKeeps DEF Request
<1>2. ASSUME NEW t \in Threads, CallStep(t) PROVE GatewayInv'
  BY <1>2, CheckKeeps, QueryKeeps, StoreKeeps, RateLimitedKeeps, ProviderFailsKeeps,
     AnsweredKeeps, MeterKeeps, ReplyKeeps DEF CallStep
<1>3. CASE UNCHANGED gatewayVars
  BY <1>3 DEF gatewayVars, progress, judging, ledger, bills, GatewayInv, GatewayTypeOK,
              PlaceInv, BillInv, Metering, VerdictInv, WrongSince, Over, At
<1> QED BY <1>1, <1>2, <1>3, JoinKeeps, WorldKeeps DEF Next

LEMMA GatewayInvAlways == Spec => []GatewayInv
<1> QED BY GatewayInit, GatewayNext, PTL DEF Spec

-----------------------------------------------------------------------------
(* Metering *)

\* The steps that move no reply towards the ledger.
LEMMA LedgerStays ==
    ASSUME GatewayInv, [Next]_gatewayVars,
           \A t \in Threads : ~Answered(t) /\ ~Meter(t)
    PROVE  (\A r \in Roles : Metering(r)' = Metering(r)) /\ UNCHANGED <<due, strays, rows>>
<1> USE DEF GatewayInv
<1> DEFINE Stays == (\A r \in Roles : Metering(r)' = Metering(r)) /\ UNCHANGED <<due, strays, rows>>
<1>1. ASSUME NEW t \in Threads, NEW loc, Goto(t, loc), loc # "meter", pc[t] # "meter",
             \A u \in Threads \ {t} : role'[u] = role[u], UNCHANGED <<due, strays, rows>>
      PROVE  Stays
  BY <1>1, MoveKeepsMetering
<1>2. ASSUME NEW c \in Callers, Request(c) PROVE Stays
  <2>1. PICK use \in Uses[c] : IF use[1] = "council" THEN Convene(c, use) ELSE Begin(c, use)
    BY <1>2 DEF Request
  <2>2. At(c, "idle") /\ c \in Threads
    BY <1>2, ThreadSets DEF Request
  <2>3. CASE Begin(c, use)
    <3>1. FirstStep(c) # "meter"
      BY DEF FirstStep
    <3>2. /\ Goto(c, FirstStep(c)) /\ UNCHANGED <<due, strays, rows>>
          /\ \A u \in Threads \ {c} : role'[u] = role[u]
      BY <2>3 DEF Begin, ledger, bills, GatewayTypeOK
    <3> QED BY <1>1, <2>2, <3>1, <3>2 DEF At
  <2>4. CASE Convene(c, use)
    <3>1. \A t \in {c} \cup PoolOf[c] : t \in Threads /\ pc[t] = "idle"
      BY <2>2, ThreadSets DEF PlaceInv, At
    <3>2. \A t \in Threads : /\ pc'[t] = "meter" <=> pc[t] = "meter"
                             /\ pc[t] = "meter" => role'[t] = role[t]
      BY <2>4, <3>1 DEF Convene, FirstStep
    <3> QED BY <2>4, <3>2 DEF Convene, Metering, At, ledger, bills
  <2> QED BY <2>1, <2>3, <2>4
<1>3. ASSUME NEW c \in Callers, Join(c) PROVE Stays
  <2>1. PICK loc \in {"check", "send", "failed"} : Goto(c, loc)
    BY <1>3 DEF Join, FirstStep
  <2> QED BY <1>1, <1>3, <2>1, ThreadSets DEF Join, At, progress, ledger, bills
<1>4. ASSUME NEW t \in Threads, CallStep(t) PROVE Stays
  <2>1. CASE Check(t) \/ Query(t) \/ Store(t)
    <3>1. PICK loc \in {"refused", "send", "query", "store", "failed"} : Goto(t, loc)
      BY <2>1 DEF Check, Query, Store, AnswerWith
    <3> QED BY <1>1, <2>1, <3>1 DEF Check, Query, Store, At, progress, ledger, bills
  <2>2. CASE RateLimited(t)
    <3>1. /\ UNCHANGED <<role, due, strays, rows>> /\ pc[t] = "send"
          /\ Goto(t, "limited") \/ UNCHANGED pc
      BY <2>2 DEF RateLimited, Sending, At, ledger, bills
    <3> QED BY <1>1, <3>1 DEF Metering, At
  <2>3. CASE ProviderFails(t) \/ Valid(t) \/ Invalid(t)
    <3>1. PICK loc \in {"returned", "send", "failed"} : Goto(t, loc)
      BY <2>3 DEF ProviderFails, Valid, Invalid, GoOnWith
    <3> QED BY <1>1, <2>3, <3>1 DEF ProviderFails, Valid, Invalid, At, progress, ledger, bills
  <2> QED BY <1>4, <2>1, <2>2, <2>3 DEF CallStep
<1>5. CASE World
  BY <1>5 DEF World, Tick, NewMonth, Crowded, Metering, At, progress, ledger, bills
<1>6. CASE UNCHANGED gatewayVars
  BY <1>6 DEF gatewayVars, progress, ledger, bills, Metering, At
<1> QED BY <1>2, <1>3, <1>4, <1>5, <1>6 DEF Next

\* A reply comes in: the bill, or the strays, or what is being metered grows.
LEMMA AnsweredCounts ==
    ASSUME GatewayInv, NEW t \in Threads, Answered(t), NEW r \in Roles
    PROVE  /\ due'[r] - strays'[r] = due[r] - strays[r] + (Metering(r)' - Metering(r))
           /\ UNCHANGED rows
<1> USE DEF GatewayInv
<1>1. /\ pc[t] = "send" /\ Bill(t) /\ role[t] \in Roles /\ UNCHANGED <<rows, role>>
      /\ Goto(t, IF t \in scoped THEN "meter" ELSE "reply")
      /\ due[r] \in Nat /\ strays[r] \in Nat /\ Metering(r) \in Nat
      /\ due \in [Roles -> Nat] /\ strays \in [Roles -> Nat]
  BY MeteringNat DEF Answered, Sending, At, GatewayTypeOK, ledger
<1>2. /\ OneMore(due, t)[r] = IF r = role[t] THEN due[r] + 1 ELSE due[r]
      /\ OneMore(strays, t)[r] = IF r = role[t] THEN strays[r] + 1 ELSE strays[r]
  BY <1>1 DEF OneMore
<1>3. CASE t \in scoped
  <2>1. Metering(r)' = IF r = role[t] THEN Metering(r) + 1 ELSE Metering(r)
    BY <1>1, <1>3, MeteringMore
  <2> QED BY <1>1, <1>2, <1>3, <2>1 DEF Bill, ForTenant
<1>4. CASE t \notin scoped
  <2>1. Metering(r)' = Metering(r)
    BY <1>1, <1>4, MoveKeepsMetering
  <2> QED BY <1>1, <1>2, <1>4, <2>1 DEF Bill
<1> QED BY <1>3, <1>4

\* A reply is metered, or its metering is lost.
LEMMA MeterCounts ==
    ASSUME GatewayInv, NEW t \in Threads, Meter(t)
    PROVE  /\ \A r \in Roles : /\ Metering(r)' \in Nat
                               /\ Metering(r) = IF r = role[t] THEN Metering(r)' + 1
                                                ELSE Metering(r)'
           /\ UNCHANGED strays /\ role[t] \in Roles
           /\ \/ /\ rows' = [rows EXCEPT ![RoleForModel(ModelOf[role[t]])] = @ + 1]
                 /\ UNCHANGED due
              \/ due' = [due EXCEPT ![role[t]] = @ - 1] /\ UNCHANGED rows
<1> USE DEF GatewayInv
<1>1. \A r \in Roles : Metering(r)' \in Nat
  BY ThreadSets, FS_Subset, FS_CardinalityType DEF Metering
<1>2. pc[t] = "meter" /\ Goto(t, "reply") /\ UNCHANGED <<role, strays>>
  BY DEF Meter, At, progress
<1> QED BY <1>1, <1>2, MeteringLess DEF Meter, GatewayTypeOK, ledger

\* The deployment gives its roles different models (llm.py:154 tells them apart by
\* nothing else); _role_for_model then finds the role that was asked for.
DistinctModels == \A q, r \in Roles : ModelOf[q] = ModelOf[r] => q = r

LEMMA RoleFound ==
    ASSUME DistinctModels, NEW r \in Roles
    PROVE  RoleForModel(ModelOf[r]) = r
BY DEF DistinctModels, RoleForModel, Roles

LEMMA MeteredInit == Init => MeteredUnderItsRole
<1> SUFFICES ASSUME Init PROVE MeteredUnderItsRole
  OBVIOUS
<1>1. \A r \in Roles : {t \in Threads : At(t, "meter") /\ role[t] = r} = {}
  BY DEF Init, At
<1>2. \A r \in Roles : Metering(r) = 0
  BY <1>1, FS_EmptySet DEF Metering
<1> QED BY <1>2 DEF Init, MeteredUnderItsRole, RowRoles

LEMMA MeteredNext ==
    DistinctModels /\ GatewayInv /\ MeteredUnderItsRole /\ [Next]_gatewayVars
        => MeteredUnderItsRole'
<1> SUFFICES ASSUME DistinctModels, GatewayInv, MeteredUnderItsRole, [Next]_gatewayVars
             PROVE  MeteredUnderItsRole'
  OBVIOUS
<1>1. \A r \in Roles : /\ due[r] \in Nat /\ strays[r] \in Nat /\ rows[r] \in Nat
                       /\ Metering(r) \in Nat /\ due[r] - strays[r] = rows[r] + Metering(r)
  BY MeteringNat DEF GatewayInv, GatewayTypeOK, MeteredUnderItsRole, RowRoles
<1>2. ASSUME NEW t \in Threads, Answered(t) PROVE MeteredUnderItsRole'
  <2>1. ASSUME NEW r \in Roles PROVE due'[r] - strays'[r] = rows'[r] + Metering(r)'
    <3>1. /\ due'[r] - strays'[r] = due[r] - strays[r] + (Metering(r)' - Metering(r))
          /\ rows'[r] = rows[r]
      BY <1>2, AnsweredCounts
    <3>2. due'[r] \in Nat /\ strays'[r] \in Nat /\ Metering(r)' \in Nat
      <4>1. /\ GatewayInv'
            /\ Metering(r)' \in Nat
        BY <1>2, AnsweredKeeps, ThreadSets, FS_Subset, FS_CardinalityType DEF Metering
      <4> QED BY <4>1 DEF GatewayInv, GatewayTypeOK
    <3> QED BY <1>1, <3>1, <3>2
  <2> QED BY <2>1 DEF MeteredUnderItsRole
<1>3. ASSUME NEW t \in Threads, Meter(t) PROVE MeteredUnderItsRole'
  <2>1. /\ \A r \in Roles : /\ Metering(r)' \in Nat
                            /\ Metering(r) = IF r = role[t] THEN Metering(r)' + 1
                                             ELSE Metering(r)'
        /\ UNCHANGED strays /\ role[t] \in Roles
        /\ \/ rows' = [rows EXCEPT ![role[t]] = @ + 1] /\ UNCHANGED due
           \/ due' = [due EXCEPT ![role[t]] = @ - 1] /\ UNCHANGED rows
    BY <1>3, MeterCounts, RoleFound
  <2>2. ASSUME NEW r \in Roles PROVE due'[r] - strays'[r] = rows'[r] + Metering(r)'
    BY <1>1, <2>1 DEF GatewayInv, GatewayTypeOK, RowRoles
  <2> QED BY <2>2 DEF MeteredUnderItsRole
<1>4. CASE \A t \in Threads : ~Answered(t) /\ ~Meter(t)
  <2>1. (\A r \in Roles : Metering(r)' = Metering(r)) /\ UNCHANGED <<due, strays, rows>>
    BY <1>4, LedgerStays
  <2> QED BY <1>1, <2>1 DEF MeteredUnderItsRole
<1> QED BY <1>2, <1>3, <1>4

\* Without that assumption a reply is a row all the same, if not of its role:
\* what is settled of the three roles is all there is in the table.
Settled(r) == due[r] - strays[r] - Metering(r)
RowsInAll == rows["cheap"] + rows["large"] + rows["judge"] + rows["unknown"]
EveryReplyARow == Settled("cheap") + Settled("large") + Settled("judge") = RowsInAll

LEMMA SettledInt ==
    ASSUME GatewayInv
    PROVE  /\ \A r \in Roles : Settled(r) \in Int
           /\ \A r \in RowRoles : rows[r] \in Nat
BY MeteringNat DEF GatewayInv, GatewayTypeOK, Settled

LEMMA RowInit == Init => EveryReplyARow
<1> SUFFICES ASSUME Init PROVE EveryReplyARow
  OBVIOUS
<1>1. \A r \in Roles : {t \in Threads : At(t, "meter") /\ role[t] = r} = {}
  BY DEF Init, At
<1>2. \A r \in Roles : Metering(r) = 0
  BY <1>1, FS_EmptySet DEF Metering
<1>3. Settled("cheap") = 0 /\ Settled("large") = 0 /\ Settled("judge") = 0
  BY <1>2 DEF Init, Settled, Roles
<1>4. RowsInAll = 0
  BY DEF Init, RowsInAll, RowRoles, Roles
<1> QED BY <1>3, <1>4 DEF EveryReplyARow

LEMMA RowNext ==
    GatewayInv /\ GatewayInv' /\ EveryReplyARow /\ [Next]_gatewayVars => EveryReplyARow'
<1> SUFFICES ASSUME GatewayInv, GatewayInv', EveryReplyARow, [Next]_gatewayVars
             PROVE  EveryReplyARow'
  OBVIOUS
<1>1. \A r \in Roles : /\ due[r] \in Nat /\ strays[r] \in Nat /\ Metering(r) \in Nat
                       /\ due'[r] \in Nat /\ strays'[r] \in Nat /\ Metering(r)' \in Nat
                       /\ Settled(r) \in Int
  <2>1. \A r \in Roles : Metering(r)' \in Nat
    BY ThreadSets, FS_Subset, FS_CardinalityType DEF Metering
  <2> QED BY <2>1, MeteringNat, SettledInt DEF GatewayInv, GatewayTypeOK
<1>2. /\ \A r \in RowRoles : rows[r] \in Nat
      /\ rows \in [RowRoles -> Nat] /\ due \in [Roles -> Nat]
      /\ RowRoles = {"cheap", "large", "judge", "unknown"}
      /\ "cheap" \in Roles /\ "large" \in Roles /\ "judge" \in Roles
  BY SettledInt DEF GatewayInv, GatewayTypeOK, RowRoles, Roles
<1>3. ASSUME \A r \in Roles : Settled(r)' = Settled(r), UNCHANGED rows
      PROVE  EveryReplyARow'
  BY <1>2, <1>3 DEF EveryReplyARow, RowsInAll
<1>4. ASSUME NEW t \in Threads, Answered(t) PROVE EveryReplyARow'
  <2>1. ASSUME NEW r \in Roles PROVE Settled(r)' = Settled(r)
    <3>1. due'[r] - strays'[r] = due[r] - strays[r] + (Metering(r)' - Metering(r))
      BY <1>4, AnsweredCounts
    <3> QED BY <1>1, <3>1 DEF Settled
  <2>2. UNCHANGED rows
    BY <1>4, AnsweredCounts DEF Roles
  <2> QED BY <1>3, <2>1, <2>2
<1>5. ASSUME NEW t \in Threads, Meter(t) PROVE EveryReplyARow'
  <2> DEFINE q == role[t]
             k == RoleForModel(ModelOf[role[t]])
  <2>1. /\ \A r \in Roles : Metering(r) = IF r = q THEN Metering(r)' + 1
                                          ELSE Metering(r)'
        /\ UNCHANGED strays /\ q \in Roles
        /\ \/ rows' = [rows EXCEPT ![k] = @ + 1] /\ UNCHANGED due
           \/ due' = [due EXCEPT ![q] = @ - 1] /\ UNCHANGED rows
    BY <1>5, MeterCounts
  <2>2. k \in RowRoles
    BY DEF RoleForModel, RowRoles, Roles
  <2> HIDE DEF q, k
  <2>3. CASE due' = [due EXCEPT ![q] = @ - 1] /\ UNCHANGED rows
    <3>1. ASSUME NEW r \in Roles PROVE Settled(r)' = Settled(r)
      <4>1. due'[r] = IF r = q THEN due[r] - 1 ELSE due[r]
        BY <1>2, <2>3
      <4> QED BY <1>1, <2>1, <4>1 DEF Settled
    <3> QED BY <1>3, <2>3, <3>1
  <2>4. CASE rows' = [rows EXCEPT ![k] = @ + 1] /\ UNCHANGED due
    <3>1. \A r \in Roles : Settled(r)' = IF r = q THEN Settled(r) + 1 ELSE Settled(r)
      <4> TAKE r \in Roles
      <4> QED BY <1>1, <2>1, <2>4 DEF Settled
    <3>2. /\ Settled("cheap")' + Settled("large")' + Settled("judge")'
               = Settled("cheap") + Settled("large") + Settled("judge") + 1
      BY <1>1, <1>2, <2>1, <3>1 DEF Roles
    <3>3. RowsInAll' = RowsInAll + 1
      BY <1>2, <2>2, <2>4 DEF RowsInAll
    <3> QED BY <3>2, <3>3 DEF EveryReplyARow
  <2> QED BY <2>1, <2>3, <2>4
<1>6. CASE \A t \in Threads : ~Answered(t) /\ ~Meter(t)
  <2>1. (\A r \in Roles : Metering(r)' = Metering(r)) /\ UNCHANGED <<due, strays, rows>>
    BY <1>6, LedgerStays
  <2> QED BY <1>3, <2>1 DEF Settled
<1> QED BY <1>4, <1>5, <1>6

-----------------------------------------------------------------------------
(* The budget's verdict *)

\* A call starts, or is refused, on the cached verdict or on its own.
LEMMA AnswerIsVerdict ==
    ASSUME GatewayInv, [Next]_gatewayVars, NEW t \in Threads,
           pc[t] \in {"check", "store"}, pc'[t] \in {"send", "refused"}
    PROVE  \/ pc[t] = "check" /\ Fresh /\ pc'[t] = (IF verdicts.over THEN "refused" ELSE "send")
           \/ pc[t] = "store" /\ pc'[t] = (IF verdict[t].over THEN "refused" ELSE "send")
<1> USE DEF GatewayInv
<1>1. ASSUME NEW c \in Callers, Request(c) PROVE FALSE
  <2>1. PICK use \in Uses[c] : IF use[1] = "council" THEN Convene(c, use) ELSE Begin(c, use)
    BY <1>1 DEF Request
  <2>2. \A u \in {c} \cup PoolOf[c] : pc[u] = "idle"
    BY <1>1, ThreadSets DEF Request, PlaceInv, At
  <2>3. pc'[t] = pc[t]
    BY <2>1, <2>2 DEF Begin, Convene, Goto, GatewayTypeOK
  <2> QED BY <2>3
<1>2. ASSUME NEW c \in Callers, Join(c) PROVE FALSE
  BY <1>2 DEF Join, At, Goto, GatewayTypeOK
<1>3. ASSUME NEW u \in Threads, CallStep(u), u # t PROVE FALSE
  <2>1. pc'[t] = pc[t]
    BY <1>3 DEF CallStep, Check, Query, Store, RateLimited, Sending, Answered, ProviderFails,
       Meter, Valid, Invalid, AnswerWith, GoOnWith, Goto, GatewayTypeOK
  <2> QED BY <2>1
<1>4. CASE World \/ UNCHANGED gatewayVars
  BY <1>4 DEF World, Tick, NewMonth, Crowded, gatewayVars
<1>5. CASE CallStep(t)
  <2>1. CASE Check(t)
    BY <2>1 DEF Check, At, AnswerWith, Goto, GatewayTypeOK
  <2>2. CASE Query(t)
    BY <2>2 DEF Query, At, Goto, GatewayTypeOK
  <2>3. CASE Store(t)
    BY <2>3 DEF Store, At, AnswerWith, Goto, GatewayTypeOK
  <2>4. CASE RateLimited(t) \/ Answered(t) \/ ProviderFails(t) \/ Meter(t) \/ Valid(t) \/ Invalid(t)
    BY <2>4 DEF RateLimited, Sending, Answered, ProviderFails, Meter, Valid, Invalid, At
  <2> QED BY <1>5, <2>1, <2>2, <2>3, <2>4 DEF CallStep
<1> QED BY <1>1, <1>2, <1>3, <1>4, <1>5 DEF Next

\* VerdictWindow of one step.
VerdictInTime ==
    \A t \in Threads :
        /\ pc[t] \in {"check", "store"}
        /\ \/ pc'[t] = "send" /\ Over(used)
           \/ pc'[t] = "refused" /\ ~Over(used)
        => now - flipped <= TTL + QueryTime

LEMMA VerdictStep == GatewayInv /\ [Next]_gatewayVars => VerdictInTime
<1> SUFFICES ASSUME GatewayInv, [Next]_gatewayVars, NEW t \in Threads,
                    pc[t] \in {"check", "store"},
                    \/ pc'[t] = "send" /\ Over(used)
                    \/ pc'[t] = "refused" /\ ~Over(used)
             PROVE  now - flipped <= TTL + QueryTime
  BY DEF VerdictInTime
<1>1. /\ now \in Nat /\ flipped \in Nat /\ TTL \in Nat /\ QueryTime \in Nat
      /\ flipped <= now
  BY LlmGatewayAssumption DEF GatewayInv, GatewayTypeOK, VerdictInv
<1>2. CASE pc[t] = "check" /\ Fresh /\ pc'[t] = (IF verdicts.over THEN "refused" ELSE "send")
  <2>1. /\ verdicts.at \in Nat /\ now - verdicts.at <= TTL
        /\ WrongSince(verdicts.over, verdicts.at - QueryTime)
    BY <1>2 DEF Fresh, GatewayInv, GatewayTypeOK, VerdictInv
  <2>2. verdicts.at - QueryTime <= flipped
    BY <1>2, <2>1 DEF WrongSince
  <2> QED BY <1>1, <2>1, <2>2
<1>3. CASE pc[t] = "store" /\ pc'[t] = (IF verdict[t].over THEN "refused" ELSE "send")
  <2>1. /\ verdict[t].asked \in Nat /\ now <= verdict[t].asked + QueryTime
        /\ WrongSince(verdict[t].over, verdict[t].asked)
    BY <1>3 DEF GatewayInv, VerdictInv, At
  <2>2. verdict[t].asked <= flipped
    BY <1>3, <2>1 DEF WrongSince
  <2> QED BY <1>1, <2>1, <2>2
<1> QED BY <1>2, <1>3, AnswerIsVerdict

-----------------------------------------------------------------------------
(* Theorems *)

\* llm.py:91: no provider call makes more than RATE_LIMIT_MAX_ATTEMPTS attempts or
\* sleeps longer than RATE_LIMIT_TOTAL_BUDGET_S in all, whatever 429 messages say
\* (attempt and slept in the type invariant); and the bill never falls below zero.
THEOREM GatewayTypeCorrect == Spec => []GatewayTypeOK
<1> QED BY GatewayInvAlways, PTL DEF GatewayInv

\* llm.py:69, 151: with a model of its own for each role, every reply got within
\* a tenant, and not lost by its metering, is a row under the role it was asked for.
THEOREM MeteredUnderItsRoleAlways == DistinctModels /\ Spec => []MeteredUnderItsRole
<1>1. DistinctModels => DistinctModels'
  BY DEF DistinctModels, Roles
<1> QED BY <1>1, MeteredInit, MeteredNext, GatewayInvAlways, PTL DEF Spec

\* llm.py:154: whatever models the roles share, each such reply is one row.
THEOREM EveryReplyARowAlways == Spec => []EveryReplyARow
<1> QED BY RowInit, RowNext, GatewayInvAlways, PTL DEF Spec

\* budget.py:12: a call that starts over the budget, or is refused below it, does
\* so on a verdict at most one TTL and one query older than the change.
THEOREM VerdictWindowAlways == Spec => VerdictWindow
<1>1. VerdictInTime <=>
        \A t \in Threads :
            /\ pc[t] \in {"check", "store"}
            /\ \/ pc'[t] = "send" /\ Over(used)
               \/ pc'[t] = "refused" /\ ~Over(used)
            => now - flipped <= TTL + QueryTime
  BY DEF VerdictInTime
<1>2. GatewayInv /\ [Next]_gatewayVars => [VerdictInTime]_gatewayVars
  BY VerdictStep
<1> QED BY <1>2, GatewayInvAlways, PTL DEF Spec, VerdictWindow, VerdictInTime
=============================================================================
