----------------------------- MODULE MCRequests -----------------------------
(***************************************************************************)
(* What a request waits for, for TLC: the LLM gateway, whose module this    *)
(* one extends, and beside it the dependencies of its tenant (DepsCache).  *)
(* They share no variable: a behaviour is one of either, while the other   *)
(* waits in an initial state.                                              *)
(***************************************************************************)
EXTENDS LlmGateway, Sequences, TLC

CONSTANTS c1, c2, p1, p2, r1, r2, acme, umbra

VARIABLES
    part,
    tenant, got, buildLock, cache, open, disk, training, trainings, depsPc, depsNow

-----------------------------------------------------------------------------
(* One caller may deliberate or parse, the other one chats.                *)

MCPoolOf == (c1 :> {p1, p2}) @@ (c2 :> {})
MCUses ==
    (c1 :> {<<"council", "large">>, <<"parse", "large">>}) @@ (c2 :> {<<"chat", "cheap">>})
MCModelOf == ("cheap" :> "m8") @@ ("large" :> "m70") @@ ("judge" :> "m120")

MCNotices ==
    {[form |-> "none", min |-> 0, sec |-> 0, ms |-> 0],
     [form |-> "m+s", min |-> 1, sec |-> 21, ms |-> 216]}

(* Two requests over a pool of two, two training jobs, one entry cached.   *)

DepsRequests == {r1, r2}
DepsTenants == {acme, umbra}

Deps == INSTANCE DepsCache WITH
    pc <- depsPc, now <- depsNow, Requests <- DepsRequests, Tenants <- DepsTenants,
    MaxSize <- 1, TTL <- 0, PoolSize <- 2, MaxTime <- 1, MaxTrainings <- 2

-----------------------------------------------------------------------------

llmPart == <<pc, scoped, role, stage, attempt, slept, verdict, verdicts,
             used, rows, flipped, due, strays, months, now>>
depsPart == <<tenant, got, buildLock, cache, open, disk, training, trainings,
              depsPc, depsNow>>
partVars == <<part, llmPart, depsPart>>

Turn(p) == part = p /\ UNCHANGED part

LlmTurn(A) == Turn("llm") /\ A /\ UNCHANGED depsPart
DepsTurn(A) == Turn("deps") /\ A /\ UNCHANGED llmPart

\* The part that waits does so in one initial state.
RequestsInit ==
    /\ part \in {"llm", "deps"}
    /\ Init /\ Deps!Init
    /\ part = "deps" => scoped = {}
    /\ part = "llm" => \A t \in DepsTenants : disk[t]["risk"] = "missing"

RequestsNext == LlmTurn(Next) \/ DepsTurn(Deps!Next)

RequestsSpec == RequestsInit /\ [][RequestsNext]_partVars

\* The fairness of the parts.
RequestsFairSpec ==
    /\ RequestsSpec
    /\ \A t \in Threads : WF_partVars(LlmTurn(CallStep(t)))
    /\ \A c \in Callers : WF_partVars(LlmTurn(Join(c)))
    /\ \A r \in DepsRequests : WF_partVars(DepsTurn(Deps!Step(r)))

-----------------------------------------------------------------------------

\* api/deps.py:76: every request that asks for its dependencies comes to an
\* end, as DepsCache states it.
RequestEnds == Deps!RequestEnds
=============================================================================
