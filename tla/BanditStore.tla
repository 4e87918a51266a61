----------------------------- MODULE BanditStore -----------------------------
(***************************************************************************)
(* The posterior of a tenant's bandit (brain/bandit.py) between its table   *)
(* and the commands: `run-one` loads it, trains it and saves it, the other  *)
(* commands only load it, and any of them may run at the same time or die.  *)
(*                                                                         *)
(* A posterior is the set of the updates summed into it: A and b of an arm,  *)
(* and the count n.  The rows of BANDIT_POSTERIOR obey PostgreSQL: an upsert *)
(* locks its row until the transaction ends, a SELECT sees one snapshot.     *)
(***************************************************************************)
EXTENDS Naturals, FiniteSets, Sequences

CONSTANTS
    Writers,    \* run-one commands, in the order of their processes' names
    Readers,    \* commands that only load: experiment, ablation, chat
    ArmOrder,   \* list(Arm)
    Nobody

KnownArms == {ArmOrder[i] : i \in DOMAIN ArmOrder}
Commands == Writers \cup Readers

ASSUME BanditAssumption ==
    /\ ArmOrder \in Seq(KnownArms) /\ ArmOrder # <<>>
    /\ Writers \cap Readers = {} /\ Nobody \notin Commands
    /\ IsFiniteSet(Commands)

VARIABLES
    at,      \* where each command is
    mine,    \* its ThompsonBandit's posterior
    posterior, \* BANDIT_POSTERIOR, as committed
    rowLock, \* the transaction that holds a row
    written, \* the rows of its open transaction
    missed,  \* history: updates committed since a command has loaded
    lost,    \* history: updates an overlapping save has overwritten
    saved    \* history: updates that have been committed

banditVars == <<at, mine, posterior, rowLock, written, missed, lost, saved>>

-----------------------------------------------------------------------------

\* One update per run-one: it is named after its command.
Belief == [A : SUBSET Writers, b : SUBSET Writers, n : Nat]
Prior == [A |-> {}, b |-> {}, n |-> 0]
AllPrior == [arm \in KnownArms |-> Prior]

BanditTypeOK ==
    /\ at \in [Commands -> {"idle", "loaded", "saving", "done", "dead"}]
    /\ mine \in [Commands -> [KnownArms -> Belief]]
    /\ posterior \in [KnownArms -> Belief]
    /\ rowLock \in [KnownArms -> Writers \cup {Nobody}]
    /\ written \in [Writers -> [KnownArms -> Belief]]
    /\ missed \in [Commands -> SUBSET Writers]
    /\ lost \subseteq Writers /\ saved \subseteq Writers

Updates(belief) == UNION {belief[arm].b : arm \in KnownArms}

\* Mutant: a command that trains starts from the prior.
LoadPrior(c) ==
    /\ at[c] = "idle"
    /\ IF c \in Writers THEN UNCHANGED mine ELSE mine' = [mine EXCEPT ![c] = posterior]
    /\ at' = [at EXCEPT ![c] = IF c \in Writers THEN "loaded" ELSE "done"]
    /\ UNCHANGED <<posterior, rowLock, written, missed, lost, saved>>

\* load: one SELECT, then its commit.  An arm without a row keeps its prior.
LoadPosterior(c) ==
    /\ at[c] = "idle"
    /\ mine' = [mine EXCEPT ![c] = posterior]
    /\ at' = [at EXCEPT ![c] = IF c \in Writers THEN "loaded" ELSE "done"]
    /\ UNCHANGED <<posterior, rowLock, written, missed, lost, saved>>

\* The graph's outcome node trains one arm, or none is offered; the audit rows are
\* committed before the posterior is saved.
Updated(belief, arm, w) ==
    [belief EXCEPT ![arm] = [A |-> @.A \cup {w}, b |-> @.b \cup {w}, n |-> @.n + 1]]

RunOne(w) ==
    /\ at[w] = "loaded"
    /\ \/ \E arm \in KnownArms : mine' = [mine EXCEPT ![w] = Updated(@, arm, w)]
       \/ UNCHANGED mine
    /\ at' = [at EXCEPT ![w] = "saving"]
    /\ UNCHANGED <<posterior, rowLock, written, missed, lost, saved>>

\* save: an upsert per arm, in the order of the arms, each waiting for its row.
Upserted(w) == Cardinality({arm \in KnownArms : rowLock[arm] = w})

\* Mutant: each row is committed at once.
UpsertCommitted(w) ==
    /\ at[w] = "saving" /\ Upserted(w) < Len(ArmOrder)
    /\ LET arm == ArmOrder[Upserted(w) + 1]
       IN /\ rowLock[arm] = Nobody
          /\ rowLock' = [rowLock EXCEPT ![arm] = w]
          /\ written' = [written EXCEPT ![w][arm] = mine[w][arm]]
          /\ posterior' = [posterior EXCEPT ![arm] = mine[w][arm]]
    /\ UNCHANGED <<at, mine, missed, lost, saved>>

\* Mutant: the rows are written in any order.
UpsertAnyOrder(w) ==
    /\ at[w] = "saving" /\ Upserted(w) < Len(ArmOrder)
    /\ \E arm \in KnownArms :
          /\ rowLock[arm] = Nobody
          /\ rowLock' = [rowLock EXCEPT ![arm] = w]
          /\ written' = [written EXCEPT ![w][arm] = mine[w][arm]]
    /\ UNCHANGED <<at, mine, posterior, missed, lost, saved>>

Upsert(w) ==
    /\ at[w] = "saving" /\ Upserted(w) < Len(ArmOrder)
    /\ LET arm == ArmOrder[Upserted(w) + 1]
       IN /\ rowLock[arm] = Nobody
          /\ rowLock' = [rowLock EXCEPT ![arm] = w]
          /\ written' = [written EXCEPT ![w][arm] = mine[w][arm]]
    /\ UNCHANGED <<at, mine, posterior, missed, lost, saved>>

Release(w) ==
    [arm \in KnownArms |-> IF rowLock[arm] = w THEN Nobody ELSE rowLock[arm]]

CommitSave(w) ==
    /\ at[w] = "saving" /\ Upserted(w) = Len(ArmOrder)
    /\ posterior' = [arm \in KnownArms |->
                        IF rowLock[arm] = w THEN written[w][arm] ELSE posterior[arm]]
    /\ rowLock' = Release(w)
    /\ written' = [written EXCEPT ![w] = AllPrior]
    /\ at' = [at EXCEPT ![w] = "done"]
    /\ saved' = saved \cup (Updates(mine[w]) \cap {w})
    /\ missed' = [c \in Commands |->
                     IF at[c] \in {"idle", "done", "dead"} \/ c = w THEN missed[c]
                     ELSE missed[c] \cup (Updates(mine[w]) \cap {w})]
    /\ lost' = lost \cup missed[w]
    /\ UNCHANGED mine

\* The process dies, or its database does: what it has not committed is undone.
Die(c) ==
    /\ at[c] \notin {"done", "dead"}
    /\ at' = [at EXCEPT ![c] = "dead"]
    /\ IF c \in Writers
          THEN /\ rowLock' = Release(c)
               /\ written' = [written EXCEPT ![c] = AllPrior]
          ELSE UNCHANGED <<rowLock, written>>
    /\ UNCHANGED <<mine, posterior, missed, lost, saved>>

-----------------------------------------------------------------------------

BanditInit ==
    /\ at = [c \in Commands |-> "idle"] /\ mine = [c \in Commands |-> AllPrior]
    /\ posterior = AllPrior /\ rowLock = [arm \in KnownArms |-> Nobody]
    /\ written = [w \in Writers |-> AllPrior]
    /\ missed = [c \in Commands |-> {}] /\ lost = {} /\ saved = {}

WriterStep(w) == RunOne(w) \/ Upsert(w) \/ CommitSave(w)

BanditNext ==
    \/ \E c \in Commands : LoadPosterior(c) \/ Die(c)
    \/ \E w \in Writers : WriterStep(w)

BanditSpec == BanditInit /\ [][BanditNext]_banditVars

-----------------------------------------------------------------------------
(* Safety *)

\* brain/bandit.py:6, 93-116: what is in the table, and what a command has loaded
\* of it, is what one command saved: for each of its updates A, b and the count
\* agree, and two commands' saves are never mixed.
OfOneSave(belief) ==
    /\ \A arm \in KnownArms : /\ belief[arm].A = belief[arm].b
                              /\ belief[arm].n = Cardinality(belief[arm].b)
    /\ \/ belief = AllPrior
       \/ \E w \in Writers : belief = mine[w]

RowsOfOneSave ==
    /\ OfOneSave(posterior)
    /\ \A c \in Readers : OfOneSave(mine[c])

\* brain/bandit.py:93: the last save wins.  An update once committed is still in
\* the table, unless a command that had loaded before that commit saved after it.
LostOnlyToOverlap == saved \ lost \subseteq Updates(posterior)

\* brain/bandit.py:93-116: the upserts of a save, the waits of others for its rows
\* and the deaths half-way are, to whoever reads the table, whole saves one after
\* the other: what PosteriorStore promises.
Doing(c) ==
    CASE at[c] = "idle" -> "waiting"
      [] at[c] \in {"loaded", "saving"} -> "working"
      [] OTHER -> "over"

Store == INSTANCE PosteriorStore WITH
    Savers <- Writers, Untrained <- AllPrior,
    table <- posterior, held <- mine, doing <- [c \in Commands |-> Doing(c)]

ImplementsStore == Store!Spec

\* brain/bandit.py:97: every save takes the rows in the same order, so no two
\* wait for each other: a command that saves ends, or dies.
SaveEnds == \A w \in Writers : at[w] = "saving" ~> at[w] \in {"done", "dead"}
=============================================================================
