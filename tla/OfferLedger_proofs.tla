------------------------- MODULE OfferLedger_proofs -------------------------
(***************************************************************************)
(* What the contract of the tables guarantees to whoever reads them.  With *)
(* SpineImplementsLedger (RetentionSpine_proofs) it holds of the program.  *)
(***************************************************************************)
EXTENDS OfferLedger, TLAPS

\* Everything the contract allows leaves both facts true.
LEMMA LedgerInvNext ==
    GrantedOnce /\ NothingInvented /\ [Next]_vars
        => GrantedOnce' /\ NothingInvented'
<1> SUFFICES ASSUME GrantedOnce, NothingInvented, [Next]_vars
             PROVE  GrantedOnce' /\ NothingInvented'
  OBVIOUS
<1> USE DEF GrantedOnce, NothingInvented, IsGranted, Truthful
<1>1. ASSUME NEW k \in Keys, NEW r \in Runs, Grant(k, r)
      PROVE  GrantedOnce' /\ NothingInvented'
  <2>1. /\ \A g \in granted : g[1] # k
        /\ granted' = granted \cup {<<k, r>>}
        /\ UNCHANGED <<notices, reports>>
    BY <1>1 DEF Grant
  <2> QED BY <2>1
<1>2. ASSUME NEW k \in Keys, NEW r \in Runs, Notify(k, r)
      PROVE  GrantedOnce' /\ NothingInvented'
  <2>1. /\ \E g \in granted : g[1] = k
        /\ notices' = notices \cup {<<k, r>>}
        /\ UNCHANGED <<granted, reports>>
    BY <1>2 DEF Notify
  <2> QED BY <2>1
<1>3. CASE Report
  BY <1>3 DEF Report
<1>4. CASE UNCHANGED vars
  BY <1>4 DEF vars
<1> QED BY <1>1, <1>2, <1>3, <1>4 DEF Next

\* No offer is ever granted by two runs, and every contact and every report
\* is about a granted one (the unique key of FULFILLMENTS and the order of
\* the statements in nodes.act).
THEOREM LedgerCorrect == Spec => [](GrantedOnce /\ NothingInvented)
<1>1. Init => GrantedOnce /\ NothingInvented
  BY DEF Init, GrantedOnce, NothingInvented
<1> QED BY <1>1, LedgerInvNext, PTL DEF Spec
=============================================================================
