----------------------------- MODULE OfferLedger -----------------------------
(***************************************************************************)
(* What the tables of the retention agent promise, whatever the runs that  *)
(* write them do: an offer (customer, campaign, arm) is granted once; a    *)
(* contact is noted only for a granted offer and at most once per run; a   *)
(* run that made the grant reports it only after its contact is noted; a   *)
(* run that found the offer granted reports just that.  Nothing is ever    *)
(* taken back.                                                             *)
(*                                                                         *)
(* RetentionSpine implements this specification: see Ledger there.         *)
(***************************************************************************)
CONSTANTS Runs, Keys

VARIABLES
    granted,   \* pairs <<key, run>>: the offers and the run that granted each
    notices,   \* pairs <<key, run>>: the contacts
    reports    \* triples <<key, run, made>>: the Act entries of the audit trail

vars == <<granted, notices, reports>>

IsGranted(k) == \E g \in granted : g[1] = k

Init == granted = {} /\ notices = {} /\ reports = {}

Grant(k, r) ==
    /\ ~IsGranted(k)
    /\ granted' = granted \cup {<<k, r>>}
    /\ UNCHANGED <<notices, reports>>

Notify(k, r) ==
    /\ IsGranted(k)
    /\ \A n \in notices : n[2] # r
    /\ notices' = notices \cup {<<k, r>>}
    /\ UNCHANGED <<granted, reports>>

\* Several entries are made durable in one transaction.
Truthful(s) ==
    /\ IsGranted(s[1])
    /\ s[3] => <<s[1], s[2]>> \in notices

Report ==
    /\ reports \subseteq reports'
    /\ \A s \in reports' \ reports : s[2] \in Runs /\ Truthful(s)
    /\ UNCHANGED <<granted, notices>>

Next == Report \/ \E k \in Keys, r \in Runs : Grant(k, r) \/ Notify(k, r)

Spec == Init /\ [][Next]_vars

-----------------------------------------------------------------------------
(* What follows from the contract alone. *)

\* No offer is granted by two runs.
GrantedOnce == \A g, h \in granted : g[1] = h[1] => g = h
\* Whatever was noted or reported was granted.
NothingInvented ==
    /\ \A n \in notices : IsGranted(n[1])
    /\ \A s \in reports : Truthful(s)
=============================================================================
