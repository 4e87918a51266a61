-------------------------- MODULE Negotiation_proofs --------------------------
(***************************************************************************)
(* Proofs about Negotiation, for every set of turns and arms, every ladder *)
(* and every driver.  NegotiationInv is the inductive invariant.           *)
(***************************************************************************)
EXTENDS Negotiation, FiniteSetTheorems, SequenceTheorems, TLAPS

Fulfilling == {"lookup", "insert", "contact", "accepted"}
Unasked == {"choose", "negotiate", "open", "opened", "haggle", "advance", "word"}

-----------------------------------------------------------------------------
(* The inductive invariant *)

\* An offer once on the table is replaced, never taken away.
OfferInv ==
    /\ awaiting => current # None
    /\ \A t \in Turns :
          /\ pc[t] \in {"opened", "haggle", "confirm"} => current # None
          /\ pc[t] \in Fulfilling \cup {"advance"} => held[t] # None

\* In an orderly session the flag means what the customer sees.
AskedInv ==
    orderly =>
        /\ \A t, u \in InFlight : t = u
        /\ awaiting /\ (\A t \in Turns : pc[t] # "confirm") =>
              prompt = current /\ current \in commitments
        /\ \A t \in Turns :
              /\ pc[t] \in {"perceive", "gate"} => seen[t] = prompt
              /\ pc[t] \in Unasked => ~awaiting
              /\ pc[t] \in Fulfilling =>
                    /\ awaiting /\ yes[t]
                    /\ held[t] = current /\ seen[t] = current

\* The rows are those of turns that got that far.
RowInv ==
    /\ \A f \in fulfillments : pc[f.by] \in {"contact", "accepted", "done", "failed"}
    /\ \A x \in contacts :
          pc[x.by] \in {"accepted", "done", "failed"} /\ Fulfilled(x.arm)
    /\ \A t \in Turns : pc[t] = "contact" => Fulfilled(held[t])

\* Whatever may come to be fulfilled is within the authority or the opening rung.
Allowed(arm) == Cost[arm] <= Cap \/ arm = rungs[1]

AuthorityInv ==
    /\ \A i \in DOMAIN conceded : Cost[conceded[i]] <= Cap
    /\ current # None => Allowed(current)
    /\ \A t \in Turns :
          /\ pc[t] = "advance" => Cost[held[t]] <= Cap
          /\ pc[t] \in Fulfilling => Allowed(held[t])
    /\ \A f \in fulfillments : Allowed(f.arm)

NegotiationInv ==
    /\ TypeOK /\ OfferInv /\ AskedInv /\ RowInv /\ ConfirmedThenYes
    /\ AuthorityInv

-----------------------------------------------------------------------------
(* Types *)

\* A ladder is a sequence of offers.
LEMMA LadderType ==
    ASSUME NEW tags, NEW s \in Ladders(tags), IsFiniteSet(Arms)
    PROVE  s \in Seq(Arms)
<1>1. Fitting(tags) \subseteq Arms
  BY DEF Fitting
<1>2. Cardinality(Fitting(tags)) \in Nat
  BY <1>1, FS_Subset, FS_CardinalityType
<1>3. s \in [1..Cardinality(Fitting(tags)) -> Arms]
  BY <1>1 DEF Ladders
<1> QED BY <1>2, <1>3

LEMMA TypeInit == Init => TypeOK
<1> SUFFICES ASSUME Init PROVE TypeOK
  OBVIOUS
<1>1. rungs \in Seq(Arms)
  BY LadderType, NegotiationAssumption DEF Init
<1>2. conceded \in Seq(Arms)
  BY DEF Init
<1>3. driver \in AllDrivers
  BY NegotiationAssumption DEF Init
<1>4. fulfillments \subseteq [arm : Arms, by : Turns]
      /\ contacts \subseteq [arm : Arms, by : Turns] /\ commitments \subseteq Arms
  BY DEF Init
<1>5. /\ pc \in [Turns -> Locations] /\ heard \in [Turns -> Perceptions]
      /\ yes \in [Turns -> BOOLEAN] /\ already \in [Turns -> BOOLEAN]
      /\ held \in [Turns -> Arms \cup {None}]
      /\ seen \in [Turns -> Arms \cup {None}]
  BY DEF Init, Locations, Perceptions
<1> QED
  BY <1>1, <1>2, <1>3, <1>4, <1>5 DEF Init, TypeOK, Statuses

LEMMA TypeNext == TypeOK /\ OfferInv /\ [Next]_vars => TypeOK'
<1> SUFFICES ASSUME TypeOK, OfferInv, [Next]_vars PROVE TypeOK'
  OBVIOUS
<1> USE DEF TypeOK, At, Goto, Locations, Perceptions, Statuses, ladder,
            dialogue, turn, tables, runner, history
<1>1. ASSUME NEW t \in Turns, Submit(t) PROVE TypeOK'
  BY <1>1 DEF Submit
<1>2. ASSUME NEW t \in Turns, Perceive(t) PROVE TypeOK'
  BY <1>2 DEF Perceive
<1>3. ASSUME NEW t \in Turns, Gate(t) PROVE TypeOK'
  BY <1>3 DEF Gate
<1>4. ASSUME NEW t \in Turns, Clarify(t) PROVE TypeOK'
  BY <1>4 DEF Clarify, Reply
<1>5. ASSUME NEW t \in Turns, Handoff(t) PROVE TypeOK'
  BY <1>5 DEF Handoff, Reply
<1>6. ASSUME NEW t \in Turns, Choose(t) PROVE TypeOK'
  <2>1. pc' \in [Turns -> Locations]
    BY <1>6 DEF Choose
  <2>2. UNCHANGED <<driver, ladder, dialogue, turn, tables, runner, history>>
    BY <1>6 DEF Choose
  <2> QED BY <2>1, <2>2
<1>7. ASSUME NEW t \in Turns, Negotiate(t) PROVE TypeOK'
  BY <1>7 DEF Negotiate
<1>8. ASSUME NEW t \in Turns, Open(t) PROVE TypeOK'
  BY <1>8 DEF Open
<1>9. ASSUME NEW t \in Turns, NothingFits(t) PROVE TypeOK'
  BY <1>9 DEF NothingFits, Reply
<1>10. ASSUME NEW t \in Turns, Accept(t) PROVE TypeOK'
  BY <1>10 DEF Accept
<1>11. ASSUME NEW t \in Turns, Present(t) PROVE TypeOK'
  BY <1>11 DEF Present
<1>12. ASSUME NEW t \in Turns, Concede(t) PROVE TypeOK'
  <2>1. rungs[position + 1] \in Arms
    BY <1>12 DEF Concede, CanConcede
  <2> QED BY <1>12, <2>1 DEF Concede
<1>13. ASSUME NEW t \in Turns, Exhausted(t) PROVE TypeOK'
  BY <1>13 DEF Exhausted, Reply
<1>14. ASSUME NEW t \in Turns, Advance(t) PROVE TypeOK'
  <2>1. held[t] \in Arms
    BY <1>14 DEF Advance, OfferInv, Fulfilling
  <2>2. conceded' \in Seq(Arms) /\ current' \in Arms
    BY <1>14, <2>1 DEF Advance
  <2> QED BY <1>14, <2>2 DEF Advance
<1>15. ASSUME NEW t \in Turns, Word(t) PROVE TypeOK'
  BY <1>15 DEF Word, Reply
<1>16. ASSUME NEW t \in Turns, Confirm(t) PROVE TypeOK'
  <2>1. current \in Arms
    BY <1>16 DEF Confirm, OfferInv
  <2> QED BY <1>16, <2>1 DEF Confirm, Reply
<1>17. ASSUME NEW t \in Turns, Lookup(t) PROVE TypeOK'
  <2>1. Fulfilled(held[t]) \in BOOLEAN
    BY DEF Fulfilled
  <2> QED BY <1>17, <2>1 DEF Lookup
<1>18. ASSUME NEW t \in Turns, Insert(t) PROVE TypeOK'
  <2>1. held[t] \in Arms
    BY <1>18 DEF Insert, OfferInv, Fulfilling
  <2>2. RowOf(t) \in [arm : Arms, by : Turns]
    BY <2>1 DEF RowOf
  <2>3. fulfillments' \subseteq [arm : Arms, by : Turns]
    BY <1>18, <2>2 DEF Insert, AfterInsert
  <2>4. pc' \in [Turns -> Locations]
    BY <1>18 DEF Insert
  <2> QED BY <1>18, <2>3, <2>4 DEF Insert
<1>19. ASSUME NEW t \in Turns, RecordContact(t) PROVE TypeOK'
  <2>1. held[t] \in Arms
    BY <1>19 DEF RecordContact, OfferInv, Fulfilling
  <2>2. RowOf(t) \in [arm : Arms, by : Turns]
    BY <2>1 DEF RowOf
  <2> QED BY <1>19, <2>2 DEF RecordContact
<1>20. ASSUME NEW t \in Turns, Accepted(t) PROVE TypeOK'
  BY <1>20 DEF Accepted, Reply
<1>21. ASSUME NEW t \in Turns, Fail(t) PROVE TypeOK'
  BY <1>21 DEF Fail
<1>22. CASE Finish \/ Leave
  BY <1>22 DEF Finish, Leave
<1>23. CASE UNCHANGED vars
  BY <1>23 DEF vars
<1> QED
  BY <1>1, <1>2, <1>3, <1>4, <1>5, <1>6, <1>7, <1>8, <1>9, <1>10, <1>11,
     <1>12, <1>13, <1>14, <1>15, <1>16, <1>17, <1>18, <1>19, <1>20,
     <1>21, <1>22, <1>23 DEF Next, Respond

-----------------------------------------------------------------------------
(* The offer on the table *)

LEMMA OfferNext == TypeOK /\ OfferInv /\ [Next]_vars => OfferInv'
<1> SUFFICES ASSUME TypeOK, OfferInv, [Next]_vars PROVE OfferInv'
  OBVIOUS
<1> USE NegotiationAssumption
    DEF TypeOK, OfferInv, Fulfilling, At, Goto, ladder, dialogue, turn,
        tables, runner, history
<1>1. ASSUME NEW t \in Turns, Submit(t) PROVE OfferInv'
  BY <1>1 DEF Submit
<1>2. ASSUME NEW t \in Turns, Perceive(t) PROVE OfferInv'
  BY <1>2 DEF Perceive
<1>3. ASSUME NEW t \in Turns, Gate(t) PROVE OfferInv'
  BY <1>3 DEF Gate
<1>4. ASSUME NEW t \in Turns, Clarify(t) PROVE OfferInv'
  BY <1>4 DEF Clarify, Reply
<1>5. ASSUME NEW t \in Turns, Handoff(t) PROVE OfferInv'
  BY <1>5 DEF Handoff, Reply
<1>6. ASSUME NEW t \in Turns, Choose(t) PROVE OfferInv'
  BY <1>6 DEF Choose
<1>7. ASSUME NEW t \in Turns, Negotiate(t) PROVE OfferInv'
  BY <1>7 DEF Negotiate
<1>8. ASSUME NEW t \in Turns, Open(t) PROVE OfferInv'
  BY <1>8 DEF Open
<1>9. ASSUME NEW t \in Turns, NothingFits(t) PROVE OfferInv'
  BY <1>9 DEF NothingFits, Reply
<1>10. ASSUME NEW t \in Turns, Accept(t) PROVE OfferInv'
  BY <1>10 DEF Accept
<1>11. ASSUME NEW t \in Turns, Present(t) PROVE OfferInv'
  BY <1>11 DEF Present
<1>12. ASSUME NEW t \in Turns, Concede(t) PROVE OfferInv'
  <2>1. rungs[position + 1] \in Arms
    BY <1>12 DEF Concede, CanConcede
  <2> QED BY <1>12, <2>1 DEF Concede
<1>13. ASSUME NEW t \in Turns, Exhausted(t) PROVE OfferInv'
  BY <1>13 DEF Exhausted, Reply
<1>14. ASSUME NEW t \in Turns, Advance(t) PROVE OfferInv'
  BY <1>14 DEF Advance
<1>15. ASSUME NEW t \in Turns, Word(t) PROVE OfferInv'
  BY <1>15 DEF Word, Reply
<1>16. ASSUME NEW t \in Turns, Confirm(t) PROVE OfferInv'
  BY <1>16 DEF Confirm, Reply
<1>17. ASSUME NEW t \in Turns, Lookup(t) PROVE OfferInv'
  BY <1>17 DEF Lookup
<1>18. ASSUME NEW t \in Turns, Insert(t) PROVE OfferInv'
  BY <1>18 DEF Insert
<1>19. ASSUME NEW t \in Turns, RecordContact(t) PROVE OfferInv'
  BY <1>19 DEF RecordContact
<1>20. ASSUME NEW t \in Turns, Accepted(t) PROVE OfferInv'
  BY <1>20 DEF Accepted, Reply
<1>21. ASSUME NEW t \in Turns, Fail(t) PROVE OfferInv'
  BY <1>21 DEF Fail
<1>22. CASE Finish \/ Leave
  BY <1>22 DEF Finish, Leave
<1>23. CASE UNCHANGED vars
  BY <1>23 DEF vars
<1> QED
  BY <1>1, <1>2, <1>3, <1>4, <1>5, <1>6, <1>7, <1>8, <1>9, <1>10, <1>11,
     <1>12, <1>13, <1>14, <1>15, <1>16, <1>17, <1>18, <1>19, <1>20,
     <1>21, <1>22, <1>23 DEF Next, Respond

-----------------------------------------------------------------------------
(* The confirmation *)

\* A reply ends the only turn in flight; the flag must then be about it.
LEMMA ReplyAsked ==
    ASSUME TypeOK, AskedInv, orderly', NEW t \in InFlight, NEW s, NEW offer,
           NEW shown, Reply(t, s, offer, shown),
           awaiting' => shown = current' /\ current' \in commitments'
    PROVE  AskedInv'
<1>1. orderly /\ prompt' = shown
  BY DEF Reply, TypeOK
<1>2. \A u \in Turns : u # t => pc[u] \in Ended \cup {"idle"}
  BY <1>1 DEF AskedInv, InFlight, Started, Ended
<1>3. pc' = [pc EXCEPT ![t] = "done"] /\ t \in Turns
  BY DEF Reply, Goto, InFlight, Started
<1>4. \A u \in Turns : pc'[u] \in Ended \cup {"idle"}
  BY <1>2, <1>3 DEF TypeOK, Ended
<1> QED
  BY <1>1, <1>4
  DEF AskedInv, InFlight, Started, Ended, Fulfilling, Unasked

LEMMA AskedNext == TypeOK /\ AskedInv /\ [Next]_vars => AskedInv'
<1> SUFFICES ASSUME TypeOK, AskedInv, [Next]_vars, orderly' PROVE AskedInv'
  BY DEF AskedInv
<1> USE DEF TypeOK, AskedInv, InFlight, Started, Ended, Fulfilling, Unasked,
            At, Goto, ladder, dialogue, turn, tables, runner, history
<1>1. ASSUME NEW t \in Turns, Submit(t) PROVE AskedInv'
  BY <1>1 DEF Submit
<1>2. ASSUME NEW t \in Turns, Perceive(t) PROVE AskedInv'
  BY <1>2 DEF Perceive
<1>3. ASSUME NEW t \in Turns, Gate(t) PROVE AskedInv'
  BY <1>3 DEF Gate
<1>4. ASSUME NEW t \in Turns, Clarify(t) PROVE AskedInv'
  <2>1. t \in InFlight /\ Reply(t, status, current, None)
    BY <1>4 DEF Clarify
  <2>2. orderly /\ (awaiting' => None = current' /\ current' \in commitments')
    BY <1>4, <2>1 DEF Clarify, Reply
  <2> QED BY <2>1, <2>2, ReplyAsked
<1>5. ASSUME NEW t \in Turns, Handoff(t) PROVE AskedInv'
  <2>1. t \in InFlight /\ Reply(t, "HANDOFF", None, None)
    BY <1>5 DEF Handoff
  <2>2. orderly /\ (awaiting' => None = current' /\ current' \in commitments')
    BY <1>5, <2>1 DEF Handoff, Reply
  <2> QED BY <2>1, <2>2, ReplyAsked
<1>6. ASSUME NEW t \in Turns, Choose(t) PROVE AskedInv'
  BY <1>6 DEF Choose
<1>7. ASSUME NEW t \in Turns, Negotiate(t) PROVE AskedInv'
  BY <1>7 DEF Negotiate
<1>8. ASSUME NEW t \in Turns, Open(t) PROVE AskedInv'
  BY <1>8 DEF Open
<1>9. ASSUME NEW t \in Turns, NothingFits(t) PROVE AskedInv'
  <2>1. t \in InFlight /\ Reply(t, "ESCALATED", None, None)
    BY <1>9 DEF NothingFits
  <2>2. orderly /\ (awaiting' => None = current' /\ current' \in commitments')
    BY <1>9, <2>1 DEF NothingFits, Reply
  <2> QED BY <2>1, <2>2, ReplyAsked
<1>10. ASSUME NEW t \in Turns, Accept(t) PROVE AskedInv'
  BY <1>10 DEF Accept
<1>11. ASSUME NEW t \in Turns, Present(t) PROVE AskedInv'
  BY <1>11 DEF Present
<1>12. ASSUME NEW t \in Turns, Concede(t) PROVE AskedInv'
  BY <1>12 DEF Concede
<1>13. ASSUME NEW t \in Turns, Exhausted(t) PROVE AskedInv'
  <2>1. t \in InFlight /\ Reply(t, "ESCALATED", None, None)
    BY <1>13 DEF Exhausted
  <2>2. orderly /\ (awaiting' => None = current' /\ current' \in commitments')
    BY <1>13, <2>1 DEF Exhausted, Reply
  <2> QED BY <2>1, <2>2, ReplyAsked
<1>14. ASSUME NEW t \in Turns, Advance(t) PROVE AskedInv'
  BY <1>14 DEF Advance
<1>15. ASSUME NEW t \in Turns, Word(t) PROVE AskedInv'
  <2>1. t \in InFlight /\ Reply(t, status, current, None)
    BY <1>15 DEF Word
  <2>2. orderly /\ (awaiting' => None = current' /\ current' \in commitments')
    BY <1>15, <2>1 DEF Word, Reply
  <2> QED BY <2>1, <2>2, ReplyAsked
<1>16. ASSUME NEW t \in Turns, Confirm(t) PROVE AskedInv'
  <2>1. t \in InFlight /\ Reply(t, status, current, current)
    BY <1>16 DEF Confirm
  <2>2. orderly /\ (awaiting' => current = current' /\ current' \in commitments')
    BY <1>16, <2>1 DEF Confirm, Reply
  <2> QED BY <2>1, <2>2, ReplyAsked
<1>17. ASSUME NEW t \in Turns, Lookup(t) PROVE AskedInv'
  BY <1>17 DEF Lookup
<1>18. ASSUME NEW t \in Turns, Insert(t) PROVE AskedInv'
  BY <1>18 DEF Insert
<1>19. ASSUME NEW t \in Turns, RecordContact(t) PROVE AskedInv'
  BY <1>19 DEF RecordContact
<1>20. ASSUME NEW t \in Turns, Accepted(t) PROVE AskedInv'
  <2>1. t \in InFlight /\ Reply(t, "ACCEPTED", held[t], held[t])
    BY <1>20 DEF Accepted
  <2>2. orderly /\ (awaiting' => held[t] = current' /\ current' \in commitments')
    BY <1>20, <2>1 DEF Accepted, Reply
  <2> QED BY <2>1, <2>2, ReplyAsked
<1>21. ASSUME NEW t \in Turns, Fail(t) PROVE AskedInv'
  BY <1>21 DEF Fail
<1>22. CASE Finish \/ Leave
  <2>1. UNCHANGED <<ladder, dialogue, pc, turn, history>>
    BY <1>22 DEF Finish, Leave
  <2> QED BY <2>1
<1>23. CASE UNCHANGED vars
  BY <1>23 DEF vars
<1> QED
  BY <1>1, <1>2, <1>3, <1>4, <1>5, <1>6, <1>7, <1>8, <1>9, <1>10, <1>11,
     <1>12, <1>13, <1>14, <1>15, <1>16, <1>17, <1>18, <1>19, <1>20,
     <1>21, <1>22, <1>23 DEF Next, Respond

-----------------------------------------------------------------------------
(* The tables *)

LEMMA RowNext == TypeOK /\ RowInv /\ [Next]_vars => RowInv'
<1> SUFFICES ASSUME TypeOK, RowInv, [Next]_vars PROVE RowInv'
  OBVIOUS
<1> USE DEF TypeOK, RowInv, Fulfilled, At, Goto, ladder, dialogue, turn,
            tables, runner, history
<1>1. ASSUME NEW t \in Turns, Submit(t) PROVE RowInv'
  BY <1>1 DEF Submit
<1>2. ASSUME NEW t \in Turns, Perceive(t) PROVE RowInv'
  BY <1>2 DEF Perceive
<1>3. ASSUME NEW t \in Turns, Gate(t) PROVE RowInv'
  <2>1. CASE awaiting /\ yes[t]
    <3>1. /\ pc[t] = "gate" /\ pc' = [pc EXCEPT ![t] = "lookup"]
          /\ held' = [held EXCEPT ![t] = current]
      BY <1>3, <2>1 DEF Gate
    <3> QED BY <1>3, <3>1 DEF Gate
  <2>2. CASE ~(awaiting /\ yes[t])
    <3>1. pc[t] = "gate" /\ pc' = [pc EXCEPT ![t] = "choose"] /\ UNCHANGED held
      BY <1>3, <2>2 DEF Gate
    <3> QED BY <1>3, <3>1 DEF Gate
  <2> QED BY <2>1, <2>2
<1>4. ASSUME NEW t \in Turns, Clarify(t) PROVE RowInv'
  BY <1>4 DEF Clarify, Reply
<1>5. ASSUME NEW t \in Turns, Handoff(t) PROVE RowInv'
  BY <1>5 DEF Handoff, Reply
<1>6. ASSUME NEW t \in Turns, Choose(t) PROVE RowInv'
  BY <1>6 DEF Choose
<1>7. ASSUME NEW t \in Turns, Negotiate(t) PROVE RowInv'
  BY <1>7 DEF Negotiate
<1>8. ASSUME NEW t \in Turns, Open(t) PROVE RowInv'
  BY <1>8 DEF Open
<1>9. ASSUME NEW t \in Turns, NothingFits(t) PROVE RowInv'
  BY <1>9 DEF NothingFits, Reply
<1>10. ASSUME NEW t \in Turns, Accept(t) PROVE RowInv'
  BY <1>10 DEF Accept
<1>11. ASSUME NEW t \in Turns, Present(t) PROVE RowInv'
  BY <1>11 DEF Present
<1>12. ASSUME NEW t \in Turns, Concede(t) PROVE RowInv'
  BY <1>12 DEF Concede
<1>13. ASSUME NEW t \in Turns, Exhausted(t) PROVE RowInv'
  BY <1>13 DEF Exhausted, Reply
<1>14. ASSUME NEW t \in Turns, Advance(t) PROVE RowInv'
  BY <1>14 DEF Advance
<1>15. ASSUME NEW t \in Turns, Word(t) PROVE RowInv'
  BY <1>15 DEF Word, Reply
<1>16. ASSUME NEW t \in Turns, Confirm(t) PROVE RowInv'
  BY <1>16 DEF Confirm, Reply
<1>17. ASSUME NEW t \in Turns, Lookup(t) PROVE RowInv'
  BY <1>17 DEF Lookup
<1>18. ASSUME NEW t \in Turns, Insert(t) PROVE RowInv'
  <2>1. /\ fulfillments \subseteq fulfillments'
        /\ \A f \in fulfillments' : f \in fulfillments \/ f = RowOf(t)
        /\ Fulfilled(held[t]) \/ RowOf(t) \in fulfillments'
    BY <1>18 DEF Insert, AfterInsert
  <2>9. RowOf(t).arm = held[t] /\ RowOf(t).by = t
    BY DEF RowOf
  <2>2. \A u \in Turns : u # t => pc'[u] = pc[u]
    BY <1>18 DEF Insert
  <2>3. pc[t] = "insert" /\ pc'[t] \in {"contact", "accepted"}
    BY <1>18 DEF Insert
  <2>4. UNCHANGED <<contacts, held>>
    BY <1>18 DEF Insert
  <2>5. \E f \in fulfillments' : f.arm = held[t]
    BY <2>1, <2>9
  <2>6. \A f \in fulfillments' :
            pc'[f.by] \in {"contact", "accepted", "done", "failed"}
    BY <2>1, <2>2, <2>3, <2>9
  <2>7. \A x \in contacts' :
            /\ pc'[x.by] \in {"accepted", "done", "failed"}
            /\ \E f \in fulfillments' : f.arm = x.arm
    BY <2>1, <2>2, <2>3, <2>4
  <2>8. \A u \in Turns : pc'[u] = "contact" =>
            \E f \in fulfillments' : f.arm = held'[u]
    BY <2>1, <2>2, <2>3, <2>4, <2>5
  <2> QED BY <2>6, <2>7, <2>8
<1>19. ASSUME NEW t \in Turns, RecordContact(t) PROVE RowInv'
  <2>1. /\ contacts' = contacts \cup {RowOf(t)}
        /\ pc' = [pc EXCEPT ![t] = "accepted"] /\ pc[t] = "contact"
        /\ UNCHANGED <<fulfillments, held>>
    BY <1>19 DEF RecordContact
  <2>2. \E f \in fulfillments : f.arm = held[t]
    BY <2>1
  <2> QED BY <2>1, <2>2 DEF RowOf
<1>20. ASSUME NEW t \in Turns, Accepted(t) PROVE RowInv'
  BY <1>20 DEF Accepted, Reply
<1>21. ASSUME NEW t \in Turns, Fail(t) PROVE RowInv'
  BY <1>21 DEF Fail
<1>22. CASE Finish \/ Leave
  BY <1>22 DEF Finish, Leave
<1>23. CASE UNCHANGED vars
  BY <1>23 DEF vars
<1> QED
  BY <1>1, <1>2, <1>3, <1>4, <1>5, <1>6, <1>7, <1>8, <1>9, <1>10, <1>11,
     <1>12, <1>13, <1>14, <1>15, <1>16, <1>17, <1>18, <1>19, <1>20,
     <1>21, <1>22, <1>23 DEF Next, Respond

LEMMA ConfirmedNext ==
    NegotiationInv /\ [Next]_vars => ConfirmedThenYes'
<1> SUFFICES ASSUME NegotiationInv, [Next]_vars, orderly' PROVE ConfirmedThenYes'
  BY DEF ConfirmedThenYes
<1> USE DEF NegotiationInv, TypeOK, RowInv, ConfirmedThenYes, Confirmed, At,
            Goto, ladder, dialogue, turn, tables, runner, history
<1>1. ASSUME NEW t \in Turns, Submit(t) PROVE ConfirmedThenYes'
  BY <1>1 DEF Submit
<1>2. ASSUME NEW t \in Turns, Perceive(t) PROVE ConfirmedThenYes'
  BY <1>2 DEF Perceive
<1>3. ASSUME NEW t \in Turns, Gate(t) PROVE ConfirmedThenYes'
  BY <1>3 DEF Gate
<1>4. ASSUME NEW t \in Turns, Clarify(t) PROVE ConfirmedThenYes'
  BY <1>4 DEF Clarify, Reply
<1>5. ASSUME NEW t \in Turns, Handoff(t) PROVE ConfirmedThenYes'
  BY <1>5 DEF Handoff, Reply
<1>6. ASSUME NEW t \in Turns, Choose(t) PROVE ConfirmedThenYes'
  BY <1>6 DEF Choose
<1>7. ASSUME NEW t \in Turns, Negotiate(t) PROVE ConfirmedThenYes'
  BY <1>7 DEF Negotiate
<1>8. ASSUME NEW t \in Turns, Open(t) PROVE ConfirmedThenYes'
  BY <1>8 DEF Open
<1>9. ASSUME NEW t \in Turns, NothingFits(t) PROVE ConfirmedThenYes'
  BY <1>9 DEF NothingFits, Reply
<1>10. ASSUME NEW t \in Turns, Accept(t) PROVE ConfirmedThenYes'
  BY <1>10 DEF Accept
<1>11. ASSUME NEW t \in Turns, Present(t) PROVE ConfirmedThenYes'
  BY <1>11 DEF Present
<1>12. ASSUME NEW t \in Turns, Concede(t) PROVE ConfirmedThenYes'
  BY <1>12 DEF Concede
<1>13. ASSUME NEW t \in Turns, Exhausted(t) PROVE ConfirmedThenYes'
  BY <1>13 DEF Exhausted, Reply
<1>14. ASSUME NEW t \in Turns, Advance(t) PROVE ConfirmedThenYes'
  BY <1>14 DEF Advance
<1>15. ASSUME NEW t \in Turns, Word(t) PROVE ConfirmedThenYes'
  BY <1>15 DEF Word, Reply
<1>16. ASSUME NEW t \in Turns, Confirm(t) PROVE ConfirmedThenYes'
  BY <1>16 DEF Confirm, Reply
<1>17. ASSUME NEW t \in Turns, Lookup(t) PROVE ConfirmedThenYes'
  BY <1>17 DEF Lookup
<1>18. ASSUME NEW t \in Turns, Insert(t) PROVE ConfirmedThenYes'
  <2>1. orderly /\ UNCHANGED <<yes, seen, held, commitments>>
    BY <1>18 DEF Insert
  <2>2. /\ awaiting /\ yes[t] /\ seen[t] = held[t] /\ held[t] = current
        /\ t \in InFlight
    BY <1>18, <2>1 DEF Insert, AskedInv, Fulfilling, InFlight, Started, Ended
  <2>3. \A u \in Turns : pc[u] # "confirm"
    <3>1. SUFFICES ASSUME NEW u \in Turns, pc[u] = "confirm" PROVE FALSE
      OBVIOUS
    <3>2. u \in InFlight
      BY <3>1 DEF InFlight, Started, Ended
    <3> QED BY <1>18, <2>1, <2>2, <3>1, <3>2 DEF AskedInv, Insert
  <2>4. held[t] \in commitments
    BY <2>1, <2>2, <2>3 DEF AskedInv
  <2>5. \A f \in fulfillments' : f \in fulfillments \/ f = RowOf(t)
    BY <1>18 DEF Insert, AfterInsert
  <2> QED BY <2>1, <2>2, <2>4, <2>5 DEF RowOf
<1>19. ASSUME NEW t \in Turns, RecordContact(t) PROVE ConfirmedThenYes'
  BY <1>19 DEF RecordContact
<1>20. ASSUME NEW t \in Turns, Accepted(t) PROVE ConfirmedThenYes'
  BY <1>20 DEF Accepted, Reply
<1>21. ASSUME NEW t \in Turns, Fail(t) PROVE ConfirmedThenYes'
  BY <1>21 DEF Fail
<1>22. CASE Finish \/ Leave
  BY <1>22 DEF Finish, Leave
<1>23. CASE UNCHANGED vars
  BY <1>23 DEF vars
<1> QED
  BY <1>1, <1>2, <1>3, <1>4, <1>5, <1>6, <1>7, <1>8, <1>9, <1>10, <1>11,
     <1>12, <1>13, <1>14, <1>15, <1>16, <1>17, <1>18, <1>19, <1>20,
     <1>21, <1>22, <1>23 DEF Next, Respond

-----------------------------------------------------------------------------
(* The authority *)

\* Most steps neither move an offer nor bring a turn to where it holds one.
LEMMA AuthorityKept ==
    ASSUME AuthorityInv,
           UNCHANGED <<rungs, current, conceded, held, fulfillments>>,
           \A t \in Turns :
              pc'[t] \in Fulfilling \cup {"advance"} =>
                 \/ pc'[t] = pc[t]
                 \/ pc[t] \in Fulfilling /\ pc'[t] \in Fulfilling
    PROVE  AuthorityInv'
BY DEF AuthorityInv, Allowed, Fulfilling

LEMMA AuthorityNext ==
    TypeOK /\ OfferInv /\ AuthorityInv /\ [Next]_vars => AuthorityInv'
<1> SUFFICES ASSUME TypeOK, OfferInv, AuthorityInv, [Next]_vars
             PROVE  AuthorityInv'
  OBVIOUS
<1> USE DEF At, Goto, ladder, dialogue, turn, tables, runner, history
<1>1. ASSUME NEW t \in Turns, Gate(t) PROVE AuthorityInv'
  <2>1. CASE awaiting /\ yes[t]
    <3>1. current # None
      BY <2>1 DEF OfferInv
    <3>2. /\ held' = [held EXCEPT ![t] = current]
          /\ pc' = [pc EXCEPT ![t] = "lookup"]
          /\ UNCHANGED <<rungs, current, conceded, fulfillments>>
      BY <1>1, <2>1 DEF Gate
    <3> QED
      BY <3>1, <3>2 DEF AuthorityInv, Allowed, Fulfilling, TypeOK
  <2>2. CASE ~(awaiting /\ yes[t])
    <3>1. /\ pc' = [pc EXCEPT ![t] = "choose"]
          /\ UNCHANGED <<rungs, current, conceded, held, fulfillments>>
      BY <1>1, <2>2 DEF Gate
    <3> QED
      BY <3>1, AuthorityKept DEF Fulfilling, TypeOK
  <2> QED BY <2>1, <2>2
<1>2. ASSUME NEW t \in Turns, Open(t) PROVE AuthorityInv'
  BY <1>2 DEF Open, AuthorityInv, Allowed, Fulfilling, TypeOK
<1>3. ASSUME NEW t \in Turns, Concede(t) PROVE AuthorityInv'
  BY <1>3 DEF Concede, CanConcede, AuthorityInv, Allowed, Fulfilling, TypeOK
<1>4. ASSUME NEW t \in Turns, Advance(t) PROVE AuthorityInv'
  <2>1. held[t] \in Arms /\ Cost[held[t]] <= Cap
    BY <1>4 DEF Advance, OfferInv, Fulfilling, AuthorityInv, TypeOK
  <2>2. \A i \in DOMAIN conceded' : Cost[conceded'[i]] <= Cap
    BY <1>4, <2>1 DEF Advance, AuthorityInv, TypeOK
  <2> QED
    BY <1>4, <2>1, <2>2 DEF Advance, AuthorityInv, Allowed, Fulfilling, TypeOK
<1>5. ASSUME NEW t \in Turns, Insert(t) PROVE AuthorityInv'
  <2>1. Allowed(held[t])
    BY <1>5 DEF Insert, AuthorityInv, Fulfilling
  <2>2. \A f \in fulfillments' : Allowed(f.arm)
    BY <1>5, <2>1 DEF Insert, AfterInsert, RowOf, AuthorityInv
  <2> QED
    BY <1>5, <2>2 DEF Insert, AuthorityInv, Allowed, Fulfilling, TypeOK
<1>6. ASSUME NEW t \in Turns, Submit(t) PROVE AuthorityInv'
  BY <1>6, AuthorityKept DEF Submit, Fulfilling, TypeOK
<1>7. ASSUME NEW t \in Turns, Perceive(t) PROVE AuthorityInv'
  BY <1>7, AuthorityKept DEF Perceive, Fulfilling, TypeOK
<1>8. ASSUME NEW t \in Turns, Clarify(t) PROVE AuthorityInv'
  BY <1>8, AuthorityKept DEF Clarify, Reply, Fulfilling, TypeOK
<1>9. ASSUME NEW t \in Turns, Handoff(t) PROVE AuthorityInv'
  BY <1>9, AuthorityKept DEF Handoff, Reply, Fulfilling, TypeOK
<1>10. ASSUME NEW t \in Turns, Choose(t) PROVE AuthorityInv'
  BY <1>10, AuthorityKept DEF Choose, Fulfilling, TypeOK
<1>11. ASSUME NEW t \in Turns, Negotiate(t) PROVE AuthorityInv'
  BY <1>11, AuthorityKept DEF Negotiate, Fulfilling, TypeOK
<1>12. ASSUME NEW t \in Turns, NothingFits(t) PROVE AuthorityInv'
  BY <1>12, AuthorityKept DEF NothingFits, Reply, Fulfilling, TypeOK
<1>13. ASSUME NEW t \in Turns, Accept(t) PROVE AuthorityInv'
  BY <1>13, AuthorityKept DEF Accept, Fulfilling, TypeOK
<1>14. ASSUME NEW t \in Turns, Present(t) PROVE AuthorityInv'
  BY <1>14, AuthorityKept DEF Present, Fulfilling, TypeOK
<1>15. ASSUME NEW t \in Turns, Exhausted(t) PROVE AuthorityInv'
  BY <1>15, AuthorityKept DEF Exhausted, Reply, Fulfilling, TypeOK
<1>16. ASSUME NEW t \in Turns, Word(t) PROVE AuthorityInv'
  BY <1>16, AuthorityKept DEF Word, Reply, Fulfilling, TypeOK
<1>17. ASSUME NEW t \in Turns, Confirm(t) PROVE AuthorityInv'
  BY <1>17, AuthorityKept DEF Confirm, Reply, Fulfilling, TypeOK
<1>18. ASSUME NEW t \in Turns, Lookup(t) PROVE AuthorityInv'
  BY <1>18, AuthorityKept DEF Lookup, Fulfilling, TypeOK
<1>19. ASSUME NEW t \in Turns, RecordContact(t) PROVE AuthorityInv'
  BY <1>19, AuthorityKept DEF RecordContact, Fulfilling, TypeOK
<1>20. ASSUME NEW t \in Turns, Accepted(t) PROVE AuthorityInv'
  BY <1>20, AuthorityKept DEF Accepted, Reply, Fulfilling, TypeOK
<1>21. ASSUME NEW t \in Turns, Fail(t) PROVE AuthorityInv'
  BY <1>21, AuthorityKept DEF Fail, Fulfilling, TypeOK
<1>22. CASE Finish \/ Leave \/ UNCHANGED vars
  BY <1>22, AuthorityKept DEF Finish, Leave, vars
<1> QED
  BY <1>1, <1>2, <1>3, <1>4, <1>5, <1>6, <1>7, <1>8, <1>9, <1>10, <1>11, <1>12, <1>13, <1>14, <1>15, <1>16, <1>17, <1>18, <1>19, <1>20, <1>21, <1>22
  DEF Next, Respond

-----------------------------------------------------------------------------

THEOREM NegotiationInductive == Spec => []NegotiationInv
<1>1. Init => NegotiationInv
  BY TypeInit
  DEF Init, NegotiationInv, OfferInv, AskedInv, RowInv, ConfirmedThenYes,
      AuthorityInv, InFlight, Started, Fulfilling, Unasked
<1>2. NegotiationInv /\ [Next]_vars => NegotiationInv'
  BY TypeNext, OfferNext, AskedNext, RowNext, ConfirmedNext, AuthorityNext
  DEF NegotiationInv
<1> QED BY <1>1, <1>2, PTL DEF Spec

\* The RuntimeError of the gate (agent.py:126) is unreachable, however the
\* turns of a session overlap or raise.
THEOREM AwaitingHasOfferAlways == Spec => []AwaitingHasOffer
<1>1. NegotiationInv => AwaitingHasOffer
  BY DEF NegotiationInv, OfferInv, AwaitingHasOffer, Fulfilling
<1> QED BY <1>1, NegotiationInductive, PTL

\* agent.py:9: no fulfilment without CONFIRM_ACT and a later yes to it, in
\* every session whose turns wait for one another.
THEOREM ConfirmedThenYesAlways == Spec => []ConfirmedThenYes
<1>1. NegotiationInv => ConfirmedThenYes
  BY DEF NegotiationInv
<1> QED BY <1>1, NegotiationInductive, PTL

\* ladder.concede: for every ladder and cap, no concession and no fulfilment
\* beyond the opening rung exceeds the authority, turns overlapping or not.
THEOREM WithinAuthorityAlways == Spec => []WithinAuthority
<1>1. NegotiationInv => WithinAuthority
  BY DEF NegotiationInv, AuthorityInv, Allowed, WithinAuthority, Fulfilled
<1> QED BY <1>1, NegotiationInductive, PTL

\* The chat keeps the contract of the tables, overlapping turns included.
THEOREM NegotiationImplementsLedger == Spec => ImplementsLedger
<1> DEFINE granted == {<<f.arm, f.by>> : f \in fulfillments}
           notices == {<<x.arm, x.by>> : x \in contacts}
<1>1. Init => Ledger!Init
  BY DEF Init, Ledger!Init
<1>2. NegotiationInv /\ [Next]_vars => [Ledger!Next]_Ledger!vars
  <2> SUFFICES ASSUME NegotiationInv, [Next]_vars
               PROVE  [Ledger!Next]_Ledger!vars
    OBVIOUS
  <2> USE DEF NegotiationInv, TypeOK
  <2>1. ASSUME NEW t \in Turns, Insert(t) PROVE [Ledger!Next]_Ledger!vars
    <3>1. CASE Fulfilled(held[t])
      BY <2>1, <3>1 DEF Insert, AfterInsert, Ledger!vars, tables
    <3>2. CASE ~Fulfilled(held[t])
      <4>1. held[t] \in Arms
        BY <2>1 DEF OfferInv, Fulfilling, Insert, At
      <4>2. \A g \in granted : g[1] # held[t]
        BY <3>2 DEF Fulfilled
      <4>4. /\ fulfillments' = fulfillments \cup {RowOf(t)}
            /\ UNCHANGED contacts
        BY <2>1, <3>2 DEF Insert, AfterInsert
      <4>5. RowOf(t).arm = held[t] /\ RowOf(t).by = t
        BY DEF RowOf
      <4>6. granted' = granted \cup {<<held[t], t>>} /\ notices' = notices
        BY <4>4, <4>5
      <4> HIDE DEF granted, notices
      <4>3. Ledger!Grant(held[t], t)
        BY <4>2, <4>6 DEF Ledger!Grant, Ledger!IsGranted, granted, notices
      <4> QED BY <4>1, <4>3 DEF Ledger!Next
    <3> QED BY <3>1, <3>2
  <2>2. ASSUME NEW t \in Turns, RecordContact(t) PROVE [Ledger!Next]_Ledger!vars
    <3>1. held[t] \in Arms
      BY <2>2 DEF OfferInv, Fulfilling, RecordContact, At
    <3>2. \E g \in granted : g[1] = held[t]
      <4>1. pc[t] = "contact"
        BY <2>2 DEF RecordContact, At
      <4>2. Fulfilled(held[t])
        BY <4>1 DEF RowInv
      <4>3. PICK f \in fulfillments : f.arm = held[t]
        BY <4>2 DEF Fulfilled
      <4>4. <<f.arm, f.by>> \in granted
        OBVIOUS
      <4>5. <<f.arm, f.by>>[1] = held[t]
        BY <4>3
      <4> QED BY <4>4, <4>5
    <3>3. \A x \in contacts : x.by # t
      BY <2>2 DEF RowInv, RecordContact, At
    <3>6. \A n \in notices : n[2] # t
      BY <3>3
    <3>7. contacts' = contacts \cup {RowOf(t)} /\ UNCHANGED fulfillments
      BY <2>2 DEF RecordContact
    <3>8. RowOf(t).arm = held[t] /\ RowOf(t).by = t
      BY DEF RowOf
    <3>4. notices' = notices \cup {<<held[t], t>>} /\ granted' = granted
      BY <3>7, <3>8
    <3> HIDE DEF granted, notices
    <3>5. Ledger!Notify(held[t], t)
      BY <3>2, <3>4, <3>6 DEF Ledger!Notify, Ledger!IsGranted, granted, notices
    <3> QED BY <3>1, <3>5 DEF Ledger!Next
  <2>3. CASE UNCHANGED <<fulfillments, contacts>>
    BY <2>3 DEF Ledger!vars
  <2>4. ASSUME NEW t \in Turns, Submit(t) \/ Respond(t) \/ Fail(t)
        PROVE  Insert(t) \/ RecordContact(t) \/ UNCHANGED <<fulfillments, contacts>>
    BY <2>4 DEF Submit, Respond, Fail, Perceive, Gate, Clarify, Handoff, Choose,
                Negotiate, Open, NothingFits, Accept, Present, Concede,
                Exhausted, Advance, Word, Confirm, Lookup, Accepted, Reply, tables
  <2> QED
    BY <2>1, <2>2, <2>3, <2>4 DEF Next, Finish, Leave, vars, tables
<1> QED BY <1>1, <1>2, NegotiationInductive, PTL DEF Spec, ImplementsLedger, Ledger!Spec
-----------------------------------------------------------------------------
(* The second inductive invariant: the ladder of an orderly session, and   *)
(* what a runner session has fulfilled by now.                             *)

Sorted == \A i, j \in DOMAIN rungs : i < j => Cost[rungs[i]] <= Cost[rungs[j]]

\* Only the turn in flight moves along the ladder, so the rung it holds in
\* "advance" is still the next one.
LadderInv ==
    /\ Sorted
    /\ orderly =>
          /\ position <= Len(rungs)
          /\ current = IF position = 0 THEN None ELSE rungs[position]
          /\ conceded = SubSeq(rungs, 2, position)
          /\ \A t \in Turns :
                /\ pc[t] = "open" => position = 0
                /\ pc[t] = "advance" =>
                      /\ position # 0 /\ position < Len(rungs)
                      /\ held[t] = rungs[position + 1]

NoneFailed == \A t \in Turns : pc[t] # "failed"

\* A row belongs to the turn that is about to answer ACCEPTED, or the session
\* has been accepted with the offer of its rows.
RunnerInv ==
    /\ result # None => driver = "runner" /\ InFlight = {} /\ NoneFailed
    /\ driver = "runner" =>
          /\ orderly
          /\ InFlight # {} => status = "ACTIVE"
          /\ \A t \in Turns : pc[t] \in {"contact", "accepted"} => Fulfilled(held[t])
          /\ NoneFailed /\ status = "ACCEPTED" =>
                final # None /\ {f.arm : f \in fulfillments} = {final}
          /\ NoneFailed /\ status # "ACCEPTED" =>
                /\ final = None
                /\ \A f \in fulfillments :
                      pc[f.by] \in {"contact", "accepted"} /\ f.arm = held[f.by]

SessionInv == NegotiationInv /\ LadderInv /\ RunnerInv /\ RunnerOutcome

-----------------------------------------------------------------------------
(* The rungs in order *)

LEMMA LadderSorted ==
    ASSUME NEW tags, NEW s \in Ladders(tags)
    PROVE  \A i, j \in DOMAIN s : i < j => Cost[s[i]] <= Cost[s[j]]
<1> SUFFICES ASSUME NEW i \in DOMAIN s, NEW j \in DOMAIN s, i < j
             PROVE  Cost[s[i]] <= Cost[s[j]]
  OBVIOUS
<1>1. Before(s[i], s[j])
  BY DEF Ladders
<1>2. s[i] \in Arms /\ s[j] \in Arms
  BY DEF Ladders, Fitting
<1>3. Cost[s[i]] \in Nat /\ Cost[s[j]] \in Nat
  BY <1>2, NegotiationAssumption
<1> QED BY ONLY <1>1, <1>3 DEF Before

\* Conceding lengthens what has been conceded by the next rung.
LEMMA OneMore ==
    ASSUME NEW S, NEW s \in Seq(S), NEW p \in Nat, p # 0, p < Len(s)
    PROVE  Append(SubSeq(s, 2, p), s[p + 1]) = SubSeq(s, 2, p + 1)
<1> DEFINE n == p + 1
<1>1. 2 \in 1..Len(s) /\ n \in 2..Len(s) /\ n - 1 = p
  OBVIOUS
<1> HIDE DEF n
<1>2. SubSeq(s, 2, n) = SubSeq(s, 2, n - 1) \o <<s[n]>>
  BY <1>1, SubSeqRecursiveSecond
<1>3. SubSeq(s, 2, p) \in Seq(S) /\ s[n] \in S
  BY <1>1, SubSeqProperties, ElementOfSeq
<1>4. SubSeq(s, 2, p) \o <<s[n]>> = Append(SubSeq(s, 2, p), s[n])
  BY <1>3, AppendIsConcat
<1>5. SubSeq(s, 2, n) = Append(SubSeq(s, 2, p), s[n])
  BY <1>1, <1>2, <1>4
<1> QED BY <1>5 DEF n

LEMMA LadderKept ==
    ASSUME LadderInv, orderly' => orderly, UNCHANGED ladder,
           \A t \in Turns :
              /\ pc'[t] = "open" => pc[t] = "open"
              /\ pc'[t] = "advance" => pc[t] = "advance" /\ held'[t] = held[t]
    PROVE  LadderInv'
BY DEF LadderInv, Sorted, ladder

LEMMA LadderNext ==
    NegotiationInv /\ LadderInv /\ [Next]_vars => LadderInv'
<1> SUFFICES ASSUME NegotiationInv, LadderInv, [Next]_vars PROVE LadderInv'
  OBVIOUS
<1>0. TypeOK
  BY DEF NegotiationInv
<1> USE <1>0 DEF At, Goto
<1>1. ASSUME NEW t \in Turns, Negotiate(t) PROVE LadderInv'
  <2>1. /\ UNCHANGED <<ladder, held, orderly>>
        /\ pc' = [pc EXCEPT ![t] = IF current = None THEN "open" ELSE "haggle"]
    BY <1>1 DEF Negotiate, turn, history
  <2>2. ASSUME orderly, current = None PROVE position = 0
    <3>1. SUFFICES ASSUME position # 0 PROVE FALSE
      OBVIOUS
    <3>2. current = rungs[position] /\ position \in DOMAIN rungs
      BY <2>2, <3>1 DEF LadderInv, TypeOK
    <3>3. rungs[position] \in Arms
      BY <3>2 DEF TypeOK
    <3> QED BY <2>2, <3>2, <3>3, NegotiationAssumption
  <2>3. \A u \in Turns :
            /\ pc'[u] = "open" => pc[u] = "open" \/ current = None
            /\ pc'[u] = "advance" => pc[u] = "advance"
    BY <2>1 DEF TypeOK
  <2> QED BY <2>1, <2>2, <2>3 DEF LadderInv, Sorted, ladder
<1>2. ASSUME NEW t \in Turns, Open(t) PROVE LadderInv'
  <2>1. /\ pc[t] = "open" /\ rungs # <<>>
        /\ position' = 1 /\ current' = rungs[1]
        /\ pc' = [pc EXCEPT ![t] = "opened"]
        /\ UNCHANGED <<rungs, conceded, held, orderly>>
    BY <1>2 DEF Open, turn, history
  <2>2. Len(rungs) \in Nat /\ Len(rungs) # 0
    BY <2>1 DEF TypeOK
  <2>3. SUFFICES ASSUME orderly
                 PROVE  /\ conceded = SubSeq(rungs, 2, 1)
                        /\ \A u \in Turns : pc'[u] \notin {"open", "advance"}
    BY <2>1, <2>2 DEF LadderInv, Sorted
  <2>4. conceded = SubSeq(rungs, 2, 0)
    BY <2>1, <2>3 DEF LadderInv
  <2>5. conceded = SubSeq(rungs, 2, 1)
    BY <2>4, SubSeqEmpty DEF TypeOK
  <2>6. \A u \in Turns : pc[u] \in {"open", "advance"} => u = t
    BY <2>1, <2>3 DEF NegotiationInv, AskedInv, InFlight, Started, Ended
  <2> QED BY <2>1, <2>5, <2>6 DEF TypeOK
<1>3. ASSUME NEW t \in Turns, Concede(t) PROVE LadderInv'
  <2>1. /\ pc[t] = "haggle" /\ position < Len(rungs)
        /\ held' = [held EXCEPT ![t] = rungs[position + 1]]
        /\ pc' = [pc EXCEPT ![t] = "advance"]
        /\ UNCHANGED <<ladder, orderly>>
    BY <1>3 DEF Concede, CanConcede, history
  <2>2. orderly => position # 0
    BY <2>1 DEF LadderInv, NegotiationInv, OfferInv
  <2>3. \A u \in Turns :
            IF u = t THEN /\ pc'[u] = "advance"
                          /\ held'[u] = rungs[position + 1]
                     ELSE pc'[u] = pc[u] /\ held'[u] = held[u]
    BY <2>1 DEF TypeOK
  <2> QED BY <2>1, <2>2, <2>3 DEF LadderInv, Sorted, ladder
<1>4. ASSUME NEW t \in Turns, Advance(t) PROVE LadderInv'
  <2>1. /\ pc[t] = "advance" /\ position' = position + 1
        /\ current' = held[t] /\ conceded' = Append(conceded, held[t])
        /\ pc' = [pc EXCEPT ![t] = "word"]
        /\ UNCHANGED <<rungs, held, orderly>>
    BY <1>4 DEF Advance, turn, history
  <2>2. CASE ~orderly
    BY <2>1, <2>2 DEF LadderInv, Sorted
  <2>3. CASE orderly
    <3>1. /\ position \in Nat /\ position # 0 /\ position < Len(rungs)
          /\ rungs \in Seq(Arms) /\ held[t] = rungs[position + 1]
          /\ conceded = SubSeq(rungs, 2, position)
      BY <2>1, <2>3 DEF LadderInv, TypeOK
    <3>2. conceded' = SubSeq(rungs, 2, position + 1)
      BY <2>1, <3>1, OneMore
    <3>3. position + 1 # 0 /\ position + 1 <= Len(rungs)
      BY ONLY <3>1
    <3>4. \A u \in Turns : pc[u] \in {"open", "advance"} => u = t
      BY <2>1, <2>3 DEF NegotiationInv, AskedInv, InFlight, Started, Ended
    <3>5. \A u \in Turns : pc'[u] \notin {"open", "advance"}
      BY <2>1, <3>4 DEF TypeOK
    <3> QED BY <2>1, <3>1, <3>2, <3>3, <3>5 DEF LadderInv, Sorted
  <2> QED BY <2>2, <2>3
<1>5. ASSUME NEW t \in Turns, Gate(t) PROVE LadderInv'
  <2>1. /\ UNCHANGED <<ladder, orderly>>
        /\ \E loc \in {"lookup", "choose"} : pc' = [pc EXCEPT ![t] = loc]
        /\ \A u \in Turns : u # t => held'[u] = held[u]
    BY <1>5 DEF Gate, history, TypeOK
  <2> QED BY <2>1, LadderKept DEF TypeOK
<1>6. ASSUME NEW t \in Turns,
             \/ Submit(t) \/ Perceive(t) \/ Choose(t) \/ Accept(t)
             \/ Present(t) \/ Lookup(t) \/ Insert(t) \/ RecordContact(t)
             \/ Fail(t)
      PROVE  LadderInv'
  <2>1. UNCHANGED <<ladder, held>> /\ (orderly' => orderly)
    <3>1. CASE Submit(t)
      BY <3>1 DEF Submit
    <3>2. CASE ~Submit(t)
      BY <1>6, <3>2
      DEF Perceive, Choose, Accept, Present, Lookup, Insert, RecordContact,
          Fail, turn, history
    <3> QED BY <3>1, <3>2
  <2>2. \E loc \in Locations \ {"open", "advance"} : pc' = [pc EXCEPT ![t] = loc]
    <3>1. CASE Choose(t)
      BY <3>1 DEF Choose, Locations
    <3>2. CASE Insert(t)
      BY <3>2 DEF Insert, Locations
    <3>3. CASE Submit(t) \/ Perceive(t) \/ Accept(t) \/ Present(t)
      BY <3>3 DEF Submit, Perceive, Accept, Present, Locations
    <3>4. CASE Lookup(t) \/ RecordContact(t) \/ Fail(t)
      BY <3>4 DEF Lookup, RecordContact, Fail, Locations
    <3> QED BY <1>6, <3>1, <3>2, <3>3, <3>4
  <2> QED BY <2>1, <2>2, LadderKept DEF TypeOK
<1>7. ASSUME NEW t \in Turns,
             \/ Clarify(t) \/ Handoff(t) \/ NothingFits(t) \/ Exhausted(t)
             \/ Word(t) \/ Confirm(t) \/ Accepted(t)
      PROVE  LadderInv'
  <2>1. /\ UNCHANGED <<ladder, held>> /\ (orderly' => orderly)
        /\ pc' = [pc EXCEPT ![t] = "done"]
    BY <1>7 DEF Clarify, Handoff, NothingFits, Exhausted, Word, Confirm,
                Accepted, Reply, turn
  <2> QED BY <2>1, LadderKept DEF TypeOK
<1>8. CASE Finish \/ Leave \/ UNCHANGED vars
  <2>1. UNCHANGED <<ladder, held, orderly, pc>>
    BY <1>8 DEF Finish, Leave, vars, turn, history
  <2> QED BY <2>1, LadderKept
<1> QED
  BY <1>1, <1>2, <1>3, <1>4, <1>5, <1>6, <1>7, <1>8 DEF Next, Respond

-----------------------------------------------------------------------------
(* What the runner returns *)

\* The rows of a runner's turn that has not got to Act yet: none.
LEMMA NoRowsBefore ==
    ASSUME TypeOK, AskedInv, RunnerInv, driver = "runner", NoneFailed,
           NEW t \in InFlight, pc[t] \notin {"contact", "accepted"}
    PROVE  fulfillments = {} /\ status = "ACTIVE" /\ final = None
<1>1. status = "ACTIVE" /\ final = None
  BY DEF RunnerInv
<1>2. SUFFICES ASSUME NEW f \in fulfillments PROVE FALSE
  BY <1>1
<1>3. pc[f.by] \in {"contact", "accepted"}
  BY <1>1 DEF RunnerInv
<1>4. f.by \in Turns
  BY DEF TypeOK
<1>5. f.by \in InFlight
  BY <1>3, <1>4 DEF InFlight, Started, Ended
<1>6. f.by = t
  BY <1>5 DEF RunnerInv, AskedInv
<1> QED BY <1>3, <1>6

\* A step within a turn, outside Act.
LEMMA RunnerMoves ==
    ASSUME TypeOK, RunnerInv, NEW t \in Turns, NEW loc,
           pc[t] \in Locations \ {"idle", "done", "failed", "contact", "accepted"},
           loc \in Locations \ {"idle", "done", "failed", "contact", "accepted"},
           pc' = [pc EXCEPT ![t] = loc],
           \A u \in Turns : u # t => held'[u] = held[u],
           UNCHANGED <<driver, status, fulfillments, runner, orderly>>
    PROVE  RunnerInv'
<1>1. InFlight' = InFlight /\ t \in InFlight
  BY DEF TypeOK, InFlight, Started, Ended
<1>2. NoneFailed' = NoneFailed
  BY DEF TypeOK, NoneFailed
<1>3. \A u \in Turns : pc'[u] \in {"contact", "accepted"} =>
          pc'[u] = pc[u] /\ held'[u] = held[u]
  BY DEF TypeOK
<1>4. \A u \in Turns : pc[u] \in {"contact", "accepted"} =>
          pc'[u] = pc[u] /\ held'[u] = held[u]
  BY DEF TypeOK
<1>5. \A f \in fulfillments : f.by \in Turns
  BY DEF TypeOK
<1> QED BY <1>1, <1>2, <1>3, <1>4, <1>5 DEF RunnerInv, Fulfilled, runner

\* An answer of a turn that fulfilled nothing.
LEMMA RunnerReplies ==
    ASSUME TypeOK, AskedInv, RunnerInv, NEW t \in InFlight, NEW s, NEW offer,
           NEW shown, Reply(t, s, offer, shown),
           driver = "runner" => s # "ACCEPTED",
           pc[t] \notin {"contact", "accepted"}
    PROVE  RunnerInv'
<1>1. /\ status' = s /\ pc' = [pc EXCEPT ![t] = "done"] /\ t \in Turns
      /\ UNCHANGED <<driver, result, fulfillments, held>>
  BY DEF Reply, Goto, turn, tables, InFlight, Started
<1>2. result = None
  BY DEF RunnerInv
<1>3. CASE driver = "page"
  BY <1>1, <1>2, <1>3 DEF RunnerInv
<1>4. CASE driver = "runner"
  <2>1. orderly' /\ orderly /\ final' = final
    BY <1>4 DEF Reply, RunnerInv
  <2>2. InFlight' = {}
    BY <1>1, <2>1 DEF AskedInv, InFlight, Started, Ended, TypeOK
  <2>3. NoneFailed' => NoneFailed
    BY <1>1 DEF NoneFailed, TypeOK, InFlight, Ended
  <2>4. NoneFailed => fulfillments = {} /\ final = None
    BY <1>4, NoRowsBefore
  <2>5. \A u \in Turns : pc'[u] \notin {"contact", "accepted"}
    BY <2>2 DEF InFlight, Started, Ended
  <2> QED BY <1>1, <1>2, <1>4, <2>1, <2>2, <2>3, <2>4, <2>5 DEF RunnerInv
<1> QED BY <1>3, <1>4 DEF TypeOK, AllDrivers

LEMMA RunnerNext ==
    NegotiationInv /\ RunnerInv /\ [Next]_vars => RunnerInv'
<1> SUFFICES ASSUME NegotiationInv, RunnerInv, [Next]_vars PROVE RunnerInv'
  OBVIOUS
<1>0. TypeOK /\ AskedInv
  BY DEF NegotiationInv
<1> USE <1>0 DEF At, Goto
<1>1. ASSUME NEW t \in Turns, Submit(t) PROVE RunnerInv'
  <2>1. /\ pc[t] = "idle" /\ pc' = [pc EXCEPT ![t] = "perceive"]
        /\ UNCHANGED <<driver, status, fulfillments, held, runner>>
    BY <1>1 DEF Submit, dialogue, tables
  <2>2. CASE driver = "runner"
    <3>1. RunnerGoesOn /\ orderly' = (orderly /\ InFlight = {})
      BY <1>1, <2>2 DEF Submit
    <3>2. /\ orderly /\ InFlight = {} /\ result = None /\ status = "ACTIVE"
          /\ NoneFailed
      BY <2>2, <3>1 DEF RunnerGoesOn, NoneFailed, RunnerInv
    <3>3. \A u \in Turns : pc[u] \notin {"contact", "accepted"}
      BY <3>2 DEF InFlight, Started, Ended
    <3>4. \A u \in Turns : pc'[u] \notin {"contact", "accepted"}
      BY <2>1, <3>3 DEF TypeOK
    <3>5. fulfillments = {} /\ final = None
      BY <2>2, <3>2, <3>3 DEF RunnerInv, TypeOK
    <3> QED BY <2>1, <2>2, <3>1, <3>2, <3>4, <3>5 DEF RunnerInv, runner
  <2>3. CASE driver = "page"
    BY <2>1, <2>3 DEF RunnerInv, runner
  <2> QED BY <2>2, <2>3 DEF TypeOK, AllDrivers
<1>2. ASSUME NEW t \in Turns,
             \/ Perceive(t) \/ Gate(t) \/ Choose(t) \/ Negotiate(t) \/ Open(t)
             \/ Accept(t) \/ Present(t) \/ Concede(t) \/ Advance(t) \/ Lookup(t)
      PROVE  RunnerInv'
  <2>1. UNCHANGED <<driver, status, fulfillments, runner, orderly>>
    BY <1>2 DEF Perceive, Gate, Choose, Negotiate, Open, Accept, Present,
                Concede, Advance, Lookup, dialogue, tables, history
  <2>2. \A u \in Turns : u # t => held'[u] = held[u]
    <3>1. CASE Gate(t) \/ Concede(t)
      BY <3>1 DEF Gate, Concede, TypeOK
    <3>2. CASE ~(Gate(t) \/ Concede(t))
      BY <1>2, <3>2 DEF Perceive, Choose, Negotiate, Open, Accept, Present,
                        Advance, Lookup, turn
    <3> QED BY <3>1, <3>2
  <2>3. pc[t] \in Locations \ {"idle", "done", "failed", "contact", "accepted"}
    BY <1>2 DEF Perceive, Gate, Choose, Negotiate, Open, Accept, Present,
                Concede, Advance, Lookup, Locations
  <2>4. \E loc \in Locations \ {"idle", "done", "failed", "contact", "accepted"} :
            pc' = [pc EXCEPT ![t] = loc]
    <3>1. CASE Choose(t)
      BY <3>1 DEF Choose, Locations
    <3>2. CASE Negotiate(t)
      BY <3>2 DEF Negotiate, Locations
    <3>3. CASE Gate(t)
      BY <3>3 DEF Gate, Locations
    <3>4. CASE Perceive(t) \/ Open(t) \/ Accept(t) \/ Present(t)
      BY <3>4 DEF Perceive, Open, Accept, Present, Locations
    <3>5. CASE Concede(t) \/ Advance(t) \/ Lookup(t)
      BY <3>5 DEF Concede, Advance, Lookup, Locations
    <3> QED BY <1>2, <3>1, <3>2, <3>3, <3>4, <3>5
  <2> QED BY <2>1, <2>2, <2>3, <2>4, RunnerMoves
<1>3. ASSUME NEW t \in Turns,
             \/ Clarify(t) \/ Handoff(t) \/ NothingFits(t) \/ Exhausted(t)
             \/ Word(t) \/ Confirm(t)
      PROVE  RunnerInv'
  <2>1. t \in InFlight /\ pc[t] \notin {"contact", "accepted"}
    BY <1>3 DEF Clarify, Handoff, NothingFits, Exhausted, Word, Confirm,
                InFlight, Started, Ended
  <2>2. driver = "runner" => status = "ACTIVE"
    BY <2>1 DEF RunnerInv
  <2>3. \E s \in {status, "HANDOFF", "ESCALATED"}, offer, shown \in {current, None} :
            Reply(t, s, offer, shown)
    BY <1>3 DEF Clarify, Handoff, NothingFits, Exhausted, Word, Confirm
  <2>4. PICK s \in {status, "HANDOFF", "ESCALATED"}, offer \in {current, None},
             shown \in {current, None} : Reply(t, s, offer, shown)
    BY <2>3
  <2>5. driver = "runner" => s # "ACCEPTED"
    BY <2>2, <2>4
  <2> QED BY <2>1, <2>4, <2>5, RunnerReplies
<1>4. ASSUME NEW t \in Turns, Insert(t) PROVE RunnerInv'
  <2>1. /\ pc[t] = "insert" /\ fulfillments' = AfterInsert(t)
        /\ \E loc \in {"contact", "accepted"} : pc' = [pc EXCEPT ![t] = loc]
        /\ UNCHANGED <<driver, status, held, runner, orderly>>
    BY <1>4 DEF Insert, dialogue, turn, history
  <2>2. t \in InFlight /\ InFlight' = InFlight
    BY <2>1 DEF InFlight, Started, Ended, TypeOK
  <2>3. CASE driver = "page"
    BY <2>1, <2>2, <2>3 DEF RunnerInv, runner
  <2>4. CASE driver = "runner"
    <3>1. NoneFailed' = NoneFailed
      BY <2>1 DEF NoneFailed, TypeOK
    <3>2. NoneFailed => fulfillments = {} /\ status = "ACTIVE" /\ final = None
      BY <2>1, <2>2, <2>4, NoRowsBefore
    <3>3. RowOf(t).arm = held[t] /\ RowOf(t).by = t
      BY DEF RowOf
    <3>4. NoneFailed => fulfillments' = {RowOf(t)}
      BY <2>1, <3>2 DEF AfterInsert, Fulfilled
    <3>5. \E f \in fulfillments' : f.arm = held[t]
      BY <2>1, <3>3 DEF AfterInsert, Fulfilled
    <3>6. \A f \in fulfillments : f \in fulfillments'
      BY <2>1 DEF AfterInsert
    <3>7. \A u \in Turns : pc'[u] \in {"contact", "accepted"} =>
              \E f \in fulfillments' : f.arm = held[u]
      BY <2>1, <2>4, <3>5, <3>6 DEF RunnerInv, Fulfilled, TypeOK
    <3>8. pc'[t] \in {"contact", "accepted"}
      BY <2>1 DEF TypeOK
    <3>9. NoneFailed => \A f \in fulfillments' :
              pc'[f.by] \in {"contact", "accepted"} /\ f.arm = held[f.by]
      BY <3>3, <3>4, <3>8
    <3> QED
      BY <2>1, <2>2, <2>4, <3>1, <3>2, <3>7, <3>9
      DEF RunnerInv, Fulfilled, runner
  <2> QED BY <2>3, <2>4 DEF TypeOK, AllDrivers
<1>5. ASSUME NEW t \in Turns, RecordContact(t) PROVE RunnerInv'
  <2>1. /\ pc[t] = "contact" /\ pc' = [pc EXCEPT ![t] = "accepted"]
        /\ UNCHANGED <<driver, status, fulfillments, held, runner, orderly>>
    BY <1>5 DEF RecordContact, dialogue, turn, history
  <2>2. t \in InFlight /\ InFlight' = InFlight
    BY <2>1 DEF InFlight, Started, Ended, TypeOK
  <2>3. NoneFailed' = NoneFailed
    BY <2>1 DEF NoneFailed, TypeOK
  <2>4. \A u \in Turns : (pc'[u] \in {"contact", "accepted"})
                            <=> (pc[u] \in {"contact", "accepted"})
    BY <2>1 DEF TypeOK
  <2>5. \A f \in fulfillments : f.by \in Turns
    BY DEF TypeOK
  <2> QED
    BY <2>1, <2>2, <2>3, <2>4, <2>5 DEF RunnerInv, Fulfilled, runner
<1>6. ASSUME NEW t \in Turns, Accepted(t) PROVE RunnerInv'
  <2>1. /\ pc[t] = "accepted" /\ pc' = [pc EXCEPT ![t] = "done"]
        /\ Reply(t, "ACCEPTED", held[t], held[t])
        /\ UNCHANGED <<driver, fulfillments, held, result>>
    BY <1>6 DEF Accepted, Reply, turn, tables
  <2>2. t \in InFlight
    BY <2>1 DEF InFlight, Started, Ended
  <2>3. result = None
    BY <2>2 DEF RunnerInv
  <2>4. CASE driver = "page"
    BY <2>1, <2>3, <2>4 DEF RunnerInv
  <2>5. CASE driver = "runner"
    <3>1. held[t] # None
      BY <2>1 DEF NegotiationInv, OfferInv, Fulfilling
    <3>2. orderly /\ orderly' /\ status' = "ACCEPTED" /\ final' = held[t]
      BY <2>1, <2>5, <3>1 DEF Reply, RunnerInv
    <3>3. InFlight' = {}
      BY <2>1, <2>2, <3>2 DEF AskedInv, InFlight, Started, Ended, TypeOK
    <3>4. NoneFailed' => NoneFailed
      BY <2>1 DEF NoneFailed, TypeOK
    <3>5. PICK g \in fulfillments : g.arm = held[t]
      BY <2>1, <2>5 DEF RunnerInv, Fulfilled
    <3>6. NoneFailed => \A f \in fulfillments : f.arm = held[t]
      <4>1. SUFFICES ASSUME NoneFailed, NEW f \in fulfillments PROVE f.arm = held[t]
        OBVIOUS
      <4>2. status = "ACTIVE"
        BY <2>2, <2>5 DEF RunnerInv
      <4>3. pc[f.by] \in {"contact", "accepted"} /\ f.arm = held[f.by]
        BY <2>5, <4>1, <4>2 DEF RunnerInv
      <4>4. f.by \in Turns
        BY DEF TypeOK
      <4>5. f.by \in InFlight
        BY <4>3, <4>4 DEF InFlight, Started, Ended
      <4>6. f.by = t
        BY <2>2, <3>2, <4>5 DEF AskedInv
      <4> QED BY <4>3, <4>6
    <3>7. NoneFailed => {f.arm : f \in fulfillments} = {held[t]}
      BY <3>5, <3>6
    <3>8. \A u \in Turns : pc'[u] \notin {"contact", "accepted"}
      BY <3>3 DEF InFlight, Started, Ended
    <3> QED
      BY <2>1, <2>3, <2>5, <3>1, <3>2, <3>3, <3>4, <3>7, <3>8 DEF RunnerInv
  <2> QED BY <2>4, <2>5 DEF TypeOK, AllDrivers
<1>7. ASSUME NEW t \in Turns, Fail(t) PROVE RunnerInv'
  <2>1. /\ pc[t] \in {"perceive", "lookup", "insert", "contact"}
        /\ pc' = [pc EXCEPT ![t] = "failed"]
        /\ UNCHANGED <<driver, status, fulfillments, held, runner, orderly>>
    BY <1>7 DEF Fail, dialogue, turn, tables, history
  <2>2. t \in InFlight
    BY <2>1 DEF InFlight, Started, Ended
  <2>3. ~NoneFailed' /\ InFlight' \subseteq InFlight
    BY <2>1 DEF NoneFailed, InFlight, Started, Ended, TypeOK
  <2>4. result' = None
    BY <2>1, <2>2 DEF RunnerInv, runner
  <2>5. \A u \in Turns : pc'[u] \in {"contact", "accepted"} => pc'[u] = pc[u]
    BY <2>1 DEF TypeOK
  <2> QED BY <2>1, <2>2, <2>3, <2>4, <2>5 DEF RunnerInv, Fulfilled
<1>8. CASE Finish \/ Leave
  <2>1. /\ driver = "runner" /\ InFlight = {} /\ NoneFailed
        /\ UNCHANGED <<driver, pc, status, held, fulfillments, final, orderly>>
    BY <1>8 DEF Finish, Leave, RunnerGoesOn, NoneFailed, dialogue, turn,
                tables, history
  <2> QED
    BY <2>1 DEF RunnerInv, InFlight, Started, NoneFailed, Fulfilled
<1>9. CASE UNCHANGED vars
  BY <1>9 DEF RunnerInv, InFlight, Started, NoneFailed, Fulfilled, vars, turn,
              dialogue, tables, runner, history
<1> QED
  BY <1>1, <1>2, <1>3, <1>4, <1>5, <1>6, <1>7, <1>8, <1>9 DEF Next, Respond

\* Only Finish and Leave return, and no turn goes on after they have.
LEMMA OutcomeNext ==
    NegotiationInv /\ RunnerInv /\ RunnerOutcome /\ [Next]_vars => RunnerOutcome'
<1> SUFFICES ASSUME NegotiationInv, RunnerInv, RunnerOutcome, [Next]_vars,
                    result' # None
             PROVE  RunnerOutcome'
  BY DEF RunnerOutcome
<1>1. ASSUME NEW t \in Turns, Submit(t) \/ Respond(t) \/ Fail(t) PROVE FALSE
  <2>1. result' = result
    BY <1>1 DEF Submit, Respond, Fail, Perceive, Gate, Clarify, Handoff, Choose,
                Negotiate, Open, NothingFits, Accept, Present, Concede,
                Exhausted, Advance, Word, Confirm, Lookup, Insert,
                RecordContact, Accepted, Reply, runner
  <2>2. driver = "runner" /\ InFlight = {}
    BY <2>1 DEF RunnerInv
  <2>3. CASE Submit(t)
    BY <2>1, <2>2, <2>3 DEF Submit, RunnerGoesOn
  <2>4. CASE Respond(t) \/ Fail(t)
    <3>1. pc[t] \notin {"idle", "done", "failed"}
      BY <2>4 DEF Respond, Fail, At, Perceive, Gate, Clarify, Handoff, Choose,
                  Negotiate, Open, NothingFits, Accept, Present, Concede,
                  Exhausted, Advance, Word, Confirm, Lookup, Insert,
                  RecordContact, Accepted
    <3> QED BY <2>2, <3>1 DEF InFlight, Started, Ended
  <2> QED BY <1>1, <2>3, <2>4
<1>2. CASE Leave
  <2>1. /\ driver = "runner" /\ NoneFailed /\ status = "ACTIVE" /\ InFlight = {}
        /\ result' = [status |-> "HANDOFF", offer |-> None]
        /\ UNCHANGED fulfillments
    BY <1>2 DEF Leave, RunnerGoesOn, NoneFailed, tables
  <2>2. fulfillments = {}
    BY <2>1 DEF RunnerInv, InFlight, Started, Ended, NegotiationInv, TypeOK
  <2> QED BY <2>1, <2>2 DEF RunnerOutcome
<1>3. CASE Finish
  <2> DEFINE s == IF status = "ACTIVE" THEN "HANDOFF" ELSE status
             o == IF s = "ACCEPTED" THEN final ELSE None
  <2>1. /\ driver = "runner" /\ NoneFailed /\ InFlight = {}
        /\ result' = [status |-> s, offer |-> o]
        /\ UNCHANGED fulfillments
    BY <1>3 DEF Finish, NoneFailed, tables
  <2>2. result'.status = s /\ result'.offer = o
    BY <2>1
  <2>3. CASE status = "ACCEPTED"
    <3>1. final # None /\ {f.arm : f \in fulfillments} = {final}
      BY <2>1, <2>3 DEF RunnerInv
    <3>2. s = "ACCEPTED" /\ o = final
      BY <2>3
    <3> QED BY <2>1, <2>2, <3>1, <3>2 DEF RunnerOutcome
  <2>4. CASE status # "ACCEPTED"
    <3>1. fulfillments = {}
      BY <2>1, <2>4 DEF RunnerInv, InFlight, Started, Ended, NegotiationInv, TypeOK
    <3>2. s # "ACCEPTED" /\ o = None
      BY <2>4
    <3> QED BY <2>1, <2>2, <3>1, <3>2 DEF RunnerOutcome
  <2> QED BY <2>3, <2>4
<1>4. CASE UNCHANGED vars
  BY <1>4 DEF RunnerOutcome, vars, tables, runner
<1> QED BY <1>1, <1>2, <1>3, <1>4 DEF Next

-----------------------------------------------------------------------------

LEMMA SessionInit == Init => LadderInv /\ RunnerInv /\ RunnerOutcome
<1> SUFFICES ASSUME Init PROVE LadderInv /\ RunnerInv /\ RunnerOutcome
  OBVIOUS
<1>1. Sorted
  BY LadderSorted DEF Init, Sorted
<1>2. rungs \in Seq(Arms)
  BY TypeInit DEF TypeOK
<1>3. SubSeq(rungs, 2, 0) = <<>>
  BY <1>2, SubSeqEmpty
<1>4. LadderInv
  BY <1>1, <1>2, <1>3 DEF Init, LadderInv
<1>5. RunnerInv /\ RunnerOutcome
  BY DEF Init, RunnerInv, RunnerOutcome, InFlight, Started
<1> QED BY <1>4, <1>5

THEOREM SessionInductive == Spec => []SessionInv
<1>1. Init => LadderInv /\ RunnerInv /\ RunnerOutcome
  BY SessionInit
<1>2. NegotiationInv /\ LadderInv /\ RunnerInv /\ RunnerOutcome /\ [Next]_vars
          => LadderInv' /\ RunnerInv' /\ RunnerOutcome'
  BY LadderNext, RunnerNext, OutcomeNext
<1> QED BY <1>1, <1>2, NegotiationInductive, PTL DEF Spec, SessionInv

\* The types of a session, however its turns overlap or raise.
THEOREM NegotiationTypeCorrect == Spec => []TypeOK
<1>1. NegotiationInv => TypeOK
  BY DEF NegotiationInv
<1> QED BY <1>1, NegotiationInductive, PTL

\* ladder.open and concede: for every ladder and cap, the offer on the table
\* between the turns of an orderly session is the ladder's rung, reached by
\* conceding one rung after the other, none cheaper than the one before.
THEOREM OnTheTableAlways == Spec => []OnTheTable
<1>1. SessionInv => OnTheTable
  <2> SUFFICES ASSUME SessionInv, orderly PROVE OnTheTable
    BY DEF OnTheTable
  <2>1. /\ Sorted /\ position <= Len(rungs)
        /\ current = IF position = 0 THEN None ELSE rungs[position]
        /\ conceded = SubSeq(rungs, 2, position)
    BY DEF SessionInv, LadderInv
  <2>2. position \in Nat /\ rungs \in Seq(Arms)
    BY DEF SessionInv, NegotiationInv, TypeOK
  <2>3. \A i \in 1..(position - 1) : Cost[rungs[i]] <= Cost[rungs[i + 1]]
    <3>1. SUFFICES ASSUME NEW i \in 1..(position - 1)
                   PROVE  Cost[rungs[i]] <= Cost[rungs[i + 1]]
      OBVIOUS
    <3>2. i \in DOMAIN rungs /\ i + 1 \in DOMAIN rungs /\ i < i + 1
      BY <2>1, <2>2, <3>1
    <3> QED BY <2>1, <3>2 DEF Sorted
  <2> QED BY <2>1, <2>3 DEF OnTheTable
<1> QED BY <1>1, SessionInductive, PTL

\* run_negotiation returns ACCEPTED with the one offer that was fulfilled, or
\* no offer and nothing fulfilled, for every ladder and every turn limit.
THEOREM RunnerOutcomeAlways == Spec => []RunnerOutcome
<1>1. SessionInv => RunnerOutcome
  BY DEF SessionInv
<1> QED BY <1>1, SessionInductive, PTL
=============================================================================
