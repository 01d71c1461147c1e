------------------------ MODULE BillingChargeProofs ------------------------
(* Proofs about BillingCharge, for any orders, callers and sweeps. *)
EXTENDS BillingCharge, TLAPS

\* A process that is about to book a payment has seen it at Toss, and one that
\* is about to confirm an order has booked it.
HoldsPayment ==
    \A p \in Procs :
        /\ at[p] \in {"captured", "holding"} => toss[ord[p]] \in Captured
        /\ at[p] = "booked" => ord[p] \in ledger

Owns(p, o) == ord[p] = o /\ at[p] \in Working

\* Whoever works on a fresh order is a caller, the only one, and the order
\* is pending as long as it does.
FreshOwned ==
    \A o \in Orders \ aged : \A p \in Procs :
        Owns(p, o) => /\ p \in Callers
                      /\ status[o] = "pending"
                      /\ \A q \in Procs : Owns(q, o) => q = p

IInv == TypeOK /\ HoldsPayment /\ ConfirmedInLedger /\ FreshOwned

Stage == [o \in Orders |-> StageOf(o)]

\* Every step keeps the types.
LEMMA TypeStep ==
    ASSUME TypeOK, [Next]_vars
    PROVE  TypeOK'
<1>1. ASSUME NEW c \in Callers, NEW o \in Orders, ClaimOrder(c, o) PROVE
   TypeOK'
    BY <1>1, NoOrderIsNone, MaxFaultsIsNat DEF ClaimOrder, Takes, Set, TypeOK,
     Procs, Statuses, Payments, Phases, Working, Results
<1>2. ASSUME NEW c \in Callers, NEW o \in Orders, LeaveOrder(c, o) PROVE
   TypeOK'
    BY <1>2, NoOrderIsNone, MaxFaultsIsNat DEF LeaveOrder, Takes, TypeOK,
     Procs, Statuses, Payments, Phases, Working, Results
<1>3. ASSUME NEW c \in Callers, ReadKey(c) PROVE TypeOK'
    BY <1>3, NoOrderIsNone, MaxFaultsIsNat DEF ReadKey, Goes, TypeOK, Procs,
     Statuses, Payments, Phases, Working, Results
<1>4. ASSUME NEW c \in Callers, TossAnswers(c) PROVE TypeOK'
    BY <1>4, NoOrderIsNone, MaxFaultsIsNat DEF TossAnswers, Goes, TypeOK,
     Procs, Statuses, Payments, Phases, Working, Results
<1>5. ASSUME NEW c \in Callers, LookupDuplicate(c) PROVE TypeOK'
    BY <1>5, NoOrderIsNone, MaxFaultsIsNat DEF LookupDuplicate, Goes, TypeOK,
     Procs, Statuses, Payments, Phases, Working, Results
<1>6. ASSUME NEW p \in Procs, RecordLedger(p) PROVE TypeOK'
    BY <1>6, NoOrderIsNone, MaxFaultsIsNat DEF RecordLedger, Goes, TypeOK,
     Procs, Statuses, Payments, Phases, Working, Results
<1>7. ASSUME NEW p \in Procs, ConfirmOrder(p) PROVE TypeOK'
    BY <1>7, NoOrderIsNone, MaxFaultsIsNat DEF ConfirmOrder, Set, Ends, Goes,
     Frees, Takes, TypeOK, Procs, Statuses, Payments, Phases, Working, Results
<1>8. ASSUME NEW p \in Procs, RecordFailure(p) PROVE TypeOK'
    BY <1>8, NoOrderIsNone, MaxFaultsIsNat DEF RecordFailure,
     SetUnlessConfirmed, Set, Ends, Goes, Frees, Takes, TypeOK, Procs,
     Statuses, Payments, Phases, Working, Results
<1>9. ASSUME NEW c \in Callers, TakeResult(c) PROVE TypeOK'
    BY <1>9, NoOrderIsNone, MaxFaultsIsNat DEF TakeResult, Frees, Takes,
     TypeOK, Procs, Statuses, Payments, Phases, Working, Results
<1>10. ASSUME NEW s \in Sweepers, NEW o \in Orders, SelectStale(s, o) PROVE
   TypeOK'
    BY <1>10, NoOrderIsNone, MaxFaultsIsNat DEF SelectStale, Takes, TypeOK,
     Procs, Statuses, Payments, Phases, Working, Results
<1>11. ASSUME NEW s \in Sweepers, NEW o \in Orders, SelectOverdue(s, o) PROVE
   TypeOK'
    BY <1>11, NoOrderIsNone, MaxFaultsIsNat DEF SelectOverdue, Takes, TypeOK,
     Procs, Statuses, Payments, Phases, Working, Results
<1>12. ASSUME NEW s \in Sweepers, LookupStale(s) PROVE TypeOK'
    BY <1>12, NoOrderIsNone, MaxFaultsIsNat DEF LookupStale, Goes, Frees,
     Takes, TypeOK, Procs, Statuses, Payments, Phases, Working, Results
<1>13. ASSUME NEW s \in Sweepers, CloseOrder(s) PROVE TypeOK'
    BY <1>13, NoOrderIsNone, MaxFaultsIsNat DEF CloseOrder,
     SetUnlessConfirmed, Set, Frees, Takes, TypeOK, Procs, Statuses, Payments,
     Phases, Working, Results
<1>14. ASSUME NEW c \in Callers, AnswerLost(c) PROVE TypeOK'
    BY <1>14, NoOrderIsNone, MaxFaultsIsNat DEF AnswerLost, Goes, TypeOK,
     Procs, Statuses, Payments, Phases, Working, Results
<1>15. ASSUME NEW c \in Callers, RaiseUnrecorded(c) PROVE TypeOK'
    BY <1>15, NoOrderIsNone, MaxFaultsIsNat DEF RaiseUnrecorded, Goes, TypeOK,
     Procs, Statuses, Payments, Phases, Working, Results
<1>16. ASSUME NEW s \in Sweepers, LookupFails(s) PROVE TypeOK'
    BY <1>16, NoOrderIsNone, MaxFaultsIsNat DEF LookupFails, Frees, Goes, Takes,
     TypeOK, Procs, Statuses, Payments, Phases, Working, Results
<1>17. ASSUME NEW p \in Procs, Die(p) PROVE TypeOK'
    BY <1>17, NoOrderIsNone, MaxFaultsIsNat DEF Die, Frees, Takes, TypeOK,
     Procs, Statuses, Payments, Phases, Working, Results
<1>18. ASSUME NEW o \in Orders, Age(o) PROVE TypeOK'
    BY <1>18, NoOrderIsNone, MaxFaultsIsNat DEF Age, TypeOK, Procs, Statuses,
     Payments, Phases, Working, Results
<1>19. ASSUME NEW o \in Orders, CancelAtToss(o) PROVE TypeOK'
    BY <1>19, NoOrderIsNone, MaxFaultsIsNat DEF CancelAtToss, TypeOK, Procs,
     Statuses, Payments, Phases, Working, Results
<1>20. ASSUME NEW b \in BOOLEAN, SetKey(b) PROVE TypeOK'
    BY <1>20, NoOrderIsNone, MaxFaultsIsNat DEF SetKey, TypeOK, Procs,
     Statuses, Payments, Phases, Working, Results
<1>21. CASE UNCHANGED vars
  BY <1>21, NoOrderIsNone, MaxFaultsIsNat DEF vars, TypeOK, Procs, Statuses,
     Payments, Phases, Working, Results
<1>22. QED
  BY <1>1, <1>2, <1>3, <1>4, <1>5, <1>6, <1>7, <1>8, <1>9, <1>10, <1>11,
     <1>12, <1>13, <1>14, <1>15, <1>16, <1>17, <1>18, <1>19, <1>20, <1>21 DEF
     Next, CallerStep, SweeperStep, Fault, Procs

\* What a process holds stays true: payments are never forgotten by Toss or
\* the ledger, and a process changes only its own phase.
LEMMA HoldsStep ==
    ASSUME TypeOK, HoldsPayment, [Next]_vars
    PROVE  HoldsPayment'
<1>1. ASSUME NEW c \in Callers, NEW o \in Orders, ClaimOrder(c, o) PROVE
   HoldsPayment'
    BY <1>1, NoOrderIsNone DEF ClaimOrder, Takes, Set, HoldsPayment, TypeOK,
     Captured, Procs, Statuses, Payments, Phases, Working, Results
<1>2. ASSUME NEW c \in Callers, NEW o \in Orders, LeaveOrder(c, o) PROVE
   HoldsPayment'
    BY <1>2, NoOrderIsNone DEF LeaveOrder, Takes, HoldsPayment, TypeOK,
     Captured, Procs, Statuses, Payments, Phases, Working, Results
<1>3. ASSUME NEW c \in Callers, ReadKey(c) PROVE HoldsPayment'
    BY <1>3, NoOrderIsNone DEF ReadKey, Goes, HoldsPayment, TypeOK, Captured,
     Procs, Statuses, Payments, Phases, Working, Results
<1>4. ASSUME NEW c \in Callers, TossAnswers(c) PROVE HoldsPayment'
    BY <1>4, NoOrderIsNone DEF TossAnswers, Goes, HoldsPayment, TypeOK,
     Captured, Procs, Statuses, Payments, Phases, Working, Results
<1>5. ASSUME NEW c \in Callers, LookupDuplicate(c) PROVE HoldsPayment'
    BY <1>5, NoOrderIsNone DEF LookupDuplicate, Goes, HoldsPayment, TypeOK,
     Captured, Procs, Statuses, Payments, Phases, Working, Results
<1>6. ASSUME NEW p \in Procs, RecordLedger(p) PROVE HoldsPayment'
    BY <1>6, NoOrderIsNone DEF RecordLedger, Goes, HoldsPayment, TypeOK,
     Captured, Procs, Statuses, Payments, Phases, Working, Results
<1>7. ASSUME NEW p \in Procs, ConfirmOrder(p) PROVE HoldsPayment'
    BY <1>7, NoOrderIsNone DEF ConfirmOrder, Set, Ends, Goes, Frees, Takes,
     HoldsPayment, TypeOK, Captured, Procs, Statuses, Payments, Phases,
     Working, Results
<1>8. ASSUME NEW p \in Procs, RecordFailure(p) PROVE HoldsPayment'
    BY <1>8, NoOrderIsNone DEF RecordFailure, SetUnlessConfirmed, Set, Ends,
     Goes, Frees, Takes, HoldsPayment, TypeOK, Captured, Procs, Statuses,
     Payments, Phases, Working, Results
<1>9. ASSUME NEW c \in Callers, TakeResult(c) PROVE HoldsPayment'
    BY <1>9, NoOrderIsNone DEF TakeResult, Frees, Takes, HoldsPayment, TypeOK,
     Captured, Procs, Statuses, Payments, Phases, Working, Results
<1>10. ASSUME NEW s \in Sweepers, NEW o \in Orders, SelectStale(s, o) PROVE
   HoldsPayment'
    BY <1>10, NoOrderIsNone DEF SelectStale, Takes, HoldsPayment, TypeOK,
     Captured, Procs, Statuses, Payments, Phases, Working, Results
<1>11. ASSUME NEW s \in Sweepers, NEW o \in Orders, SelectOverdue(s, o) PROVE
   HoldsPayment'
    BY <1>11, NoOrderIsNone DEF SelectOverdue, Takes, HoldsPayment, TypeOK,
     Captured, Procs, Statuses, Payments, Phases, Working, Results
<1>12. ASSUME NEW s \in Sweepers, LookupStale(s) PROVE HoldsPayment'
    BY <1>12, NoOrderIsNone DEF LookupStale, Goes, Frees, Takes, HoldsPayment,
     TypeOK, Captured, Procs, Statuses, Payments, Phases, Working, Results
<1>13. ASSUME NEW s \in Sweepers, CloseOrder(s) PROVE HoldsPayment'
    BY <1>13, NoOrderIsNone DEF CloseOrder, SetUnlessConfirmed, Set, Frees,
     Takes, HoldsPayment, TypeOK, Captured, Procs, Statuses, Payments, Phases,
     Working, Results
<1>14. ASSUME NEW c \in Callers, AnswerLost(c) PROVE HoldsPayment'
    BY <1>14, NoOrderIsNone DEF AnswerLost, Goes, HoldsPayment, TypeOK,
     Captured, Procs, Statuses, Payments, Phases, Working, Results
<1>15. ASSUME NEW c \in Callers, RaiseUnrecorded(c) PROVE HoldsPayment'
    BY <1>15, NoOrderIsNone DEF RaiseUnrecorded, Goes, HoldsPayment, TypeOK,
     Captured, Procs, Statuses, Payments, Phases, Working, Results
<1>16. ASSUME NEW s \in Sweepers, LookupFails(s) PROVE HoldsPayment'
    BY <1>16, NoOrderIsNone DEF LookupFails, Frees, Goes, Takes, HoldsPayment,
     TypeOK, Captured, Procs, Statuses, Payments, Phases, Working, Results
<1>17. ASSUME NEW p \in Procs, Die(p) PROVE HoldsPayment'
    BY <1>17, NoOrderIsNone DEF Die, Frees, Takes, HoldsPayment, TypeOK,
     Captured, Procs, Statuses, Payments, Phases, Working, Results
<1>18. ASSUME NEW o \in Orders, Age(o) PROVE HoldsPayment'
    BY <1>18, NoOrderIsNone DEF Age, HoldsPayment, TypeOK, Captured, Procs,
     Statuses, Payments, Phases, Working, Results
<1>19. ASSUME NEW o \in Orders, CancelAtToss(o) PROVE HoldsPayment'
    BY <1>19, NoOrderIsNone DEF CancelAtToss, HoldsPayment, TypeOK, Captured,
     Procs, Statuses, Payments, Phases, Working, Results
<1>20. ASSUME NEW b \in BOOLEAN, SetKey(b) PROVE HoldsPayment'
    BY <1>20, NoOrderIsNone DEF SetKey, HoldsPayment, TypeOK, Captured, Procs,
     Statuses, Payments, Phases, Working, Results
<1>21. CASE UNCHANGED vars
  BY <1>21, NoOrderIsNone DEF vars, HoldsPayment, TypeOK, Captured, Procs,
     Statuses, Payments, Phases, Working, Results
<1>22. QED
  BY <1>1, <1>2, <1>3, <1>4, <1>5, <1>6, <1>7, <1>8, <1>9, <1>10, <1>11,
     <1>12, <1>13, <1>14, <1>15, <1>16, <1>17, <1>18, <1>19, <1>20, <1>21 DEF
     Next, CallerStep, SweeperStep, Fault, Procs

\* Only RecordLedger books and only ConfirmOrder confirms, both for an order
\* whose payment the process holds.
LEMMA LedgerStep ==
    ASSUME TypeOK, HoldsPayment, ConfirmedInLedger, [Next]_vars
    PROVE  ConfirmedInLedger'
<1>1. ASSUME NEW c \in Callers, NEW o \in Orders, ClaimOrder(c, o) PROVE
   ConfirmedInLedger'
    BY <1>1 DEF ClaimOrder, Takes, Set, ConfirmedInLedger, HoldsPayment,
     TypeOK, Captured
<1>2. ASSUME NEW c \in Callers, NEW o \in Orders, LeaveOrder(c, o) PROVE
   ConfirmedInLedger'
    BY <1>2 DEF LeaveOrder, Takes, ConfirmedInLedger, HoldsPayment, TypeOK,
     Captured
<1>3. ASSUME NEW c \in Callers, ReadKey(c) PROVE ConfirmedInLedger'
    BY <1>3 DEF ReadKey, Goes, ConfirmedInLedger, HoldsPayment, TypeOK,
     Captured
<1>4. ASSUME NEW c \in Callers, TossAnswers(c) PROVE ConfirmedInLedger'
    BY <1>4 DEF TossAnswers, Goes, ConfirmedInLedger, HoldsPayment, TypeOK,
     Captured
<1>5. ASSUME NEW c \in Callers, LookupDuplicate(c) PROVE ConfirmedInLedger'
    BY <1>5 DEF LookupDuplicate, Goes, ConfirmedInLedger, HoldsPayment,
     TypeOK, Captured
<1>6. ASSUME NEW p \in Procs, RecordLedger(p) PROVE ConfirmedInLedger'
    BY <1>6 DEF RecordLedger, Goes, ConfirmedInLedger, HoldsPayment, TypeOK,
     Captured
<1>7. ASSUME NEW p \in Procs, ConfirmOrder(p) PROVE ConfirmedInLedger'
    BY <1>7 DEF ConfirmOrder, Set, Ends, Goes, Frees, Takes,
     ConfirmedInLedger, HoldsPayment, TypeOK, Captured
<1>8. ASSUME NEW p \in Procs, RecordFailure(p) PROVE ConfirmedInLedger'
    BY <1>8 DEF RecordFailure, SetUnlessConfirmed, Set, Ends, Goes, Frees,
     Takes, ConfirmedInLedger, HoldsPayment, TypeOK, Captured
<1>9. ASSUME NEW c \in Callers, TakeResult(c) PROVE ConfirmedInLedger'
    BY <1>9 DEF TakeResult, Frees, Takes, ConfirmedInLedger, HoldsPayment,
     TypeOK, Captured
<1>10. ASSUME NEW s \in Sweepers, NEW o \in Orders, SelectStale(s, o) PROVE
   ConfirmedInLedger'
    BY <1>10 DEF SelectStale, Takes, ConfirmedInLedger, HoldsPayment, TypeOK,
     Captured
<1>11. ASSUME NEW s \in Sweepers, NEW o \in Orders, SelectOverdue(s, o) PROVE
   ConfirmedInLedger'
    BY <1>11 DEF SelectOverdue, Takes, ConfirmedInLedger, HoldsPayment,
     TypeOK, Captured
<1>12. ASSUME NEW s \in Sweepers, LookupStale(s) PROVE ConfirmedInLedger'
    BY <1>12 DEF LookupStale, Goes, Frees, Takes, ConfirmedInLedger,
     HoldsPayment, TypeOK, Captured
<1>13. ASSUME NEW s \in Sweepers, CloseOrder(s) PROVE ConfirmedInLedger'
    BY <1>13 DEF CloseOrder, SetUnlessConfirmed, Set, Frees, Takes,
     ConfirmedInLedger, HoldsPayment, TypeOK, Captured
<1>14. ASSUME NEW c \in Callers, AnswerLost(c) PROVE ConfirmedInLedger'
    BY <1>14 DEF AnswerLost, Goes, ConfirmedInLedger, HoldsPayment, TypeOK,
     Captured
<1>15. ASSUME NEW c \in Callers, RaiseUnrecorded(c) PROVE ConfirmedInLedger'
    BY <1>15 DEF RaiseUnrecorded, Goes, ConfirmedInLedger, HoldsPayment,
     TypeOK, Captured
<1>16. ASSUME NEW s \in Sweepers, LookupFails(s) PROVE ConfirmedInLedger'
    BY <1>16 DEF LookupFails, Frees, Goes, Takes, ConfirmedInLedger, HoldsPayment,
     TypeOK, Captured
<1>17. ASSUME NEW p \in Procs, Die(p) PROVE ConfirmedInLedger'
    BY <1>17 DEF Die, Frees, Takes, ConfirmedInLedger, HoldsPayment, TypeOK,
     Captured
<1>18. ASSUME NEW o \in Orders, Age(o) PROVE ConfirmedInLedger'
    BY <1>18 DEF Age, ConfirmedInLedger, HoldsPayment, TypeOK, Captured
<1>19. ASSUME NEW o \in Orders, CancelAtToss(o) PROVE ConfirmedInLedger'
    BY <1>19 DEF CancelAtToss, ConfirmedInLedger, HoldsPayment, TypeOK,
     Captured
<1>20. ASSUME NEW b \in BOOLEAN, SetKey(b) PROVE ConfirmedInLedger'
    BY <1>20 DEF SetKey, ConfirmedInLedger, HoldsPayment, TypeOK, Captured
<1>21. CASE UNCHANGED vars
  BY <1>21 DEF vars, ConfirmedInLedger, HoldsPayment, TypeOK, Captured
<1>22. QED
  BY <1>1, <1>2, <1>3, <1>4, <1>5, <1>6, <1>7, <1>8, <1>9, <1>10, <1>11,
     <1>12, <1>13, <1>14, <1>15, <1>16, <1>17, <1>18, <1>19, <1>20, <1>21 DEF
     Next, CallerStep, SweeperStep, Fault, Procs

\* A fresh order changes hands only through a claim, which needs it not to be
\* pending, and the sweeps touch aged orders only.
LEMMA FreshStep ==
    ASSUME TypeOK, FreshOwned, [Next]_vars
    PROVE  FreshOwned'
<1>1. ASSUME NEW c \in Callers, NEW o \in Orders, ClaimOrder(c, o) PROVE
   FreshOwned'
    BY <1>1, NoOrderIsNone, ProcessesAreDistinct DEF ClaimOrder, Takes, Set,
     FreshOwned, Owns, TypeOK, Procs, Statuses, Payments, Phases, Working,
     Results
<1>2. ASSUME NEW c \in Callers, NEW o \in Orders, LeaveOrder(c, o) PROVE
   FreshOwned'
    BY <1>2, NoOrderIsNone, ProcessesAreDistinct DEF LeaveOrder, Takes,
     FreshOwned, Owns, TypeOK, Procs, Statuses, Payments, Phases, Working,
     Results
<1>3. ASSUME NEW c \in Callers, ReadKey(c) PROVE FreshOwned'
    BY <1>3, NoOrderIsNone, ProcessesAreDistinct DEF ReadKey, Goes,
     FreshOwned, Owns, TypeOK, Procs, Statuses, Payments, Phases, Working,
     Results
<1>4. ASSUME NEW c \in Callers, TossAnswers(c) PROVE FreshOwned'
    BY <1>4, NoOrderIsNone, ProcessesAreDistinct DEF TossAnswers, Goes,
     FreshOwned, Owns, TypeOK, Procs, Statuses, Payments, Phases, Working,
     Results
<1>5. ASSUME NEW c \in Callers, LookupDuplicate(c) PROVE FreshOwned'
    BY <1>5, NoOrderIsNone, ProcessesAreDistinct DEF LookupDuplicate, Goes,
     FreshOwned, Owns, TypeOK, Procs, Statuses, Payments, Phases, Working,
     Results
<1>6. ASSUME NEW p \in Procs, RecordLedger(p) PROVE FreshOwned'
    BY <1>6, NoOrderIsNone, ProcessesAreDistinct DEF RecordLedger, Goes,
     FreshOwned, Owns, TypeOK, Procs, Statuses, Payments, Phases, Working,
     Results
<1>7. ASSUME NEW p \in Procs, ConfirmOrder(p) PROVE FreshOwned'
    BY <1>7, NoOrderIsNone, ProcessesAreDistinct DEF ConfirmOrder, Set, Ends,
     Goes, Frees, Takes, FreshOwned, Owns, TypeOK, Procs, Statuses, Payments,
     Phases, Working, Results
<1>8. ASSUME NEW p \in Procs, RecordFailure(p) PROVE FreshOwned'
    BY <1>8, NoOrderIsNone, ProcessesAreDistinct DEF RecordFailure,
     SetUnlessConfirmed, Set, Ends, Goes, Frees, Takes, FreshOwned, Owns,
     TypeOK, Procs, Statuses, Payments, Phases, Working, Results
<1>9. ASSUME NEW c \in Callers, TakeResult(c) PROVE FreshOwned'
    BY <1>9, NoOrderIsNone, ProcessesAreDistinct DEF TakeResult, Frees, Takes,
     FreshOwned, Owns, TypeOK, Procs, Statuses, Payments, Phases, Working,
     Results
<1>10. ASSUME NEW s \in Sweepers, NEW o \in Orders, SelectStale(s, o) PROVE
   FreshOwned'
    BY <1>10, NoOrderIsNone, ProcessesAreDistinct DEF SelectStale, Takes,
     FreshOwned, Owns, TypeOK, Procs, Statuses, Payments, Phases, Working,
     Results
<1>11. ASSUME NEW s \in Sweepers, NEW o \in Orders, SelectOverdue(s, o) PROVE
   FreshOwned'
    BY <1>11, NoOrderIsNone, ProcessesAreDistinct DEF SelectOverdue, Takes,
     FreshOwned, Owns, TypeOK, Procs, Statuses, Payments, Phases, Working,
     Results
<1>12. ASSUME NEW s \in Sweepers, LookupStale(s) PROVE FreshOwned'
    BY <1>12, NoOrderIsNone, ProcessesAreDistinct DEF LookupStale, Goes,
     Frees, Takes, FreshOwned, Owns, TypeOK, Procs, Statuses, Payments,
     Phases, Working, Results
<1>13. ASSUME NEW s \in Sweepers, CloseOrder(s) PROVE FreshOwned'
    BY <1>13, NoOrderIsNone, ProcessesAreDistinct DEF CloseOrder,
     SetUnlessConfirmed, Set, Frees, Takes, FreshOwned, Owns, TypeOK, Procs,
     Statuses, Payments, Phases, Working, Results
<1>14. ASSUME NEW c \in Callers, AnswerLost(c) PROVE FreshOwned'
    BY <1>14, NoOrderIsNone, ProcessesAreDistinct DEF AnswerLost, Goes,
     FreshOwned, Owns, TypeOK, Procs, Statuses, Payments, Phases, Working,
     Results
<1>15. ASSUME NEW c \in Callers, RaiseUnrecorded(c) PROVE FreshOwned'
    BY <1>15, NoOrderIsNone, ProcessesAreDistinct DEF RaiseUnrecorded, Goes,
     FreshOwned, Owns, TypeOK, Procs, Statuses, Payments, Phases, Working,
     Results
<1>16. ASSUME NEW s \in Sweepers, LookupFails(s) PROVE FreshOwned'
    BY <1>16, NoOrderIsNone, ProcessesAreDistinct DEF LookupFails, Frees, Goes,
     Takes, FreshOwned, Owns, TypeOK, Procs, Statuses, Payments, Phases,
     Working, Results
<1>17. ASSUME NEW p \in Procs, Die(p) PROVE FreshOwned'
    BY <1>17, NoOrderIsNone, ProcessesAreDistinct DEF Die, Frees, Takes,
     FreshOwned, Owns, TypeOK, Procs, Statuses, Payments, Phases, Working,
     Results
<1>18. ASSUME NEW o \in Orders, Age(o) PROVE FreshOwned'
    BY <1>18, NoOrderIsNone, ProcessesAreDistinct DEF Age, FreshOwned, Owns,
     TypeOK, Procs, Statuses, Payments, Phases, Working, Results
<1>19. ASSUME NEW o \in Orders, CancelAtToss(o) PROVE FreshOwned'
    BY <1>19, NoOrderIsNone, ProcessesAreDistinct DEF CancelAtToss,
     FreshOwned, Owns, TypeOK, Procs, Statuses, Payments, Phases, Working,
     Results
<1>20. ASSUME NEW b \in BOOLEAN, SetKey(b) PROVE FreshOwned'
    BY <1>20, NoOrderIsNone, ProcessesAreDistinct DEF SetKey, FreshOwned,
     Owns, TypeOK, Procs, Statuses, Payments, Phases, Working, Results
<1>21. CASE UNCHANGED vars
  BY <1>21, NoOrderIsNone, ProcessesAreDistinct DEF vars, FreshOwned, Owns,
     TypeOK, Procs, Statuses, Payments, Phases, Working, Results
<1>22. QED
  BY <1>1, <1>2, <1>3, <1>4, <1>5, <1>6, <1>7, <1>8, <1>9, <1>10, <1>11,
     <1>12, <1>13, <1>14, <1>15, <1>16, <1>17, <1>18, <1>19, <1>20, <1>21 DEF
     Next, CallerStep, SweeperStep, Fault, Procs

\* One order that moves on, and only that one, is a step of OrderPayment.
LEMMA StageMoves ==
    ASSUME NEW o \in Orders, NEW from, NEW to,
           StageOf(o) = from, StageOf(o)' = to,
           \A x \in Orders \ {o} : StageOf(x)' = StageOf(x)
    PROVE  Payment!Move(o, from, to)
BY DEF Payment!Move

\* Every step of BillingCharge is a step of OrderPayment, or leaves the stages
\* alone: Toss takes the money, the ledger books it, the row is confirmed.
LEMMA StageStep ==
    ASSUME IInv, [Next]_vars
    PROVE  [Payment!Next]_Stage
<1> USE DEF IInv
<1>1. ASSUME NEW c \in Callers, NEW o \in Orders, ClaimOrder(c, o) PROVE
   UNCHANGED Stage
  BY <1>1 DEF ClaimOrder, Set, Stage, StageOf, TypeOK
<1>2. ASSUME NEW c \in Callers, NEW o \in Orders, LeaveOrder(c, o) PROVE
   UNCHANGED Stage
  BY <1>2 DEF LeaveOrder, Stage, StageOf
<1>3. ASSUME NEW c \in Callers, ReadKey(c) PROVE UNCHANGED Stage
  BY <1>3 DEF ReadKey, Stage, StageOf
<1>4. ASSUME NEW c \in Callers, TossAnswers(c) PROVE [Payment!Next]_Stage
  <2>1. PICK o \in Orders : ord[c] = o
    BY <1>4 DEF TossAnswers, TypeOK, Procs
  <2>2. CASE toss' = toss
    BY <1>4, <2>2 DEF TossAnswers, Stage, StageOf
  <2>3. CASE toss[o] \notin Captured /\ toss' = [toss EXCEPT ![o] = "done"]
    <3>1. StageOf(o) = "open"
      BY <2>1, <2>3 DEF StageOf, ConfirmedInLedger
    <3>2. /\ StageOf(o)' = "captured"
          /\ \A x \in Orders \ {o} : StageOf(x)' = StageOf(x)
      BY <1>4, <2>1, <2>3, <3>1 DEF TossAnswers, StageOf, TypeOK, Captured
    <3>3. QED
      BY <2>1, <3>1, <3>2, StageMoves DEF Payment!Next, Payment!Capture
  <2>4. CASE toss[o] \notin Captured /\ toss' = [toss EXCEPT ![o] = "aborted"]
    BY <1>4, <2>1, <2>4 DEF TossAnswers, Stage, StageOf, TypeOK, Captured
  <2>5. QED
    BY <1>4, <2>1, <2>2, <2>3, <2>4 DEF TossAnswers, TypeOK
<1>5. ASSUME NEW c \in Callers, LookupDuplicate(c) PROVE UNCHANGED Stage
  BY <1>5 DEF LookupDuplicate, Stage, StageOf
<1>6. ASSUME NEW p \in Procs, RecordLedger(p) PROVE [Payment!Next]_Stage
  <2>1. PICK o \in Orders : ord[p] = o /\ toss[o] \in Captured
    BY <1>6 DEF RecordLedger, HoldsPayment, TypeOK
  <2>2. CASE o \in ledger
    BY <1>6, <2>1, <2>2 DEF RecordLedger, Stage, StageOf
  <2>3. CASE o \notin ledger
    <3>1. StageOf(o) = "captured"
      BY <2>1, <2>3 DEF StageOf, ConfirmedInLedger
    <3>2. /\ StageOf(o)' = "booked"
          /\ \A x \in Orders \ {o} : StageOf(x)' = StageOf(x)
      BY <1>6, <2>1, <2>3, <3>1 DEF RecordLedger, StageOf
    <3>3. QED
      BY <2>1, <3>1, <3>2, StageMoves DEF Payment!Next, Payment!Book
  <2>4. QED
    BY <2>2, <2>3
<1>7. ASSUME NEW p \in Procs, ConfirmOrder(p) PROVE [Payment!Next]_Stage
  <2>1. PICK o \in Orders : ord[p] = o /\ o \in ledger
    BY <1>7 DEF ConfirmOrder, HoldsPayment, TypeOK
  <2>2. CASE status[o] = "confirmed"
    BY <1>7, <2>1, <2>2 DEF ConfirmOrder, Set, Stage, StageOf, TypeOK
  <2>3. CASE status[o] # "confirmed"
    <3>1. StageOf(o) = "booked"
      BY <2>1, <2>3 DEF StageOf
    <3>2. /\ StageOf(o)' = "settled"
          /\ \A x \in Orders \ {o} : StageOf(x)' = StageOf(x)
      BY <1>7, <2>1 DEF ConfirmOrder, Set, StageOf, TypeOK
    <3>3. QED
      BY <2>1, <3>1, <3>2, StageMoves DEF Payment!Next, Payment!Settle
  <2>4. QED
    BY <2>2, <2>3
<1>8. ASSUME NEW p \in Procs, RecordFailure(p) PROVE UNCHANGED Stage
  BY <1>8 DEF RecordFailure, SetUnlessConfirmed, Set, Stage, StageOf, TypeOK
<1>9. ASSUME NEW c \in Callers, TakeResult(c) PROVE UNCHANGED Stage
  BY <1>9 DEF TakeResult, Stage, StageOf
<1>10. ASSUME NEW s \in Sweepers, NEW o \in Orders, SelectStale(s, o) PROVE
   UNCHANGED Stage
  BY <1>10 DEF SelectStale, Stage, StageOf
<1>11. ASSUME NEW s \in Sweepers, NEW o \in Orders, SelectOverdue(s, o) PROVE
   UNCHANGED Stage
  BY <1>11 DEF SelectOverdue, Stage, StageOf
<1>12. ASSUME NEW s \in Sweepers, LookupStale(s) PROVE UNCHANGED Stage
  BY <1>12 DEF LookupStale, Stage, StageOf
<1>13. ASSUME NEW s \in Sweepers, CloseOrder(s) PROVE UNCHANGED Stage
  BY <1>13 DEF CloseOrder, SetUnlessConfirmed, Set, Stage, StageOf, TypeOK
<1>14. ASSUME NEW c \in Callers, AnswerLost(c) PROVE UNCHANGED Stage
  BY <1>14 DEF AnswerLost, Stage, StageOf
<1>15. ASSUME NEW c \in Callers, RaiseUnrecorded(c) PROVE UNCHANGED Stage
  BY <1>15 DEF RaiseUnrecorded, Stage, StageOf
<1>16. ASSUME NEW s \in Sweepers, LookupFails(s) PROVE UNCHANGED Stage
  BY <1>16 DEF LookupFails, Stage, StageOf
<1>17. ASSUME NEW p \in Procs, Die(p) PROVE UNCHANGED Stage
  BY <1>17 DEF Die, Stage, StageOf
<1>18. ASSUME NEW o \in Orders, Age(o) PROVE UNCHANGED Stage
  BY <1>18 DEF Age, Stage, StageOf
<1>19. ASSUME NEW o \in Orders, CancelAtToss(o) PROVE UNCHANGED Stage
  BY <1>19 DEF CancelAtToss, Stage, StageOf, TypeOK, Captured
<1>20. ASSUME NEW b \in BOOLEAN, SetKey(b) PROVE UNCHANGED Stage
  BY <1>20 DEF SetKey, Stage, StageOf
<1>21. CASE UNCHANGED vars
  BY <1>21 DEF vars, Stage, StageOf
<1>22. QED
  BY <1>1, <1>2, <1>3, <1>4, <1>5, <1>6, <1>7, <1>8, <1>9, <1>10, <1>11,
     <1>12, <1>13, <1>14, <1>15, <1>16, <1>17, <1>18, <1>19, <1>20, <1>21 DEF
     Next, CallerStep, SweeperStep, Fault, Procs


-----------------------------------------------------------------------------
LEMMA InitInv == Init => IInv
BY NoOrderIsNone, MaxFaultsIsNat
   DEF Init, IInv, TypeOK, HoldsPayment, ConfirmedInLedger, FreshOwned, Owns,
       Statuses, Payments, Phases, Working, Results

LEMMA Invariance == Spec => []IInv
<1>1. IInv /\ [Next]_vars => IInv'
  BY TypeStep, HoldsStep, LedgerStep, FreshStep DEF IInv
<1>2. QED
  BY InitInv, <1>1, PTL DEF Spec

\* The rows, the ledger, Toss and every process keep their types.
THEOREM ChargeTypes == Spec => []TypeOK
<1>1. IInv => TypeOK
  BY DEF IInv
<1>2. QED
  BY Invariance, <1>1, PTL

\* charge_org and the reconciling sweep never leave a confirmed order without
\* its ledger entry, nor book money that Toss did not take.
THEOREM ChargeLedger == Spec => []ConfirmedInLedger
<1>1. IInv => ConfirmedInLedger
  BY DEF IInv
<1>2. QED
  BY Invariance, <1>1, PTL

\* The claim on the order row is a lock as long as the order is fresh.
THEOREM ChargeSoleAttempt == Spec => []SoleAttemptWhileFresh
<1>1. IInv => SoleAttemptWhileFresh
  BY DEF IInv, FreshOwned, Owns, SoleAttemptWhileFresh
<1>2. QED
  BY Invariance, <1>1, PTL

\* Charging with retries, lost answers, crashes and sweeps implements paying
\* an order once, in the order taken, booked, settled.
THEOREM ChargeRefinesPayment == Spec => PaysInOrder
<1>1. Init => Payment!Init
  BY DEF Init, Payment!Init, StageOf, Captured
<1>2. IInv /\ [Next]_vars => [Payment!Next]_Stage
  BY StageStep
<1>3. QED
  BY Invariance, <1>1, <1>2, PTL DEF Spec, PaysInOrder, Payment!Spec, Stage
=============================================================================
