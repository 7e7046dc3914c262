-------------------------- MODULE QuotaLedgerProofs --------------------------
(***************************************************************************)
(* What QuotaLedger's runs show on two requests and two replicas, proved   *)
(* for any number of them, any quota, any time-outs that respect           *)
(* TimesAssumption and any number of crashes.                              *)
(***************************************************************************)
EXTENDS QuotaLedger, NumberTheorems, FiniteSetTheorems, TLAPS

USE LimitAssumption, SizesAssumption, ActualsAssumption, TimesAssumption,
    AttemptsAssumption, FaultsAssumption
DEF LimitAssumption, SizesAssumption, ActualsAssumption, TimesAssumption,
    AttemptsAssumption, FaultsAssumption

-----------------------------------------------------------------------------
\* Types.

\* TypeOK alone is not inductive: tries and lateFix stay bounded because a
\* correction is given up after MaxAttempts.
TypeInv == TypeOK /\ AttemptsBounded

LEMMA TypeInit == Init => TypeInv
<1> SUFFICES ASSUME Init PROVE TypeInv
  OBVIOUS
<1>1. outcome \in [Requests -> [actual : Nat, produced : BOOLEAN]]
  BY DEF Init, NoOutcome
<1>2. /\ used \in Int
      /\ row \in [Ids -> {"none", "open", "closed", "swept"}]
      /\ amount \in [Ids -> Nat]
      /\ age \in [Ids -> 0..(StaleAfter + 1)]
      /\ lateHold \in [Ids -> Nat]
      /\ lateFix \in [Ids -> 0..MaxAttempts]
      /\ logged \in [Ids -> Nat]
  BY DEF Init
<1>3. /\ pc \in [Requests -> Handling \cup {"idle", "refused", "correcting", "done",
                                             "lost", "dead", "abandoned"}]
      /\ home \in [Requests -> Procs \cup {NoProc}]
      /\ attempt \in [Requests -> {1, 2}]
      /\ reserved \in [Requests -> Nat]
      /\ tries \in [Requests -> 0..MaxAttempts]
  BY DEF Init
<1>4. /\ proc \in [Procs -> {"up", "draining", "closing", "down"}]
      /\ claimed \in [Procs -> SUBSET Ids]
      /\ exits \in 0..MaxExits
  BY DEF Init
<1>5. AttemptsBounded
  BY DEF Init, AttemptsBounded, Ids
<1>6. QED
  BY <1>1, <1>2, <1>3, <1>4, <1>5 DEF TypeInv, TypeOK

LEMMA RowOfIsId == ASSUME TypeOK, NEW r \in Requests PROVE RowOf(r) \in Ids
  BY DEF TypeOK, RowOf, Ids

\* What a request owes, and the correction it sends, are integers.
LEMMA OwedIsNat ==
  ASSUME TypeOK, NEW r \in Requests
  PROVE  Owed(r) \in Nat /\ Delta(r) \in Int
<1>1. /\ outcome[r].actual \in Nat
      /\ outcome[r].produced \in BOOLEAN
      /\ reserved[r] \in Nat
  BY DEF TypeOK
<1>2. CASE outcome[r].actual > 0
  BY <1>1, <1>2 DEF Owed, Delta
<1>3. CASE outcome[r].actual = 0 /\ outcome[r].produced
  BY <1>1, <1>3 DEF Owed, Delta
<1>4. CASE outcome[r].actual = 0 /\ ~outcome[r].produced
  BY <1>1, <1>4 DEF Owed, Delta
<1>5. QED
  BY <1>1, <1>2, <1>3, <1>4

\* A failed attempt is counted, and the last one gives the correction up.
LEMMA CountedTry ==
  ASSUME TypeInv, NEW r \in Requests, pc[r] = "correcting", CountFailedTry(r)
  PROVE  /\ tries' = [tries EXCEPT ![r] = tries[r] + 1]
         /\ tries[r] + 1 \in 0..MaxAttempts
         /\ \/ pc' = [pc EXCEPT ![r] = "lost"]
            \/ pc' = pc /\ tries[r] + 1 < MaxAttempts
<1>1. /\ tries[r] \in 0..MaxAttempts /\ tries[r] < MaxAttempts
      /\ pc = [q \in Requests |-> pc[q]]
  BY DEF TypeInv, TypeOK, AttemptsBounded
<1>2. CASE tries[r] + 1 = MaxAttempts
  BY <1>1, <1>2 DEF CountFailedTry
<1>3. CASE tries[r] + 1 # MaxAttempts
  <2>1. /\ pc' = [pc EXCEPT ![r] = pc[r]]
        /\ tries' = [tries EXCEPT ![r] = tries[r] + 1]
    BY <1>3 DEF CountFailedTry
  <2>2. pc' = pc
    BY <1>1, <2>1
  <2>3. /\ tries[r] + 1 < MaxAttempts
        /\ tries[r] + 1 \in 0..MaxAttempts
    BY <1>1, <1>3, AttemptsAssumption
  <2>4. QED
    BY <2>1, <2>2, <2>3, Zenon
<1>4. QED
  BY <1>2, <1>3

\* Counting the attempt makes room for the call it may leave behind.
LEMMA CountedBound ==
  ASSUME TypeOK, AttemptsBounded, NEW r \in Requests, pc[r] = "correcting",
         tries' = [tries EXCEPT ![r] = tries[r] + 1],
         \/ pc' = [pc EXCEPT ![r] = "lost"]
         \/ pc' = pc /\ tries[r] + 1 < MaxAttempts,
         lateFix' = lateFix \/ lateFix' = [lateFix EXCEPT ![RowOf(r)] = @ + 1]
  PROVE  AttemptsBounded'
<1> SUFFICES ASSUME NEW q \in Requests
             PROVE  /\ pc'[q] \in Handling \cup {"idle", "refused"} => tries'[q] = 0
                    /\ pc'[q] = "correcting" => tries'[q] < MaxAttempts
                    /\ \A a \in {1, 2} : lateFix'[<<q, a>>] <= tries'[q]
  BY DEF AttemptsBounded
<1>1. /\ tries \in [Requests -> 0..MaxAttempts]
      /\ pc \in [Requests -> Handling \cup {"idle", "refused", "correcting", "done",
                                             "lost", "dead", "abandoned"}]
      /\ lateFix \in [Requests \X {1, 2} -> 0..MaxAttempts]
  BY DEF TypeOK, Ids
<1>2. CASE q = r
  <2>1. tries'[q] = tries[r] + 1 /\ pc'[q] \in {"lost", "correcting"}
    BY <1>1, <1>2
  <2>2. ASSUME NEW a \in {1, 2} PROVE lateFix'[<<q, a>>] <= tries'[q]
    <3>1. lateFix[<<q, a>>] \in 0..MaxAttempts /\ lateFix[<<q, a>>] <= tries[q]
      BY <1>1 DEF AttemptsBounded
    <3>2. lateFix'[<<q, a>>] \in {lateFix[<<q, a>>], lateFix[<<q, a>>] + 1}
      BY <1>1
    <3>3. QED
      BY <1>1, <1>2, <2>1, <3>1, <3>2
  <2>3. QED
    BY <1>1, <1>2, <2>1, <2>2 DEF Handling
<1>3. CASE q # r
  <2>1. tries'[q] = tries[q] /\ pc'[q] = pc[q]
    BY <1>1, <1>3
  <2>2. ASSUME NEW a \in {1, 2} PROVE lateFix'[<<q, a>>] = lateFix[<<q, a>>]
    BY <1>1, <1>3 DEF RowOf
  <2>3. QED
    BY <2>1, <2>2 DEF AttemptsBounded
<1>4. QED
  BY <1>2, <1>3

LEMMA TypeStep == TypeInv /\ [Next]_vars => TypeInv'
<1> SUFFICES ASSUME TypeInv, [Next]_vars PROVE TypeInv'
  OBVIOUS
<1>1. ASSUME NEW r \in Requests, NEW p \in Procs, NEW n \in Sizes, Arrive(r, p, n)
      PROVE  TypeInv'
  BY <1>1 DEF TypeInv, TypeOK, AttemptsBounded, Ids, Arrive, Handling, dbVars, lateVars, procVars
<1>2. ASSUME NEW r \in Requests, ReserveGranted(r) PROVE TypeInv'
  BY <1>2, RowOfIsId DEF TypeInv, TypeOK, AttemptsBounded, Ids, ReserveGranted, OpenRow, Handling, lateVars, procVars
<1>3. ASSUME NEW r \in Requests, ReserveRefused(r) PROVE TypeInv'
  BY <1>3 DEF TypeInv, TypeOK, AttemptsBounded, Ids, ReserveRefused, AfterRefusal, Handling, dbVars, lateVars, procVars
<1>4. ASSUME NEW r \in Requests, ReserveAbandoned(r) PROVE TypeInv'
  BY <1>4, RowOfIsId DEF TypeInv, TypeOK, AttemptsBounded, Ids, ReserveAbandoned, AfterRefusal, Handling, dbVars, procVars
<1>5. ASSUME NEW r \in Requests, ReadHeadroom(r) PROVE TypeInv'
  <2>1. CASE Headroom > 0 /\ Headroom < reserved[r]
    <3>1. Headroom \in Nat
      BY <2>1 DEF TypeInv, TypeOK, Headroom
    <3>2. /\ pc' = [pc EXCEPT ![r] = "reserving"]
          /\ attempt' = [attempt EXCEPT ![r] = 2]
          /\ reserved' = [reserved EXCEPT ![r] = Headroom]
          /\ UNCHANGED <<dbVars, lateVars, home, outcome, tries, procVars>>
      BY <1>5, <2>1 DEF ReadHeadroom
    <3>3. TypeOK'
      BY <3>1, <3>2
      DEF TypeInv, TypeOK, Handling, dbVars, lateVars, procVars
    <3>4. AttemptsBounded'
      BY <1>5, <3>2
      DEF TypeInv, TypeOK, AttemptsBounded, ReadHeadroom, Handling, lateVars
    <3>5. QED
      BY <3>3, <3>4 DEF TypeInv
  <2>2. CASE ~(Headroom > 0 /\ Headroom < reserved[r])
    BY <1>5, <2>2
    DEF TypeInv, TypeOK, AttemptsBounded, Ids, ReadHeadroom, Handling, dbVars, lateVars, procVars
  <2>3. QED
    BY <2>1, <2>2
<1>6. ASSUME NEW r \in Requests, HeadroomFailed(r) PROVE TypeInv'
  BY <1>6 DEF TypeInv, TypeOK, AttemptsBounded, Ids, HeadroomFailed, Handling, dbVars, lateVars, procVars
<1>7. ASSUME NEW r \in Requests, Finish(r) PROVE TypeInv'
  <2>1. PICK a \in Actuals \cup {0}, b \in BOOLEAN :
          outcome' = [outcome EXCEPT ![r] = [actual |-> a, produced |-> b]]
    BY <1>7 DEF Finish
  <2>2. outcome' \in [Requests -> [actual : Nat, produced : BOOLEAN]]
    BY <2>1 DEF TypeInv, TypeOK
  <2>3. QED
    BY <1>7, <2>2 DEF TypeInv, TypeOK, AttemptsBounded, Ids, Finish, Handling, dbVars, lateVars, procVars
<1>8. ASSUME NEW r \in Requests, CorrectOk(r) PROVE TypeInv'
  <2>1. RowOf(r) \in Ids /\ Delta(r) \in Int
    BY RowOfIsId, OwedIsNat DEF TypeInv
  <2>2. TypeOK'
    BY <1>8, <2>1 DEF TypeInv, TypeOK, CorrectOk, ApplyCorrection, Handling, lateVars, procVars
  <2>3. AttemptsBounded'
    BY <1>8 DEF TypeInv, TypeOK, AttemptsBounded, CorrectOk, Handling, lateVars
  <2>4. QED
    BY <2>2, <2>3 DEF TypeInv
<1>9. ASSUME NEW r \in Requests, CorrectFailed(r) PROVE TypeInv'
  <2>1. /\ tries' = [tries EXCEPT ![r] = tries[r] + 1]
        /\ tries[r] + 1 \in 0..MaxAttempts
        /\ \/ pc' = [pc EXCEPT ![r] = "lost"]
           \/ pc' = pc /\ tries[r] + 1 < MaxAttempts
    BY <1>9, CountedTry DEF CorrectFailed
  <2>2. TypeOK'
    BY <1>9, <2>1 DEF TypeInv, TypeOK, CorrectFailed, Handling, dbVars, lateVars, procVars
  <2>3. AttemptsBounded'
    BY <1>9, <2>1, CountedBound DEF TypeInv, CorrectFailed, lateVars
  <2>4. QED
    BY <2>2, <2>3 DEF TypeInv
<1>10. ASSUME NEW r \in Requests, CorrectRefused(r) PROVE TypeInv'
  BY <1>10 DEF TypeInv, TypeOK, AttemptsBounded, Ids, CorrectRefused, Handling, dbVars, lateVars, procVars
<1>11. ASSUME NEW r \in Requests, CorrectAbandoned(r) PROVE TypeInv'
  <2>1. /\ tries' = [tries EXCEPT ![r] = tries[r] + 1]
        /\ tries[r] + 1 \in 0..MaxAttempts
        /\ \/ pc' = [pc EXCEPT ![r] = "lost"]
           \/ pc' = pc /\ tries[r] + 1 < MaxAttempts
    BY <1>11, CountedTry DEF CorrectAbandoned
  <2>2. RowOf(r) = <<r, attempt[r]>> /\ attempt[r] \in {1, 2} /\ RowOf(r) \in Ids
    BY RowOfIsId DEF RowOf, TypeInv, TypeOK
  <2>3. lateFix[RowOf(r)] <= tries[r] /\ lateFix[RowOf(r)] \in Nat
    <3>1. lateFix \in [Ids -> 0..MaxAttempts]
      BY DEF TypeInv, TypeOK
    <3>2. lateFix[<<r, attempt[r]>>] <= tries[r]
      BY <2>2 DEF TypeInv, AttemptsBounded
    <3>3. QED
      BY <2>2, <3>1, <3>2
  <2>4. lateFix[RowOf(r)] + 1 \in 0..MaxAttempts
    BY <2>1, <2>3 DEF TypeInv, TypeOK
  <2>5. TypeOK'
    BY <1>11, <2>1, <2>2, <2>4
    DEF TypeInv, TypeOK, CorrectAbandoned, Handling, dbVars, procVars
  <2>6. AttemptsBounded'
    BY <1>11, <2>1, <2>2, <2>3, CountedBound DEF TypeInv, CorrectAbandoned
  <2>7. QED
    BY <2>5, <2>6 DEF TypeInv
<1>12. ASSUME NEW r \in Requests, LateCorrection(r) PROVE TypeInv'
  BY <1>12, RowOfIsId, OwedIsNat
  DEF TypeInv, TypeOK, AttemptsBounded, Ids, LateCorrection, ApplyCorrection, reqVars, procVars
<1>13. ASSUME NEW i \in Ids, LateReserve(i) PROVE TypeInv'
  BY <1>13 DEF TypeInv, TypeOK, AttemptsBounded, Ids, LateReserve, OpenRow, reqVars, procVars
<1>14. ASSUME NEW p \in Procs, SweepClaim(p) PROVE TypeInv'
  BY <1>14 DEF TypeInv, TypeOK, AttemptsBounded, Ids, SweepClaim, Stale, lateVars, reqVars
<1>15. ASSUME NEW p \in Procs, SweepReport(p) PROVE TypeInv'
  BY <1>15 DEF TypeInv, TypeOK, AttemptsBounded, Ids, SweepReport, dbVars, lateVars, reqVars
<1>16. ASSUME NEW p \in Procs, SweepReplyLost(p) PROVE TypeInv'
  BY <1>16 DEF TypeInv, TypeOK, AttemptsBounded, Ids, SweepReplyLost, dbVars, lateVars, reqVars
<1>17. ASSUME NEW p \in Procs, NEW fate \in {"dead", "abandoned"}, GoDown(p, fate),
              exits' \in 0..MaxExits
       PROVE  TypeInv'
  BY <1>17 DEF TypeInv, TypeOK, AttemptsBounded, Ids, GoDown, Handling, dbVars, lateVars
<1>18. ASSUME NEW p \in Procs, Crash(p) \/ Leave(p) PROVE TypeInv'
  BY <1>17, <1>18 DEF TypeInv, TypeOK, AttemptsBounded, Ids, Crash, Leave, ExitClean, DrainDeadline
<1>19. ASSUME NEW p \in Procs, BeginDrain(p) \/ CloseListener(p) \/ Restart(p)
       PROVE  TypeInv'
  <2>1. /\ UNCHANGED <<dbVars, lateVars, reqVars, claimed, logged>>
        /\ exits' \in 0..MaxExits
    BY <1>19 DEF TypeInv, TypeOK, BeginDrain, CloseListener, Restart
  <2>2. proc' \in [Procs -> {"up", "draining", "closing", "down"}]
    <3>1. CASE BeginDrain(p)
      BY <3>1 DEF TypeInv, TypeOK, BeginDrain
    <3>2. CASE CloseListener(p)
      BY <3>2 DEF TypeInv, TypeOK, CloseListener
    <3>3. CASE Restart(p)
      BY <3>3 DEF TypeInv, TypeOK, Restart
    <3>4. QED
      BY <1>19, <3>1, <3>2, <3>3
  <2>3. QED
    BY <2>1, <2>2 DEF TypeInv, TypeOK, AttemptsBounded, dbVars, lateVars, reqVars
<1>20. CASE Tick
  BY <1>20 DEF TypeInv, TypeOK, AttemptsBounded, Ids, Tick, lateVars, reqVars, procVars
<1>21. CASE UNCHANGED vars
  BY <1>21 DEF TypeInv, TypeOK, AttemptsBounded, Ids, vars, dbVars, lateVars, reqVars, procVars
<1>22. QED
  BY <1>1, <1>2, <1>3, <1>4, <1>5, <1>6, <1>7, <1>8, <1>9, <1>10, <1>11, <1>12,
     <1>13, <1>14, <1>15, <1>16, <1>18, <1>19, <1>20, <1>21
  DEF Next, Request, Reserving, Correcting, Process

\* Every variable keeps its type, and the bounded ones their bounds.
THEOREM TypeCorrect == Spec => []TypeOK
<1>1. TypeInv => TypeOK
  BY DEF TypeInv
<1>2. QED
  BY <1>1, TypeInit, TypeStep, PTL DEF Spec
-----------------------------------------------------------------------------
\* The sweep takes nothing that is alive, and reports once.

\* A row is opened once.
LEMMA FreshStep == TypeInv /\ FreshRows /\ [Next]_vars => FreshRows'
<1> SUFFICES ASSUME TypeInv, FreshRows, [Next]_vars PROVE FreshRows'
  OBVIOUS
<1>1. ASSUME NEW r \in Requests, NEW p \in Procs, NEW n \in Sizes, Arrive(r, p, n)
      PROVE  FreshRows'
  BY <1>1 DEF TypeInv, TypeOK, FreshRows, RowOf, Ids, Arrive, dbVars, lateVars, reqVars, procVars
<1>2. ASSUME NEW r \in Requests, ReserveGranted(r) PROVE FreshRows'
  <2>1. /\ RowOf(r) \in Ids /\ attempt[r] \in {1, 2} /\ RowOf(r) = <<r, attempt[r]>>
        /\ row' = [row EXCEPT ![RowOf(r)] = "open"]
        /\ pc' = [pc EXCEPT ![r] = "streaming"]
        /\ lateHold[RowOf(r)] = 0
        /\ UNCHANGED <<attempt, lateHold>>
    BY <1>2, RowOfIsId
    DEF TypeInv, TypeOK, FreshRows, ReserveGranted, OpenRow, RowOf, lateVars
  <2>2. ASSUME NEW i \in Ids, lateHold'[i] > 0 PROVE row'[i] = "none"
    <3>1. i # RowOf(r) /\ row[i] = "none"
      BY <2>1, <2>2 DEF FreshRows
    <3>2. QED
      BY <2>1, <3>1 DEF TypeInv, TypeOK
  <2>3. ASSUME NEW q \in Requests, attempt'[q] = 1
        PROVE  row'[<<q, 2>>] = "none" /\ lateHold'[<<q, 2>>] = 0
    <3>1. <<q, 2>> \in Ids /\ <<q, 2>> # RowOf(r)
      BY <2>1, <2>3 DEF Ids
    <3>2. QED
      BY <2>1, <2>3, <3>1 DEF TypeInv, TypeOK, FreshRows
  <2>4. ASSUME NEW q \in Requests, pc'[q] \in {"idle", "reserving"}
        PROVE  row'[RowOf(q)'] = "none" /\ lateHold'[RowOf(q)'] = 0
    <3>1. q # r /\ pc'[q] = pc[q] /\ RowOf(q)' = RowOf(q)
      BY <2>1, <2>4 DEF TypeInv, TypeOK, RowOf
    <3>2. RowOf(q) \in Ids /\ RowOf(q) # RowOf(r)
      <4>1. attempt[q] \in {1, 2}
        BY DEF TypeInv, TypeOK
      <4>2. QED
        BY <2>1, <3>1, <4>1 DEF RowOf, Ids
    <3>3. QED
      <4>1. row[RowOf(q)] = "none" /\ lateHold[RowOf(q)] = 0
        BY <2>4, <3>1 DEF FreshRows
      <4>2. QED
        BY <2>1, <3>1, <3>2, <4>1 DEF TypeInv, TypeOK
  <2>5. \A q \in Requests : pc'[q] \in {"idle", "tail"} => attempt'[q] = 1
    BY <2>1 DEF TypeInv, TypeOK, FreshRows
  <2>6. QED
    BY <2>2, <2>3, <2>4, <2>5 DEF FreshRows
<1>3. ASSUME NEW r \in Requests, ReserveRefused(r) PROVE FreshRows'
  BY <1>3 DEF TypeInv, TypeOK, FreshRows, RowOf, Ids, ReserveRefused, AfterRefusal, dbVars, lateVars, reqVars, procVars
<1>4. ASSUME NEW r \in Requests, ReserveAbandoned(r) PROVE FreshRows'
  <2>1. /\ RowOf(r) \in Ids /\ attempt[r] \in {1, 2} /\ RowOf(r) = <<r, attempt[r]>>
        /\ row[RowOf(r)] = "none"
        /\ pc' = [pc EXCEPT ![r] = IF attempt[r] = 1 THEN "tail" ELSE "refused"]
        /\ lateHold' = [lateHold EXCEPT ![RowOf(r)] = reserved[r]]
        /\ UNCHANGED <<attempt, row>>
    BY <1>4, RowOfIsId
    DEF TypeInv, TypeOK, FreshRows, ReserveAbandoned, AfterRefusal, RowOf, dbVars
  <2>2. ASSUME NEW i \in Ids, lateHold'[i] > 0 PROVE row'[i] = "none"
    BY <2>1, <2>2 DEF TypeInv, TypeOK, FreshRows
  <2>3. ASSUME NEW q \in Requests, attempt'[q] = 1
        PROVE  row'[<<q, 2>>] = "none" /\ lateHold'[<<q, 2>>] = 0
    <3>1. <<q, 2>> \in Ids /\ <<q, 2>> # RowOf(r)
      BY <2>1, <2>3 DEF Ids
    <3>2. QED
      BY <2>1, <2>3, <3>1 DEF TypeInv, TypeOK, FreshRows
  <2>4. ASSUME NEW q \in Requests, pc'[q] \in {"idle", "reserving"}
        PROVE  row'[RowOf(q)'] = "none" /\ lateHold'[RowOf(q)'] = 0
    <3>1. q # r /\ pc'[q] = pc[q] /\ RowOf(q)' = RowOf(q)
      BY <2>1, <2>4 DEF TypeInv, TypeOK, RowOf
    <3>2. RowOf(q) \in Ids /\ RowOf(q) # RowOf(r)
      <4>1. attempt[q] \in {1, 2}
        BY DEF TypeInv, TypeOK
      <4>2. QED
        BY <2>1, <3>1, <4>1 DEF RowOf, Ids
    <3>3. QED
      <4>1. row[RowOf(q)] = "none" /\ lateHold[RowOf(q)] = 0
        BY <2>4, <3>1 DEF FreshRows
      <4>2. QED
        BY <2>1, <3>1, <3>2, <4>1 DEF TypeInv, TypeOK
  <2>5. \A q \in Requests : pc'[q] \in {"idle", "tail"} => attempt'[q] = 1
    BY <2>1 DEF TypeInv, TypeOK, FreshRows
  <2>6. QED
    BY <2>2, <2>3, <2>4, <2>5 DEF FreshRows
<1>5. ASSUME NEW r \in Requests, ReadHeadroom(r) PROVE FreshRows'
  <2>1. pc[r] = "tail" /\ attempt[r] = 1 /\ UNCHANGED <<row, lateHold>>
    BY <1>5 DEF ReadHeadroom, FreshRows, dbVars, lateVars
  <2>2. CASE Headroom > 0 /\ Headroom < reserved[r]
    <3>1. pc' = [pc EXCEPT ![r] = "reserving"] /\ attempt' = [attempt EXCEPT ![r] = 2]
      BY <1>5, <2>2 DEF ReadHeadroom
    <3>2. row[<<r, 2>>] = "none" /\ lateHold[<<r, 2>>] = 0
      BY <2>1 DEF FreshRows
    <3>3. QED
      BY <2>1, <3>1, <3>2 DEF TypeInv, TypeOK, FreshRows, RowOf
  <2>3. CASE ~(Headroom > 0 /\ Headroom < reserved[r])
    <3>1. pc' = [pc EXCEPT ![r] = "refused"] /\ attempt' = attempt
      BY <1>5, <2>3 DEF ReadHeadroom
    <3>2. QED
      BY <2>1, <3>1 DEF TypeInv, TypeOK, FreshRows, RowOf
  <2>4. QED
    BY <2>2, <2>3
<1>6. ASSUME NEW r \in Requests, HeadroomFailed(r) PROVE FreshRows'
  BY <1>6 DEF TypeInv, TypeOK, FreshRows, RowOf, Ids, HeadroomFailed, dbVars, lateVars, reqVars, procVars
<1>7. ASSUME NEW r \in Requests, Finish(r) PROVE FreshRows'
  BY <1>7 DEF TypeInv, TypeOK, FreshRows, RowOf, Ids, Finish, dbVars, lateVars, reqVars, procVars
<1>8. ASSUME NEW r \in Requests, CorrectOk(r) PROVE FreshRows'
  BY <1>8 DEF TypeInv, TypeOK, FreshRows, RowOf, Ids, CorrectOk, ApplyCorrection, dbVars, lateVars, reqVars, procVars
<1>9. ASSUME NEW r \in Requests, CorrectFailed(r) PROVE FreshRows'
  BY <1>9 DEF TypeInv, TypeOK, FreshRows, RowOf, Ids, CorrectFailed, CountFailedTry, dbVars, lateVars, reqVars, procVars
<1>10. ASSUME NEW r \in Requests, CorrectRefused(r) PROVE FreshRows'
  BY <1>10 DEF TypeInv, TypeOK, FreshRows, RowOf, Ids, CorrectRefused, dbVars, lateVars, reqVars, procVars
<1>11. ASSUME NEW r \in Requests, CorrectAbandoned(r) PROVE FreshRows'
  BY <1>11 DEF TypeInv, TypeOK, FreshRows, RowOf, Ids, CorrectAbandoned, CountFailedTry, dbVars, lateVars, reqVars, procVars
<1>12. ASSUME NEW r \in Requests, LateCorrection(r) PROVE FreshRows'
  BY <1>12 DEF TypeInv, TypeOK, FreshRows, RowOf, Ids, LateCorrection, ApplyCorrection, dbVars, lateVars, reqVars, procVars
<1>13. ASSUME NEW i \in Ids, LateReserve(i) PROVE FreshRows'
  BY <1>13 DEF TypeInv, TypeOK, FreshRows, RowOf, Ids, LateReserve, OpenRow, reqVars, procVars
<1>14. ASSUME NEW p \in Procs, SweepClaim(p) PROVE FreshRows'
  BY <1>14 DEF TypeInv, TypeOK, FreshRows, RowOf, Ids, SweepClaim, Stale, dbVars, lateVars, reqVars
<1>15. ASSUME NEW p \in Procs, SweepReport(p) PROVE FreshRows'
  BY <1>15 DEF TypeInv, TypeOK, FreshRows, RowOf, Ids, SweepReport, dbVars, lateVars, reqVars
<1>16. ASSUME NEW p \in Procs, SweepReplyLost(p) PROVE FreshRows'
  BY <1>16 DEF TypeInv, TypeOK, FreshRows, RowOf, Ids, SweepReplyLost, dbVars, lateVars, reqVars
<1>17. ASSUME NEW p \in Procs, Crash(p) PROVE FreshRows'
  BY <1>17 DEF TypeInv, TypeOK, FreshRows, RowOf, Ids, Crash, GoDown, Handling, dbVars, lateVars, reqVars
<1>18. ASSUME NEW p \in Procs, ExitClean(p) PROVE FreshRows'
  BY <1>18 DEF TypeInv, TypeOK, FreshRows, RowOf, Ids, ExitClean, GoDown, Handling, dbVars, lateVars, reqVars
<1>19. ASSUME NEW p \in Procs, DrainDeadline(p) PROVE FreshRows'
  BY <1>19 DEF TypeInv, TypeOK, FreshRows, RowOf, Ids, DrainDeadline, GoDown, Handling, dbVars, lateVars, reqVars
<1>20. ASSUME NEW p \in Procs, BeginDrain(p) PROVE FreshRows'
  BY <1>20 DEF TypeInv, TypeOK, FreshRows, RowOf, Ids, BeginDrain, dbVars, lateVars, reqVars
<1>21. ASSUME NEW p \in Procs, CloseListener(p) PROVE FreshRows'
  BY <1>21 DEF TypeInv, TypeOK, FreshRows, RowOf, Ids, CloseListener, dbVars, lateVars, reqVars
<1>22. ASSUME NEW p \in Procs, Restart(p) PROVE FreshRows'
  BY <1>22 DEF TypeInv, TypeOK, FreshRows, RowOf, Ids, Restart, dbVars, lateVars, reqVars
<1>23. CASE Tick
  BY <1>23 DEF TypeInv, TypeOK, FreshRows, RowOf, Ids, Tick, lateVars, reqVars, procVars
<1>24. CASE UNCHANGED vars
  BY <1>24 DEF TypeInv, TypeOK, FreshRows, RowOf, Ids, vars, dbVars, lateVars, reqVars, procVars
<1>25. QED
  BY <1>1, <1>2, <1>3, <1>4, <1>5, <1>6, <1>7, <1>8, <1>9, <1>10, <1>11, <1>12, <1>13, <1>14, <1>15, <1>16, <1>17, <1>18, <1>19, <1>20, <1>21, <1>22, <1>23, <1>24
  DEF Next, Request, Reserving, Correcting, Process, Leave

\* A live row stays young.
LEMMA YoungStep == TypeInv /\ FreshRows /\ LiveRowsYoung /\ [Next]_vars => LiveRowsYoung'
<1> SUFFICES ASSUME TypeInv, FreshRows, LiveRowsYoung, [Next]_vars PROVE LiveRowsYoung'
  OBVIOUS
<1>1. ASSUME NEW r \in Requests, NEW p \in Procs, NEW n \in Sizes, Arrive(r, p, n)
      PROVE  LiveRowsYoung'
  BY <1>1 DEF TypeInv, TypeOK, FreshRows, LiveRowsYoung, Live, RowOf, Ids, Arrive, dbVars, lateVars, reqVars, procVars
<1>2. ASSUME NEW r \in Requests, ReserveGranted(r) PROVE LiveRowsYoung'
  <2>1. /\ RowOf(r) \in Ids
        /\ row[RowOf(r)] = "none" /\ age[RowOf(r)] = 0
        /\ row' = [row EXCEPT ![RowOf(r)] = "open"]
        /\ pc' = [pc EXCEPT ![r] = "streaming"]
        /\ UNCHANGED <<attempt, age>>
    BY <1>2, RowOfIsId
    DEF TypeInv, FreshRows, LiveRowsYoung, ReserveGranted, OpenRow
  <2>2. ASSUME NEW i \in Ids, row'[i] # "open" PROVE age'[i] = 0
    BY <2>1, <2>2 DEF TypeInv, TypeOK, LiveRowsYoung
  <2>3. ASSUME NEW q \in Live' PROVE age'[RowOf(q)'] <= Lifetime
    <3>1. RowOf(q)' = RowOf(q) /\ q \in Requests
      BY <2>1 DEF RowOf, Live
    <3>2. CASE q = r
      BY <2>1, <3>1, <3>2
    <3>3. CASE q # r
      BY <2>1, <2>3, <3>1, <3>3 DEF Live, LiveRowsYoung, TypeInv, TypeOK
    <3>4. QED
      BY <3>2, <3>3
  <2>4. QED
    BY <2>2, <2>3 DEF LiveRowsYoung
<1>3. ASSUME NEW r \in Requests, ReserveRefused(r) PROVE LiveRowsYoung'
  BY <1>3 DEF TypeInv, TypeOK, FreshRows, LiveRowsYoung, Live, RowOf, Ids, ReserveRefused, AfterRefusal, dbVars, lateVars, reqVars, procVars
<1>4. ASSUME NEW r \in Requests, ReserveAbandoned(r) PROVE LiveRowsYoung'
  BY <1>4 DEF TypeInv, TypeOK, FreshRows, LiveRowsYoung, Live, RowOf, Ids, ReserveAbandoned, AfterRefusal, dbVars, lateVars, reqVars, procVars
<1>5. ASSUME NEW r \in Requests, ReadHeadroom(r) PROVE LiveRowsYoung'
  BY <1>5 DEF TypeInv, TypeOK, FreshRows, LiveRowsYoung, Live, RowOf, Ids, ReadHeadroom, Headroom, dbVars, lateVars, reqVars, procVars
<1>6. ASSUME NEW r \in Requests, HeadroomFailed(r) PROVE LiveRowsYoung'
  BY <1>6 DEF TypeInv, TypeOK, FreshRows, LiveRowsYoung, Live, RowOf, Ids, HeadroomFailed, dbVars, lateVars, reqVars, procVars
<1>7. ASSUME NEW r \in Requests, Finish(r) PROVE LiveRowsYoung'
  BY <1>7 DEF TypeInv, TypeOK, FreshRows, LiveRowsYoung, Live, RowOf, Ids, Finish, dbVars, lateVars, reqVars, procVars
<1>8. ASSUME NEW r \in Requests, CorrectOk(r) PROVE LiveRowsYoung'
  BY <1>8 DEF TypeInv, TypeOK, FreshRows, LiveRowsYoung, Live, RowOf, Ids, CorrectOk, ApplyCorrection, dbVars, lateVars, reqVars, procVars
<1>9. ASSUME NEW r \in Requests, CorrectFailed(r) PROVE LiveRowsYoung'
  BY <1>9 DEF TypeInv, TypeOK, FreshRows, LiveRowsYoung, Live, RowOf, Ids, CorrectFailed, CountFailedTry, dbVars, lateVars, reqVars, procVars
<1>10. ASSUME NEW r \in Requests, CorrectRefused(r) PROVE LiveRowsYoung'
  BY <1>10 DEF TypeInv, TypeOK, FreshRows, LiveRowsYoung, Live, RowOf, Ids, CorrectRefused, dbVars, lateVars, reqVars, procVars
<1>11. ASSUME NEW r \in Requests, CorrectAbandoned(r) PROVE LiveRowsYoung'
  BY <1>11 DEF TypeInv, TypeOK, FreshRows, LiveRowsYoung, Live, RowOf, Ids, CorrectAbandoned, CountFailedTry, dbVars, lateVars, reqVars, procVars
<1>12. ASSUME NEW r \in Requests, LateCorrection(r) PROVE LiveRowsYoung'
  BY <1>12 DEF TypeInv, TypeOK, FreshRows, LiveRowsYoung, Live, RowOf, Ids, LateCorrection, ApplyCorrection, dbVars, lateVars, reqVars, procVars
<1>13. ASSUME NEW i \in Ids, LateReserve(i) PROVE LiveRowsYoung'
  BY <1>13 DEF TypeInv, TypeOK, FreshRows, LiveRowsYoung, Live, RowOf, Ids, LateReserve, OpenRow, reqVars, procVars
<1>14. ASSUME NEW p \in Procs, SweepClaim(p) PROVE LiveRowsYoung'
  BY <1>14 DEF TypeInv, TypeOK, FreshRows, LiveRowsYoung, Live, RowOf, Ids, SweepClaim, Stale, dbVars, lateVars, reqVars
<1>15. ASSUME NEW p \in Procs, SweepReport(p) PROVE LiveRowsYoung'
  BY <1>15 DEF TypeInv, TypeOK, FreshRows, LiveRowsYoung, Live, RowOf, Ids, SweepReport, dbVars, lateVars, reqVars
<1>16. ASSUME NEW p \in Procs, SweepReplyLost(p) PROVE LiveRowsYoung'
  BY <1>16 DEF TypeInv, TypeOK, FreshRows, LiveRowsYoung, Live, RowOf, Ids, SweepReplyLost, dbVars, lateVars, reqVars
<1>17. ASSUME NEW p \in Procs, Crash(p) PROVE LiveRowsYoung'
  BY <1>17 DEF TypeInv, TypeOK, FreshRows, LiveRowsYoung, Live, RowOf, Ids, Crash, GoDown, Handling, dbVars, lateVars, reqVars
<1>18. ASSUME NEW p \in Procs, ExitClean(p) PROVE LiveRowsYoung'
  BY <1>18 DEF TypeInv, TypeOK, FreshRows, LiveRowsYoung, Live, RowOf, Ids, ExitClean, GoDown, Handling, dbVars, lateVars, reqVars
<1>19. ASSUME NEW p \in Procs, DrainDeadline(p) PROVE LiveRowsYoung'
  BY <1>19 DEF TypeInv, TypeOK, FreshRows, LiveRowsYoung, Live, RowOf, Ids, DrainDeadline, GoDown, Handling, dbVars, lateVars, reqVars
<1>20. ASSUME NEW p \in Procs, BeginDrain(p) PROVE LiveRowsYoung'
  BY <1>20 DEF TypeInv, TypeOK, FreshRows, LiveRowsYoung, Live, RowOf, Ids, BeginDrain, dbVars, lateVars, reqVars
<1>21. ASSUME NEW p \in Procs, CloseListener(p) PROVE LiveRowsYoung'
  BY <1>21 DEF TypeInv, TypeOK, FreshRows, LiveRowsYoung, Live, RowOf, Ids, CloseListener, dbVars, lateVars, reqVars
<1>22. ASSUME NEW p \in Procs, Restart(p) PROVE LiveRowsYoung'
  BY <1>22 DEF TypeInv, TypeOK, FreshRows, LiveRowsYoung, Live, RowOf, Ids, Restart, dbVars, lateVars, reqVars
<1>23. CASE Tick
  BY <1>23 DEF TypeInv, TypeOK, FreshRows, LiveRowsYoung, Live, RowOf, Ids, Tick, lateVars, reqVars, procVars
<1>24. CASE UNCHANGED vars
  BY <1>24 DEF TypeInv, TypeOK, FreshRows, LiveRowsYoung, Live, RowOf, Ids, vars, dbVars, lateVars, reqVars, procVars
<1>25. QED
  BY <1>1, <1>2, <1>3, <1>4, <1>5, <1>6, <1>7, <1>8, <1>9, <1>10, <1>11, <1>12, <1>13, <1>14, <1>15, <1>16, <1>17, <1>18, <1>19, <1>20, <1>21, <1>22, <1>23, <1>24
  DEF Next, Request, Reserving, Correcting, Process, Leave

\* A claim is exclusive, and reported once.
LEMMA ClaimsStep == TypeInv /\ FreshRows /\ ClaimsExclusive /\ ReportedAtMostOnce /\ [Next]_vars => (ClaimsExclusive /\ ReportedAtMostOnce)'
<1> SUFFICES ASSUME TypeInv, FreshRows, ClaimsExclusive, ReportedAtMostOnce, [Next]_vars PROVE (ClaimsExclusive /\ ReportedAtMostOnce)'
  OBVIOUS
<1>1. ASSUME NEW r \in Requests, NEW p \in Procs, NEW n \in Sizes, Arrive(r, p, n)
      PROVE  (ClaimsExclusive /\ ReportedAtMostOnce)'
  BY <1>1 DEF TypeInv, TypeOK, FreshRows, ClaimsExclusive, ReportedAtMostOnce, RowOf, Ids, Arrive, dbVars, lateVars, reqVars, procVars
<1>2. ASSUME NEW r \in Requests, ReserveGranted(r) PROVE (ClaimsExclusive /\ ReportedAtMostOnce)'
  BY <1>2 DEF TypeInv, TypeOK, FreshRows, ClaimsExclusive, ReportedAtMostOnce, RowOf, Ids, ReserveGranted, OpenRow, dbVars, lateVars, reqVars, procVars
<1>3. ASSUME NEW r \in Requests, ReserveRefused(r) PROVE (ClaimsExclusive /\ ReportedAtMostOnce)'
  BY <1>3 DEF TypeInv, TypeOK, FreshRows, ClaimsExclusive, ReportedAtMostOnce, RowOf, Ids, ReserveRefused, AfterRefusal, dbVars, lateVars, reqVars, procVars
<1>4. ASSUME NEW r \in Requests, ReserveAbandoned(r) PROVE (ClaimsExclusive /\ ReportedAtMostOnce)'
  BY <1>4 DEF TypeInv, TypeOK, FreshRows, ClaimsExclusive, ReportedAtMostOnce, RowOf, Ids, ReserveAbandoned, AfterRefusal, dbVars, lateVars, reqVars, procVars
<1>5. ASSUME NEW r \in Requests, ReadHeadroom(r) PROVE (ClaimsExclusive /\ ReportedAtMostOnce)'
  BY <1>5 DEF TypeInv, TypeOK, FreshRows, ClaimsExclusive, ReportedAtMostOnce, RowOf, Ids, ReadHeadroom, Headroom, dbVars, lateVars, reqVars, procVars
<1>6. ASSUME NEW r \in Requests, HeadroomFailed(r) PROVE (ClaimsExclusive /\ ReportedAtMostOnce)'
  BY <1>6 DEF TypeInv, TypeOK, FreshRows, ClaimsExclusive, ReportedAtMostOnce, RowOf, Ids, HeadroomFailed, dbVars, lateVars, reqVars, procVars
<1>7. ASSUME NEW r \in Requests, Finish(r) PROVE (ClaimsExclusive /\ ReportedAtMostOnce)'
  BY <1>7 DEF TypeInv, TypeOK, FreshRows, ClaimsExclusive, ReportedAtMostOnce, RowOf, Ids, Finish, dbVars, lateVars, reqVars, procVars
<1>8. ASSUME NEW r \in Requests, CorrectOk(r) PROVE (ClaimsExclusive /\ ReportedAtMostOnce)'
  <2>1. /\ \A i \in Ids : row[i] = "swept" => row'[i] = "swept"
        /\ UNCHANGED <<claimed, logged>>
    BY <1>8 DEF TypeInv, TypeOK, CorrectOk, ApplyCorrection, procVars
  <2>2. QED
    BY <2>1 DEF TypeInv, TypeOK, ClaimsExclusive, ReportedAtMostOnce
<1>9. ASSUME NEW r \in Requests, CorrectFailed(r) PROVE (ClaimsExclusive /\ ReportedAtMostOnce)'
  BY <1>9 DEF TypeInv, TypeOK, FreshRows, ClaimsExclusive, ReportedAtMostOnce, RowOf, Ids, CorrectFailed, CountFailedTry, dbVars, lateVars, reqVars, procVars
<1>10. ASSUME NEW r \in Requests, CorrectRefused(r) PROVE (ClaimsExclusive /\ ReportedAtMostOnce)'
  BY <1>10 DEF TypeInv, TypeOK, FreshRows, ClaimsExclusive, ReportedAtMostOnce, RowOf, Ids, CorrectRefused, dbVars, lateVars, reqVars, procVars
<1>11. ASSUME NEW r \in Requests, CorrectAbandoned(r) PROVE (ClaimsExclusive /\ ReportedAtMostOnce)'
  BY <1>11 DEF TypeInv, TypeOK, FreshRows, ClaimsExclusive, ReportedAtMostOnce, RowOf, Ids, CorrectAbandoned, CountFailedTry, dbVars, lateVars, reqVars, procVars
<1>12. ASSUME NEW r \in Requests, LateCorrection(r) PROVE (ClaimsExclusive /\ ReportedAtMostOnce)'
  <2>1. /\ \A i \in Ids : row[i] = "swept" => row'[i] = "swept"
        /\ UNCHANGED <<claimed, logged>>
    BY <1>12 DEF TypeInv, TypeOK, LateCorrection, ApplyCorrection, procVars
  <2>2. QED
    BY <2>1 DEF TypeInv, TypeOK, ClaimsExclusive, ReportedAtMostOnce
<1>13. ASSUME NEW i \in Ids, LateReserve(i) PROVE (ClaimsExclusive /\ ReportedAtMostOnce)'
  BY <1>13 DEF TypeInv, TypeOK, FreshRows, ClaimsExclusive, ReportedAtMostOnce, RowOf, Ids, LateReserve, OpenRow, reqVars, procVars
<1>14. ASSUME NEW p \in Procs, SweepClaim(p) PROVE (ClaimsExclusive /\ ReportedAtMostOnce)'
  BY <1>14 DEF TypeInv, TypeOK, FreshRows, ClaimsExclusive, ReportedAtMostOnce, RowOf, Ids, SweepClaim, Stale, dbVars, lateVars, reqVars
<1>15. ASSUME NEW p \in Procs, SweepReport(p) PROVE (ClaimsExclusive /\ ReportedAtMostOnce)'
  BY <1>15 DEF TypeInv, TypeOK, FreshRows, ClaimsExclusive, ReportedAtMostOnce, RowOf, Ids, SweepReport, dbVars, lateVars, reqVars
<1>16. ASSUME NEW p \in Procs, SweepReplyLost(p) PROVE (ClaimsExclusive /\ ReportedAtMostOnce)'
  BY <1>16 DEF TypeInv, TypeOK, FreshRows, ClaimsExclusive, ReportedAtMostOnce, RowOf, Ids, SweepReplyLost, dbVars, lateVars, reqVars
<1>17. ASSUME NEW p \in Procs, Crash(p) PROVE (ClaimsExclusive /\ ReportedAtMostOnce)'
  BY <1>17 DEF TypeInv, TypeOK, FreshRows, ClaimsExclusive, ReportedAtMostOnce, RowOf, Ids, Crash, GoDown, Handling, dbVars, lateVars, reqVars
<1>18. ASSUME NEW p \in Procs, ExitClean(p) PROVE (ClaimsExclusive /\ ReportedAtMostOnce)'
  BY <1>18 DEF TypeInv, TypeOK, FreshRows, ClaimsExclusive, ReportedAtMostOnce, RowOf, Ids, ExitClean, GoDown, Handling, dbVars, lateVars, reqVars
<1>19. ASSUME NEW p \in Procs, DrainDeadline(p) PROVE (ClaimsExclusive /\ ReportedAtMostOnce)'
  BY <1>19 DEF TypeInv, TypeOK, FreshRows, ClaimsExclusive, ReportedAtMostOnce, RowOf, Ids, DrainDeadline, GoDown, Handling, dbVars, lateVars, reqVars
<1>20. ASSUME NEW p \in Procs, BeginDrain(p) PROVE (ClaimsExclusive /\ ReportedAtMostOnce)'
  BY <1>20 DEF TypeInv, TypeOK, FreshRows, ClaimsExclusive, ReportedAtMostOnce, RowOf, Ids, BeginDrain, dbVars, lateVars, reqVars
<1>21. ASSUME NEW p \in Procs, CloseListener(p) PROVE (ClaimsExclusive /\ ReportedAtMostOnce)'
  BY <1>21 DEF TypeInv, TypeOK, FreshRows, ClaimsExclusive, ReportedAtMostOnce, RowOf, Ids, CloseListener, dbVars, lateVars, reqVars
<1>22. ASSUME NEW p \in Procs, Restart(p) PROVE (ClaimsExclusive /\ ReportedAtMostOnce)'
  BY <1>22 DEF TypeInv, TypeOK, FreshRows, ClaimsExclusive, ReportedAtMostOnce, RowOf, Ids, Restart, dbVars, lateVars, reqVars
<1>23. CASE Tick
  BY <1>23 DEF TypeInv, TypeOK, FreshRows, ClaimsExclusive, ReportedAtMostOnce, RowOf, Ids, Tick, lateVars, reqVars, procVars
<1>24. CASE UNCHANGED vars
  BY <1>24 DEF TypeInv, TypeOK, FreshRows, ClaimsExclusive, ReportedAtMostOnce, RowOf, Ids, vars, dbVars, lateVars, reqVars, procVars
<1>25. QED
  BY <1>1, <1>2, <1>3, <1>4, <1>5, <1>6, <1>7, <1>8, <1>9, <1>10, <1>11, <1>12, <1>13, <1>14, <1>15, <1>16, <1>17, <1>18, <1>19, <1>20, <1>21, <1>22, <1>23, <1>24
  DEF Next, Request, Reserving, Correcting, Process, Leave

\* The tail of the quota is reserved only when it is less than what was asked.
LEMMA LesserCharge ==
  ASSUME NEW n \in Reservable, NEW h \in 0..n PROVE h \in Reservable
<1>1. CASE n = 0
  BY <1>1 DEF Reservable
<1>2. CASE n # 0
  <2>1. PICK m \in Sizes : n \in 0..m
    BY <1>2 DEF Reservable
  <2>2. h \in 0..m
    BY <2>1
  <2>3. QED
    BY <2>2 DEF Reservable
<1>3. QED
  BY <1>1, <1>2

\* What the headroom lookup does to its request.
LEMMA TailTurn ==
  ASSUME TypeInv, NEW r \in Requests, ReadHeadroom(r)
  PROVE  /\ pc[r] = "tail"
         /\ \/ /\ pc' = [pc EXCEPT ![r] = "reserving"]
               /\ attempt' = [attempt EXCEPT ![r] = 2]
               /\ reserved' = [reserved EXCEPT ![r] = Headroom]
               /\ Headroom \in 0..reserved[r]
            \/ /\ pc' = [pc EXCEPT ![r] = "refused"]
               /\ UNCHANGED <<attempt, reserved>>
         /\ UNCHANGED <<used, row, amount, age, lateHold, lateFix, home, outcome, tries>>
<1>1. Headroom \in Int /\ reserved[r] \in Nat
  BY DEF TypeInv, TypeOK, Headroom
<1>2. pc[r] = "tail"
      /\ UNCHANGED <<used, row, amount, age, lateHold, lateFix, home, outcome, tries>>
  BY DEF ReadHeadroom, dbVars, lateVars
<1>3. CASE Headroom > 0 /\ Headroom < reserved[r]
  BY <1>1, <1>2, <1>3 DEF ReadHeadroom
<1>4. CASE ~(Headroom > 0 /\ Headroom < reserved[r])
  BY <1>2, <1>4 DEF ReadHeadroom
<1>5. QED
  BY <1>3, <1>4

\* A live row is too young for the sweep.
LEMMA LiveStep == TypeInv /\ FreshRows /\ LiveRowsYoung /\ LiveRowNeverSwept /\ [Next]_vars => LiveRowNeverSwept'
<1> SUFFICES ASSUME TypeInv, FreshRows, LiveRowsYoung, LiveRowNeverSwept, [Next]_vars PROVE LiveRowNeverSwept'
  OBVIOUS
<1>1. ASSUME NEW r \in Requests, NEW p \in Procs, NEW n \in Sizes, Arrive(r, p, n)
      PROVE  LiveRowNeverSwept'
  BY <1>1 DEF TypeInv, TypeOK, FreshRows, LiveRowsYoung, LiveRowNeverSwept, Live, RowOf, Ids, Arrive, dbVars, lateVars, reqVars, procVars
<1>2. ASSUME NEW r \in Requests, ReserveGranted(r) PROVE LiveRowNeverSwept'
  BY <1>2 DEF TypeInv, TypeOK, FreshRows, LiveRowsYoung, LiveRowNeverSwept, Live, RowOf, Ids, ReserveGranted, OpenRow, dbVars, lateVars, reqVars, procVars
<1>3. ASSUME NEW r \in Requests, ReserveRefused(r) PROVE LiveRowNeverSwept'
  BY <1>3 DEF TypeInv, TypeOK, FreshRows, LiveRowsYoung, LiveRowNeverSwept, Live, RowOf, Ids, ReserveRefused, AfterRefusal, dbVars, lateVars, reqVars, procVars
<1>4. ASSUME NEW r \in Requests, ReserveAbandoned(r) PROVE LiveRowNeverSwept'
  BY <1>4 DEF TypeInv, TypeOK, FreshRows, LiveRowsYoung, LiveRowNeverSwept, Live, RowOf, Ids, ReserveAbandoned, AfterRefusal, dbVars, lateVars, reqVars, procVars
<1>5. ASSUME NEW r \in Requests, ReadHeadroom(r) PROVE LiveRowNeverSwept'
  BY <1>5, TailTurn DEF TypeInv, TypeOK, LiveRowNeverSwept, Live, RowOf
<1>6. ASSUME NEW r \in Requests, HeadroomFailed(r) PROVE LiveRowNeverSwept'
  BY <1>6 DEF TypeInv, TypeOK, FreshRows, LiveRowsYoung, LiveRowNeverSwept, Live, RowOf, Ids, HeadroomFailed, dbVars, lateVars, reqVars, procVars
<1>7. ASSUME NEW r \in Requests, Finish(r) PROVE LiveRowNeverSwept'
  BY <1>7 DEF TypeInv, TypeOK, FreshRows, LiveRowsYoung, LiveRowNeverSwept, Live, RowOf, Ids, Finish, dbVars, lateVars, reqVars, procVars
<1>8. ASSUME NEW r \in Requests, CorrectOk(r) PROVE LiveRowNeverSwept'
  BY <1>8 DEF TypeInv, TypeOK, FreshRows, LiveRowsYoung, LiveRowNeverSwept, Live, RowOf, Ids, CorrectOk, ApplyCorrection, dbVars, lateVars, reqVars, procVars
<1>9. ASSUME NEW r \in Requests, CorrectFailed(r) PROVE LiveRowNeverSwept'
  BY <1>9 DEF TypeInv, TypeOK, FreshRows, LiveRowsYoung, LiveRowNeverSwept, Live, RowOf, Ids, CorrectFailed, CountFailedTry, dbVars, lateVars, reqVars, procVars
<1>10. ASSUME NEW r \in Requests, CorrectRefused(r) PROVE LiveRowNeverSwept'
  BY <1>10 DEF TypeInv, TypeOK, FreshRows, LiveRowsYoung, LiveRowNeverSwept, Live, RowOf, Ids, CorrectRefused, dbVars, lateVars, reqVars, procVars
<1>11. ASSUME NEW r \in Requests, CorrectAbandoned(r) PROVE LiveRowNeverSwept'
  BY <1>11 DEF TypeInv, TypeOK, FreshRows, LiveRowsYoung, LiveRowNeverSwept, Live, RowOf, Ids, CorrectAbandoned, CountFailedTry, dbVars, lateVars, reqVars, procVars
<1>12. ASSUME NEW r \in Requests, LateCorrection(r) PROVE LiveRowNeverSwept'
  BY <1>12 DEF TypeInv, TypeOK, FreshRows, LiveRowsYoung, LiveRowNeverSwept, Live, RowOf, Ids, LateCorrection, ApplyCorrection, dbVars, lateVars, reqVars, procVars
<1>13. ASSUME NEW i \in Ids, LateReserve(i) PROVE LiveRowNeverSwept'
  BY <1>13 DEF TypeInv, TypeOK, FreshRows, LiveRowsYoung, LiveRowNeverSwept, Live, RowOf, Ids, LateReserve, OpenRow, reqVars, procVars
<1>14. ASSUME NEW p \in Procs, SweepClaim(p) PROVE LiveRowNeverSwept'
  BY <1>14 DEF TypeInv, TypeOK, FreshRows, LiveRowsYoung, LiveRowNeverSwept, Live, RowOf, Ids, SweepClaim, Stale, dbVars, lateVars, reqVars
<1>15. ASSUME NEW p \in Procs, SweepReport(p) PROVE LiveRowNeverSwept'
  BY <1>15 DEF TypeInv, TypeOK, FreshRows, LiveRowsYoung, LiveRowNeverSwept, Live, RowOf, Ids, SweepReport, dbVars, lateVars, reqVars
<1>16. ASSUME NEW p \in Procs, SweepReplyLost(p) PROVE LiveRowNeverSwept'
  BY <1>16 DEF TypeInv, TypeOK, FreshRows, LiveRowsYoung, LiveRowNeverSwept, Live, RowOf, Ids, SweepReplyLost, dbVars, lateVars, reqVars
<1>17. ASSUME NEW p \in Procs, Crash(p) PROVE LiveRowNeverSwept'
  BY <1>17 DEF TypeInv, TypeOK, FreshRows, LiveRowsYoung, LiveRowNeverSwept, Live, RowOf, Ids, Crash, GoDown, Handling, dbVars, lateVars, reqVars
<1>18. ASSUME NEW p \in Procs, ExitClean(p) PROVE LiveRowNeverSwept'
  BY <1>18 DEF TypeInv, TypeOK, FreshRows, LiveRowsYoung, LiveRowNeverSwept, Live, RowOf, Ids, ExitClean, GoDown, Handling, dbVars, lateVars, reqVars
<1>19. ASSUME NEW p \in Procs, DrainDeadline(p) PROVE LiveRowNeverSwept'
  BY <1>19 DEF TypeInv, TypeOK, FreshRows, LiveRowsYoung, LiveRowNeverSwept, Live, RowOf, Ids, DrainDeadline, GoDown, Handling, dbVars, lateVars, reqVars
<1>20. ASSUME NEW p \in Procs, BeginDrain(p) PROVE LiveRowNeverSwept'
  BY <1>20 DEF TypeInv, TypeOK, FreshRows, LiveRowsYoung, LiveRowNeverSwept, Live, RowOf, Ids, BeginDrain, dbVars, lateVars, reqVars
<1>21. ASSUME NEW p \in Procs, CloseListener(p) PROVE LiveRowNeverSwept'
  BY <1>21 DEF TypeInv, TypeOK, FreshRows, LiveRowsYoung, LiveRowNeverSwept, Live, RowOf, Ids, CloseListener, dbVars, lateVars, reqVars
<1>22. ASSUME NEW p \in Procs, Restart(p) PROVE LiveRowNeverSwept'
  BY <1>22 DEF TypeInv, TypeOK, FreshRows, LiveRowsYoung, LiveRowNeverSwept, Live, RowOf, Ids, Restart, dbVars, lateVars, reqVars
<1>23. CASE Tick
  BY <1>23 DEF TypeInv, TypeOK, FreshRows, LiveRowsYoung, LiveRowNeverSwept, Live, RowOf, Ids, Tick, lateVars, reqVars, procVars
<1>24. CASE UNCHANGED vars
  BY <1>24 DEF TypeInv, TypeOK, FreshRows, LiveRowsYoung, LiveRowNeverSwept, Live, RowOf, Ids, vars, dbVars, lateVars, reqVars, procVars
<1>25. QED
  BY <1>1, <1>2, <1>3, <1>4, <1>5, <1>6, <1>7, <1>8, <1>9, <1>10, <1>11, <1>12, <1>13, <1>14, <1>15, <1>16, <1>17, <1>18, <1>19, <1>20, <1>21, <1>22, <1>23, <1>24
  DEF Next, Request, Reserving, Correcting, Process, Leave

\* While no call outlives its caller, a row and its request agree.
LEMMA MatchStep == TypeInv /\ FreshRows /\ LiveRowsYoung /\ RowsMatchRequests /\ [Next]_vars => RowsMatchRequests'
<1> SUFFICES ASSUME TypeInv, FreshRows, LiveRowsYoung, RowsMatchRequests, [Next]_vars PROVE RowsMatchRequests'
  OBVIOUS
<1>1. ASSUME NEW r \in Requests, NEW p \in Procs, NEW n \in Sizes, Arrive(r, p, n)
      PROVE  RowsMatchRequests'
  <2>1. n \in Reservable
    BY DEF Reservable
  <2>2. QED
    BY <1>1, <2>1 DEF TypeInv, TypeOK, FreshRows, LiveRowsYoung, RowsMatchRequests, Live, RowOf, Ids, Arrive, dbVars, lateVars, reqVars, procVars
<1>2. ASSUME NEW r \in Requests, ReserveGranted(r) PROVE RowsMatchRequests'
  BY <1>2 DEF TypeInv, TypeOK, FreshRows, LiveRowsYoung, RowsMatchRequests, Live, RowOf, Ids, ReserveGranted, OpenRow, dbVars, lateVars, reqVars, procVars
<1>3. ASSUME NEW r \in Requests, ReserveRefused(r) PROVE RowsMatchRequests'
  BY <1>3 DEF TypeInv, TypeOK, FreshRows, LiveRowsYoung, RowsMatchRequests, Live, RowOf, Ids, ReserveRefused, AfterRefusal, dbVars, lateVars, reqVars, procVars
<1>4. ASSUME NEW r \in Requests, ReserveAbandoned(r) PROVE RowsMatchRequests'
  BY <1>4 DEF TypeInv, TypeOK, FreshRows, LiveRowsYoung, RowsMatchRequests, Live, RowOf, Ids, ReserveAbandoned, AfterRefusal, dbVars, lateVars, reqVars, procVars
<1>5. ASSUME NEW r \in Requests, ReadHeadroom(r) PROVE RowsMatchRequests'
  <2>1. \A i \in Ids : row[i] # "none" /\ ~LoseReplies => i[1] # r
    BY <1>5 DEF RowsMatchRequests, ReadHeadroom
  <2>2. \A q \in Live' : q \in Live /\ q # r
    BY <1>5, TailTurn DEF Live, TypeInv, TypeOK
  <2>3. reserved'[r] \in Reservable \/ LoseReplies
    BY <1>5, TailTurn, LesserCharge DEF RowsMatchRequests, TypeInv, TypeOK
  <2>4. /\ \A q \in Requests \ {r} : /\ pc'[q] = pc[q]
                                     /\ RowOf(q)' = RowOf(q)
                                     /\ reserved'[q] = reserved[q]
        /\ UNCHANGED <<row, amount, lateHold, lateFix, outcome>>
    BY <1>5, TailTurn DEF TypeInv, TypeOK, RowOf
  <2>5. \A q \in Live' : q \in Requests
    BY DEF Live
  <2>6. ASSUME NEW i \in Ids PROVE i[1] \in Requests
    BY DEF Ids
  <2>7. QED
    BY <2>1, <2>2, <2>3, <2>4, <2>5, <2>6 DEF RowsMatchRequests
<1>6. ASSUME NEW r \in Requests, HeadroomFailed(r) PROVE RowsMatchRequests'
  BY <1>6 DEF TypeInv, TypeOK, FreshRows, LiveRowsYoung, RowsMatchRequests, Live, RowOf, Ids, HeadroomFailed, dbVars, lateVars, reqVars, procVars
<1>7. ASSUME NEW r \in Requests, Finish(r) PROVE RowsMatchRequests'
  BY <1>7 DEF TypeInv, TypeOK, FreshRows, LiveRowsYoung, RowsMatchRequests, Live, RowOf, Ids, Finish, dbVars, lateVars, reqVars, procVars
<1>8. ASSUME NEW r \in Requests, CorrectOk(r) PROVE RowsMatchRequests'
  BY <1>8 DEF TypeInv, TypeOK, FreshRows, LiveRowsYoung, RowsMatchRequests, Live, RowOf, Ids, CorrectOk, ApplyCorrection, dbVars, lateVars, reqVars, procVars
<1>9. ASSUME NEW r \in Requests, CorrectFailed(r) PROVE RowsMatchRequests'
  BY <1>9 DEF TypeInv, TypeOK, FreshRows, LiveRowsYoung, RowsMatchRequests, Live, RowOf, Ids, CorrectFailed, CountFailedTry, dbVars, lateVars, reqVars, procVars
<1>10. ASSUME NEW r \in Requests, CorrectRefused(r) PROVE RowsMatchRequests'
  BY <1>10 DEF TypeInv, TypeOK, FreshRows, LiveRowsYoung, RowsMatchRequests, Live, RowOf, Ids, CorrectRefused, dbVars, lateVars, reqVars, procVars
<1>11. ASSUME NEW r \in Requests, CorrectAbandoned(r) PROVE RowsMatchRequests'
  BY <1>11 DEF TypeInv, TypeOK, FreshRows, LiveRowsYoung, RowsMatchRequests, Live, RowOf, Ids, CorrectAbandoned, CountFailedTry, dbVars, lateVars, reqVars, procVars
<1>12. ASSUME NEW r \in Requests, LateCorrection(r) PROVE RowsMatchRequests'
  BY <1>12 DEF TypeInv, TypeOK, FreshRows, LiveRowsYoung, RowsMatchRequests, Live, RowOf, Ids, LateCorrection, ApplyCorrection, dbVars, lateVars, reqVars, procVars
<1>13. ASSUME NEW i \in Ids, LateReserve(i) PROVE RowsMatchRequests'
  BY <1>13 DEF TypeInv, TypeOK, FreshRows, LiveRowsYoung, RowsMatchRequests, Live, RowOf, Ids, LateReserve, OpenRow, reqVars, procVars
<1>14. ASSUME NEW p \in Procs, SweepClaim(p) PROVE RowsMatchRequests'
  BY <1>14 DEF TypeInv, TypeOK, FreshRows, LiveRowsYoung, RowsMatchRequests, Live, RowOf, Ids, SweepClaim, Stale, dbVars, lateVars, reqVars
<1>15. ASSUME NEW p \in Procs, SweepReport(p) PROVE RowsMatchRequests'
  BY <1>15 DEF TypeInv, TypeOK, FreshRows, LiveRowsYoung, RowsMatchRequests, Live, RowOf, Ids, SweepReport, dbVars, lateVars, reqVars
<1>16. ASSUME NEW p \in Procs, SweepReplyLost(p) PROVE RowsMatchRequests'
  BY <1>16 DEF TypeInv, TypeOK, FreshRows, LiveRowsYoung, RowsMatchRequests, Live, RowOf, Ids, SweepReplyLost, dbVars, lateVars, reqVars
<1>17. ASSUME NEW p \in Procs, Crash(p) PROVE RowsMatchRequests'
  BY <1>17 DEF TypeInv, TypeOK, FreshRows, LiveRowsYoung, RowsMatchRequests, Live, RowOf, Ids, Crash, GoDown, Handling, dbVars, lateVars, reqVars
<1>18. ASSUME NEW p \in Procs, ExitClean(p) PROVE RowsMatchRequests'
  BY <1>18 DEF TypeInv, TypeOK, FreshRows, LiveRowsYoung, RowsMatchRequests, Live, RowOf, Ids, ExitClean, GoDown, Handling, dbVars, lateVars, reqVars
<1>19. ASSUME NEW p \in Procs, DrainDeadline(p) PROVE RowsMatchRequests'
  BY <1>19 DEF TypeInv, TypeOK, FreshRows, LiveRowsYoung, RowsMatchRequests, Live, RowOf, Ids, DrainDeadline, GoDown, Handling, dbVars, lateVars, reqVars
<1>20. ASSUME NEW p \in Procs, BeginDrain(p) PROVE RowsMatchRequests'
  BY <1>20 DEF TypeInv, TypeOK, FreshRows, LiveRowsYoung, RowsMatchRequests, Live, RowOf, Ids, BeginDrain, dbVars, lateVars, reqVars
<1>21. ASSUME NEW p \in Procs, CloseListener(p) PROVE RowsMatchRequests'
  BY <1>21 DEF TypeInv, TypeOK, FreshRows, LiveRowsYoung, RowsMatchRequests, Live, RowOf, Ids, CloseListener, dbVars, lateVars, reqVars
<1>22. ASSUME NEW p \in Procs, Restart(p) PROVE RowsMatchRequests'
  BY <1>22 DEF TypeInv, TypeOK, FreshRows, LiveRowsYoung, RowsMatchRequests, Live, RowOf, Ids, Restart, dbVars, lateVars, reqVars
<1>23. CASE Tick
  BY <1>23 DEF TypeInv, TypeOK, FreshRows, LiveRowsYoung, RowsMatchRequests, Live, RowOf, Ids, Tick, lateVars, reqVars, procVars
<1>24. CASE UNCHANGED vars
  BY <1>24 DEF TypeInv, TypeOK, FreshRows, LiveRowsYoung, RowsMatchRequests, Live, RowOf, Ids, vars, dbVars, lateVars, reqVars, procVars
<1>25. QED
  BY <1>1, <1>2, <1>3, <1>4, <1>5, <1>6, <1>7, <1>8, <1>9, <1>10, <1>11, <1>12, <1>13, <1>14, <1>15, <1>16, <1>17, <1>18, <1>19, <1>20, <1>21, <1>22, <1>23, <1>24
  DEF Next, Request, Reserving, Correcting, Process, Leave

-----------------------------------------------------------------------------
\* The inductive invariant.

LedgerInv ==
  /\ TypeInv /\ FreshRows /\ LiveRowsYoung /\ LiveRowNeverSwept
  /\ ClaimsExclusive /\ ReportedAtMostOnce /\ RowsMatchRequests

LEMMA LedgerInvInit == Init => LedgerInv
<1> SUFFICES ASSUME Init PROVE LedgerInv
  OBVIOUS
<1>1. FreshRows
  BY DEF Init, FreshRows, Ids, RowOf
<1>2. LiveRowsYoung /\ LiveRowNeverSwept
  BY DEF Init, LiveRowsYoung, LiveRowNeverSwept, Live
<1>3. ClaimsExclusive /\ ReportedAtMostOnce
  BY DEF Init, ClaimsExclusive, ReportedAtMostOnce
<1>4. RowsMatchRequests
  BY DEF Init, RowsMatchRequests, Live, NoOutcome, Reservable
<1>5. QED
  BY <1>1, <1>2, <1>3, <1>4, TypeInit DEF LedgerInv

LEMMA LedgerInvStep == LedgerInv /\ [Next]_vars => LedgerInv'
  BY TypeStep, FreshStep, YoungStep, LiveStep, ClaimsStep, MatchStep DEF LedgerInv

THEOREM LedgerInvariant == Spec => []LedgerInv
  BY LedgerInvInit, LedgerInvStep, PTL DEF Spec

\* No sweep of any process ever takes the reservation of a request that is
\* still running or still being corrected, late calls included.
THEOREM LiveRowsAreNeverSwept == Spec => []LiveRowNeverSwept
<1>1. LedgerInv => LiveRowNeverSwept
  BY DEF LedgerInv
<1>2. QED
  BY <1>1, LedgerInvariant, PTL

\* However many replicas sweep, no stranded reservation is reported twice.
THEOREM StrandedRowsAreReportedOnce == Spec => []ReportedAtMostOnce
<1>1. LedgerInv => ReportedAtMostOnce
  BY DEF LedgerInv
<1>2. QED
  BY <1>1, LedgerInvariant, PTL

\* While no call outlives its caller, every open row is the debt of a request
\* that is running or gone, and of nothing else.
THEOREM OpenRowsAreDebts == ASSUME ~LoseReplies PROVE Spec => []NoOrphanRow
<1>1. LedgerInv => NoOrphanRow
  BY DEF LedgerInv, RowsMatchRequests, NoOrphanRow
<1>2. QED
  BY <1>1, LedgerInvariant, PTL

-----------------------------------------------------------------------------
\* The ledger implements the account.

\* One entry of the account.
LEMMA AcctEntry ==
  ASSUME NEW i \in Ids
  PROVE  /\ Acct[i].state = AcctState(i) /\ Acct[i].charge = AcctCharge(i)
         /\ Acct[i] = [state |-> AcctState(i), charge |-> AcctCharge(i)]
         /\ row[i] = "none"   => AcctState(i) = "none"    /\ AcctCharge(i) = 0
         /\ row[i] = "open"   => AcctState(i) = "held"    /\ AcctCharge(i) = amount[i]
         /\ row[i] = "closed" => AcctState(i) = "settled" /\ AcctCharge(i) = Owed(i[1])
         /\ row[i] = "swept"  => AcctState(i) = "forfeit" /\ AcctCharge(i) = amount[i]
<1>1. Acct[i] = [state |-> AcctState(i), charge |-> AcctCharge(i)]
  BY DEF Acct
<1>2. Acct[i].state = AcctState(i) /\ Acct[i].charge = AcctCharge(i)
  BY <1>1
<1>3. row[i] = "none" => AcctState(i) = "none" /\ AcctCharge(i) = 0
  BY DEF AcctState, AcctCharge
<1>4. row[i] = "open" => AcctState(i) = "held" /\ AcctCharge(i) = amount[i]
  BY DEF AcctState, AcctCharge
<1>5. row[i] = "closed" => AcctState(i) = "settled" /\ AcctCharge(i) = Owed(i[1])
  BY DEF AcctState, AcctCharge
<1>6. row[i] = "swept" => AcctState(i) = "forfeit" /\ AcctCharge(i) = amount[i]
  BY DEF AcctState, AcctCharge
<1>7. QED
  BY <1>1, <1>2, <1>3, <1>4, <1>5, <1>6

\* The entry of a row that did not change, and neither did what it was settled at.
LEMMA AcctSame ==
  ASSUME NEW i \in Ids, row'[i] = row[i], amount'[i] = amount[i],
         row[i] = "closed" => Owed(i[1])' = Owed(i[1])
  PROVE  AcctState(i)' = AcctState(i) /\ AcctCharge(i)' = AcctCharge(i)
<1>1. AcctState(i)' = AcctState(i)
  BY DEF AcctState
<1>2. CASE row[i] = "closed"
  BY <1>1, <1>2 DEF AcctCharge
<1>3. CASE row[i] # "closed"
  BY <1>1, <1>3 DEF AcctCharge
<1>4. QED
  BY <1>2, <1>3

\* A step changes the account only where it changes a row, or what a closed one
\* was settled at.
LEMMA AcctChange ==
  ASSUME NEW i \in Ids, NEW s, NEW c,
         AcctState(i)' = s, AcctCharge(i)' = c,
         \A j \in Ids \ {i} : /\ row'[j] = row[j] /\ amount'[j] = amount[j]
                              /\ row[j] = "closed" => Owed(j[1])' = Owed(j[1])
  PROVE  Acct' = [Acct EXCEPT ![i] = [state |-> s, charge |-> c]]
<1>1. \A j \in Ids \ {i} : AcctState(j)' = AcctState(j) /\ AcctCharge(j)' = AcctCharge(j)
  BY AcctSame
<1>2. QED
  BY <1>1 DEF Acct

LEMMA AcctFrame ==
  ASSUME \A j \in Ids : /\ row'[j] = row[j] /\ amount'[j] = amount[j]
                        /\ row[j] = "closed" => Owed(j[1])' = Owed(j[1])
  PROVE  Acct' = Acct
<1>1. \A j \in Ids : AcctState(j)' = AcctState(j) /\ AcctCharge(j)' = AcctCharge(j)
  BY AcctSame
<1>2. QED
  BY <1>1 DEF Acct

\* What is owed can be charged.
LEMMA OwedIsCharge ==
  ASSUME ~LoseReplies, LedgerInv, NEW r \in Requests
  PROVE  Owed(r) \in LedgerCharges /\ reserved[r] \in LedgerCharges
<1>1. /\ outcome[r].actual \in Actuals \cup {0}
      /\ outcome[r].actual \in Nat /\ outcome[r].produced \in BOOLEAN
      /\ reserved[r] \in Reservable
      /\ 0 \in Reservable
  BY DEF LedgerInv, TypeInv, TypeOK, RowsMatchRequests, Reservable
<1>2. CASE outcome[r].actual > 0
  BY <1>1, <1>2 DEF Owed, LedgerCharges
<1>3. CASE outcome[r].actual = 0 /\ outcome[r].produced
  BY <1>1, <1>3 DEF Owed, LedgerCharges
<1>4. CASE outcome[r].actual = 0 /\ ~outcome[r].produced
  BY <1>1, <1>4 DEF Owed, LedgerCharges
<1>5. QED
  BY <1>1, <1>2, <1>3, <1>4

\* A reservation granted is a hold.
LEMMA GrantIsHold ==
  ASSUME ~LoseReplies, LedgerInv, NEW r \in Requests, ReserveGranted(r)
  PROVE  Account!Hold(RowOf(r))
<1>0. PICK i \in Ids : i = RowOf(r)
  BY RowOfIsId DEF LedgerInv, TypeInv
<1>1. /\ i \in Ids /\ row[i] = "none" /\ reserved[r] \in LedgerCharges
  BY <1>0, OwedIsCharge DEF LedgerInv, FreshRows, ReserveGranted
<1>2. /\ used + reserved[r] <= Limit /\ used' = used + reserved[r]
      /\ row' = [row EXCEPT ![i] = "open"]
      /\ amount' = [amount EXCEPT ![i] = reserved[r]]
      /\ UNCHANGED <<outcome, reserved>>
  BY <1>0 DEF ReserveGranted, OpenRow, QuotaAllows
<1>3. Acct' = [Acct EXCEPT ![i] = [state |-> "held", charge |-> reserved[r]]]
  <2>1. \A j \in Ids \ {i} : /\ row'[j] = row[j] /\ amount'[j] = amount[j]
                             /\ Owed(j[1])' = Owed(j[1])
    BY <1>1, <1>2 DEF LedgerInv, TypeInv, TypeOK, Owed
  <2>2. row'[i] = "open" /\ amount'[i] = reserved[r]
    BY <1>1, <1>2 DEF LedgerInv, TypeInv, TypeOK
  <2>3. AcctState(i)' = "held" /\ AcctCharge(i)' = reserved[r]
    BY <2>2 DEF AcctState, AcctCharge
  <2>4. QED
    BY <1>1, <2>1, <2>3, AcctChange
<1>4. Acct[i].state = "none"
  BY <1>1, AcctEntry
<1>5. QED
  BY <1>0, <1>1, <1>2, <1>3, <1>4 DEF Account!Hold

\* A correction applied is a settlement, at what the request owed.
LEMMA CorrectionIsSettlement ==
  ASSUME ~LoseReplies, LedgerInv, NEW r \in Requests, CorrectOk(r)
  PROVE  Account!Settle(RowOf(r))
<1>0. PICK i \in Ids : i = RowOf(r)
  BY RowOfIsId DEF LedgerInv, TypeInv
<1>1. /\ i \in Ids /\ i[1] = r /\ row[i] = "open" /\ amount[i] = reserved[r]
      /\ Owed(r) \in LedgerCharges
  <2>1. r \in Live
    BY DEF CorrectOk, Live
  <2>2. i \in Ids /\ i[1] = r
    BY <1>0 DEF RowOf
  <2>3. row[i] = "open"
    BY <1>0, <2>1 DEF LedgerInv, RowsMatchRequests
  <2>4. amount[i] = reserved[r]
    BY <2>2, <2>3 DEF LedgerInv, RowsMatchRequests
  <2>5. QED
    BY <2>2, <2>3, <2>4, OwedIsCharge
<1>2. /\ used' = used + (Owed(r) - reserved[r])
      /\ row' = [row EXCEPT ![i] = "closed"]
      /\ UNCHANGED <<amount, outcome, reserved>>
  BY <1>0, <1>1 DEF CorrectOk, ApplyCorrection, Delta
<1>3. Acct' = [Acct EXCEPT ![i] = [state |-> "settled", charge |-> Owed(r)]]
  <2>1. ASSUME NEW j \in Ids PROVE Owed(j[1])' = Owed(j[1])
    BY <1>2 DEF Owed
  <2>2. \A j \in Ids \ {i} : row'[j] = row[j] /\ amount'[j] = amount[j]
    BY <1>1, <1>2 DEF LedgerInv, TypeInv, TypeOK
  <2>3. row'[i] = "closed"
    BY <1>1, <1>2 DEF LedgerInv, TypeInv, TypeOK
  <2>4. Owed(i[1])' = Owed(r)
    BY <1>1, <2>1
  <2>5. AcctState(i)' = "settled" /\ AcctCharge(i)' = Owed(r)
    BY <2>3, <2>4 DEF AcctState, AcctCharge
  <2>6. QED
    BY <1>1, <2>1, <2>2, <2>5, AcctChange
<1>4. Acct[i].state = "held" /\ Acct[i].charge = reserved[r]
  BY <1>1, AcctEntry
<1>5. used' = used - Acct[i].charge + Owed(r)
  BY <1>2, <1>4, OwedIsNat DEF LedgerInv, TypeInv, TypeOK
<1>6. QED
  BY <1>0, <1>1, <1>3, <1>4, <1>5 DEF Account!Settle

\* What a sweep claims is forfeit.
LEMMA ClaimIsForfeit ==
  ASSUME LedgerInv, NEW p \in Procs, SweepClaim(p)
  PROVE  Account!Forfeit(Stale)
<1>1. \A i \in Stale : i \in Ids /\ row[i] = "open"
  BY DEF Stale
<1>2. /\ row' = [i \in Ids |-> IF i \in Stale THEN "swept" ELSE row[i]]
      /\ UNCHANGED <<used, amount, outcome, reserved>>
  BY DEF SweepClaim, reqVars
<1>3. ASSUME NEW i \in Ids PROVE Owed(i[1])' = Owed(i[1])
  BY <1>2 DEF Owed
<1>4. ASSUME NEW i \in Stale
      PROVE  /\ AcctState(i)' = "forfeit" /\ AcctCharge(i)' = AcctCharge(i)
             /\ AcctState(i) = "held"
  <2>1. row'[i] = "swept" /\ amount'[i] = amount[i] /\ row[i] = "open" /\ i \in Ids
    BY <1>1, <1>2
  <2>2. AcctState(i)' = "forfeit" /\ AcctCharge(i)' = amount[i]
    BY <2>1 DEF AcctState, AcctCharge
  <2>3. QED
    BY <2>1, <2>2, AcctEntry
<1>5. ASSUME NEW i \in Ids \ Stale
      PROVE  AcctState(i)' = AcctState(i) /\ AcctCharge(i)' = AcctCharge(i)
  BY <1>2, <1>3, AcctSame
<1>6. Acct' = [i \in Ids |-> IF i \in Stale THEN [Acct[i] EXCEPT !.state = "forfeit"]
                                            ELSE Acct[i]]
  <2>1. ASSUME NEW i \in Stale
        PROVE  [Acct[i] EXCEPT !.state = "forfeit"]
                 = [state |-> "forfeit", charge |-> AcctCharge(i)]
    BY <1>1 DEF Acct
  <2>2. QED
    BY <1>1, <1>4, <1>5, <2>1 DEF Acct
<1>7. \A i \in Stale : Acct[i].state = "held"
  BY <1>1, <1>4, AcctEntry
<1>8. QED
  BY <1>2, <1>6, <1>7 DEF Account!Forfeit

\* A request's outcome is written while its row is open, its reservation while
\* it has no row: neither disturbs an entry that was settled.
LEMMA QuietSteps ==
  ASSUME ~LoseReplies, LedgerInv,
         UNCHANGED <<row, amount>>,
         NEW r \in Requests, pc[r] # "done",
         \A q \in Requests \ {r} : outcome'[q] = outcome[q] /\ reserved'[q] = reserved[q]
  PROVE  Acct' = Acct
<1>1. ASSUME NEW j \in Ids, row[j] = "closed" PROVE Owed(j[1])' = Owed(j[1])
  <2>1. j[1] \in Requests /\ j[1] # r
    BY <1>1 DEF LedgerInv, RowsMatchRequests, Ids
  <2>2. QED
    BY <2>1 DEF Owed
<1>2. QED
  BY <1>1, AcctFrame

\* Every step of the ledger is a step of the account, or leaves it alone.
LEMMA RefinementStep ==
  ASSUME ~LoseReplies, LedgerInv, [Next]_vars
  PROVE  Account!Next \/ UNCHANGED <<used, Acct>>
<1>1. ASSUME NEW r \in Requests, ReserveGranted(r) PROVE Account!Next
  BY <1>1, GrantIsHold, RowOfIsId DEF Account!Next, LedgerInv, TypeInv
<1>2. ASSUME NEW r \in Requests, CorrectOk(r) PROVE Account!Next
  BY <1>2, CorrectionIsSettlement, RowOfIsId DEF Account!Next, LedgerInv, TypeInv
<1>3. ASSUME NEW p \in Procs, SweepClaim(p) PROVE Account!Next
  <2>1. Stale \in SUBSET Ids
    BY DEF Stale
  <2>2. QED
    BY <1>3, <2>1, ClaimIsForfeit DEF Account!Next
<1>4. ASSUME NEW r \in Requests, NEW p \in Procs, NEW n \in Sizes, Arrive(r, p, n)
      PROVE  UNCHANGED <<used, Acct>>
  <2>1. /\ pc[r] # "done" /\ UNCHANGED <<used, row, amount, outcome>>
        /\ \A q \in Requests \ {r} : reserved'[q] = reserved[q]
    BY <1>4 DEF Arrive, dbVars, LedgerInv, TypeInv, TypeOK
  <2>2. QED
    BY <2>1, QuietSteps
<1>5. ASSUME NEW r \in Requests, ReadHeadroom(r) PROVE UNCHANGED <<used, Acct>>
  <2>1. /\ pc[r] # "done" /\ UNCHANGED <<used, row, amount, outcome>>
        /\ \A q \in Requests \ {r} : reserved'[q] = reserved[q]
    BY <1>5, TailTurn DEF LedgerInv, TypeInv, TypeOK
  <2>2. QED
    BY <2>1, QuietSteps
<1>6. ASSUME NEW r \in Requests, Finish(r) PROVE UNCHANGED <<used, Acct>>
  <2>1. /\ pc[r] # "done" /\ UNCHANGED <<used, row, amount, reserved>>
        /\ \A q \in Requests \ {r} : outcome'[q] = outcome[q]
    BY <1>6 DEF Finish, dbVars, LedgerInv, TypeInv, TypeOK
  <2>2. QED
    BY <2>1, QuietSteps
<1>7. ASSUME NEW r \in Requests,
             ReserveRefused(r) \/ HeadroomFailed(r) \/ CorrectFailed(r) \/ CorrectRefused(r)
      PROVE  UNCHANGED <<used, row, amount, outcome, reserved>>
  BY <1>7 DEF ReserveRefused, HeadroomFailed, CorrectFailed, CorrectRefused, dbVars
<1>8. ASSUME NEW p \in Procs,
             \/ SweepReport(p) \/ SweepReplyLost(p) \/ Crash(p) \/ BeginDrain(p)
             \/ CloseListener(p) \/ Leave(p) \/ Restart(p)
      PROVE  UNCHANGED <<used, row, amount, outcome, reserved>>
  BY <1>8 DEF SweepReport, SweepReplyLost, Crash, BeginDrain, CloseListener, Leave,
              ExitClean, DrainDeadline, Restart, GoDown, dbVars, reqVars
<1>9. ASSUME Tick \/ UNCHANGED vars
      PROVE  UNCHANGED <<used, row, amount, outcome, reserved>>
  BY <1>9 DEF Tick, vars, dbVars, reqVars
<1>10. ASSUME UNCHANGED <<used, row, amount, outcome, reserved>>
       PROVE  UNCHANGED <<used, Acct>>
  <2>1. \A j \in Ids : Owed(j[1])' = Owed(j[1])
    BY <1>10 DEF Owed
  <2>2. QED
    BY <1>10, <2>1, AcctFrame
<1>11. ASSUME NEW r \in Requests
       PROVE  ~ReserveAbandoned(r) /\ ~CorrectAbandoned(r) /\ ~LateCorrection(r)
  BY RowOfIsId
  DEF ReserveAbandoned, CorrectAbandoned, LateCorrection, LedgerInv, TypeInv, RowsMatchRequests
<1>12. ASSUME NEW i \in Ids PROVE ~LateReserve(i)
  BY DEF LateReserve, LedgerInv, RowsMatchRequests
<1>13. QED
  BY <1>1, <1>2, <1>3, <1>4, <1>5, <1>6, <1>7, <1>8, <1>9, <1>10, <1>11, <1>12
  DEF Next, Request, Reserving, Correcting, Process

\* While no call outlives its caller, the money path keeps the account's
\* promise: admissions under the limit, each reservation settled once and at
\* what was owed, stranded ones kept at what was held.
THEOREM LedgerImplementsAccount == ASSUME ~LoseReplies PROVE Spec => ImplementsAccount
<1>1. Init => Account!Init
  <2> SUFFICES ASSUME Init PROVE Account!Init
    OBVIOUS
  <2>2. ASSUME NEW i \in Ids PROVE AcctState(i) = "none" /\ AcctCharge(i) = 0
    <3>1. row[i] = "none"
      BY DEF Init
    <3>2. QED
      BY <3>1 DEF AcctState, AcctCharge
  <2>3. Acct = [i \in Ids |-> Account!Unopened]
    BY <2>2 DEF Acct, Account!Unopened
  <2>4. QED
    BY <2>3 DEF Init, Account!Init
<1>2. LedgerInv /\ [Next]_vars => [Account!Next]_<<used, Acct>>
  BY RefinementStep
<1>3. QED
  BY <1>1, <1>2, LedgerInvariant, PTL DEF Spec, ImplementsAccount, Account!Spec

-----------------------------------------------------------------------------
\* The quota is passed by top-ups only.

LEMMA IdsAreFinite == ASSUME IsFiniteSet(Requests) PROVE IsFiniteSet(Ids)
<1>1. IsFiniteSet({1, 2})
  <2>1. IsFiniteSet({1}) /\ {1, 2} = {1} \cup {2}
    BY FS_Singleton
  <2>. QED  BY <2>1, FS_AddElement
<1>2. IsFiniteSet(Requests \X {1, 2})
  BY <1>1, FS_Product, Zenon
<1>. QED  BY <1>2 DEF Ids

LEMMA TopUpsAreNats == ASSUME TypeInv PROVE TopUps \in [Ids -> Nat]
<1>1. ASSUME NEW i \in Ids
      PROVE  TopUp(i) \in Nat
  <2>1. i[1] \in Requests /\ amount[i] \in Nat
    BY DEF Ids, TypeInv, TypeOK
  <2>2. Owed(i[1]) \in Nat
    BY <2>1, OwedIsNat DEF TypeInv
  <2>. QED  BY <2>1, <2>2 DEF TopUp
<1>. QED  BY <1>1 DEF TopUps

\* The top-up of a row that did not change, and neither did what it was settled at.
LEMMA TopUpSame ==
  ASSUME NEW i \in Ids, row'[i] = row[i], amount'[i] = amount[i],
         row[i] = "closed" => Owed(i[1])' = Owed(i[1])
  PROVE  TopUp(i)' = TopUp(i)
<1>1. CASE row[i] = "closed"
  BY <1>1 DEF TopUp
<1>2. CASE row[i] # "closed"
  BY <1>2 DEF TopUp
<1>. QED  BY <1>1, <1>2

\* A step that changes no row, and nothing of a request that is done, changes no top-up.
LEMMA TopUpsFrame ==
  ASSUME LedgerInv, ~LoseReplies, UNCHANGED <<row, amount>>,
         \A r \in Requests : pc[r] = "done" => outcome'[r] = outcome[r] /\ reserved'[r] = reserved[r]
  PROVE  TopUps' = TopUps
<1>1. ASSUME NEW i \in Ids
      PROVE  TopUp(i)' = TopUp(i)
  <2>1. row[i] = "closed" => pc[i[1]] = "done" /\ i[1] \in Requests
    BY DEF LedgerInv, RowsMatchRequests, Ids
  <2>2. row[i] = "closed" => Owed(i[1])' = Owed(i[1])
    BY <2>1 DEF Owed
  <2>. QED  BY <2>2, TopUpSame
<1>. QED  BY <1>1 DEF TopUps

\* A correction tops its row up by what it adds to tokens_used, or adds nothing.
LEMMA CorrectionIsTopUp ==
  ASSUME LedgerInv, ~LoseReplies, IsFiniteSet(Requests), OverdraftIsTopUp,
         NEW r \in Requests, CorrectOk(r)
  PROVE  OverdraftIsTopUp'
<1>0. PICK i \in Ids : i = RowOf(r)
  BY RowOfIsId DEF LedgerInv, TypeInv
<1>1. i[1] = r /\ row[i] = "open" /\ amount[i] = reserved[r]
  <2>1. r \in Live
    BY DEF CorrectOk, Live
  <2>2. i[1] = r
    BY <1>0 DEF RowOf
  <2>3. row[i] = "open"
    BY <1>0, <2>1 DEF LedgerInv, RowsMatchRequests
  <2>. QED  BY <2>2, <2>3 DEF LedgerInv, RowsMatchRequests
<1>2. /\ used' = used + (Owed(r) - reserved[r])
      /\ row' = [row EXCEPT ![i] = "closed"]
      /\ UNCHANGED <<amount, outcome, reserved>>
  BY <1>0, <1>1 DEF CorrectOk, ApplyCorrection, Delta
<1>3. \A j \in Ids : Owed(j[1])' = Owed(j[1])
  BY <1>2 DEF Owed
<1>4. \A j \in Ids \ {i} : TopUps'[j] = TopUps[j]
  <2>1. \A j \in Ids \ {i} : row'[j] = row[j] /\ amount'[j] = amount[j]
    BY <1>2 DEF LedgerInv, TypeInv, TypeOK
  <2>2. \A j \in Ids \ {i} : TopUp(j)' = TopUp(j)
    BY <1>3, <2>1, TopUpSame
  <2>. QED  BY <2>2 DEF TopUps
<1>5. TopUps[i] = 0 /\ TopUps'[i] = IF Owed(r) > reserved[r] THEN Owed(r) - reserved[r] ELSE 0
  <2>1. row'[i] = "closed" /\ amount'[i] = reserved[r] /\ Owed(i[1])' = Owed(r)
    BY <1>1, <1>2, <1>3 DEF LedgerInv, TypeInv, TypeOK
  <2>. QED  BY <1>1, <2>1 DEF TopUps, TopUp
<1>6. TopUps \in [Ids -> Int] /\ TopUps' \in [Ids -> Int] /\ IsFiniteSet(Ids)
  <2>1. TypeInv /\ TypeInv'
    BY TypeStep DEF LedgerInv, Next, Request, Correcting
  <2>2. TopUps \in [Ids -> Nat]
    BY <2>1, TopUpsAreNats
  <2>3. ASSUME NEW j \in Ids
        PROVE  TopUps'[j] \in Int
    <3>1. Owed(r) \in Int /\ reserved[r] \in Int
      BY <2>1, OwedIsNat DEF TypeInv, TypeOK
    <3>2. TopUps[j] \in Int
      BY <2>2
    <3>. QED  BY <1>4, <1>5, <3>1, <3>2
  <2>4. TopUps' = [j \in Ids |-> TopUps'[j]]
    BY DEF TopUps
  <2>. QED  BY <2>2, <2>3, <2>4, IdsAreFinite
<1>7. /\ SumFunction(TopUps) \in Int
      /\ SumFunction(TopUps') = SumFunction(TopUps) + (TopUps'[i] - TopUps[i])
  BY <1>4, <1>6, SumChanges
<1>8. SumFunction(TopUps)' = SumFunction(TopUps')
  OBVIOUS
<1>9. used \in Int /\ Owed(r) \in Int /\ reserved[r] \in Int /\ Limit \in Int
  BY OwedIsNat DEF LedgerInv, TypeInv, TypeOK
<1>10. used' <= Limit + SumFunction(TopUps')
  BY <1>2, <1>5, <1>7, <1>9 DEF OverdraftIsTopUp
<1>. QED  BY <1>8, <1>10 DEF OverdraftIsTopUp

\* Before anything happened, and after a reservation, the quota is not passed at all.
LEMMA UnderLimit ==
  TypeInv /\ IsFiniteSet(Requests) /\ used <= Limit => OverdraftIsTopUp
<1>. SUFFICES ASSUME TypeInv, IsFiniteSet(Requests), used <= Limit
              PROVE  OverdraftIsTopUp
  OBVIOUS
<1>1. SumFunction(TopUps) \in Nat
  BY TopUpsAreNats, IdsAreFinite, SumIsNat
<1>2. used \in Int /\ Limit \in Int
  BY LimitAssumption DEF TypeInv, TypeOK
<1>. QED  BY <1>1, <1>2 DEF OverdraftIsTopUp

LEMMA UnderLimitNext ==
  TypeInv' /\ IsFiniteSet(Requests) /\ used' <= Limit => OverdraftIsTopUp'
<1>1. (TypeInv /\ IsFiniteSet(Requests) /\ used <= Limit => OverdraftIsTopUp)'
  BY UnderLimit, PTL
<1>. QED  BY <1>1

\* A step that changes neither tokens_used nor a top-up keeps the bound.
LEMMA OverdraftFrame ==
  ASSUME OverdraftIsTopUp, used' = used, TopUps' = TopUps
  PROVE  OverdraftIsTopUp'
<1>1. SumFunction(TopUps)' = SumFunction(TopUps)
  OBVIOUS
<1>. QED  BY <1>1 DEF OverdraftIsTopUp

\* A claimed row's request is still without a top-up: the row was open.
LEMMA ClaimTopsNothingUp ==
  ASSUME LedgerInv, NEW p \in Procs, SweepClaim(p)
  PROVE  used' = used /\ TopUps' = TopUps
<1>1. UNCHANGED <<used, amount, outcome, reserved>>
  BY DEF SweepClaim, reqVars
<1>2. ASSUME NEW i \in Ids
      PROVE  TopUp(i)' = TopUp(i)
  <2>1. Owed(i[1])' = Owed(i[1])
    BY <1>1 DEF Owed
  <2>2. CASE i \in Stale
    <3>1. row[i] = "open" /\ row'[i] = "swept"
      BY <2>2 DEF SweepClaim, Stale
    <3>. QED  BY <3>1 DEF TopUp
  <2>3. CASE i \notin Stale
    <3>1. row'[i] = row[i]
      BY <2>3 DEF SweepClaim
    <3>. QED  BY <1>1, <2>1, <3>1, TopUpSame
  <2>. QED  BY <2>2, <2>3
<1>. QED  BY <1>1, <1>2 DEF TopUps

LEMMA OverdraftStep ==
  ASSUME ~LoseReplies, IsFiniteSet(Requests), LedgerInv, OverdraftIsTopUp, [Next]_vars
  PROVE  OverdraftIsTopUp'
<1>1. ASSUME NEW r \in Requests, ReserveGranted(r)
      PROVE  OverdraftIsTopUp'
  <2>1. TypeInv'
    BY LedgerInvStep DEF LedgerInv
  <2>2. used' <= Limit
    BY <1>1 DEF ReserveGranted, OpenRow, QuotaAllows
  <2>. QED  BY <2>1, <2>2, UnderLimitNext
<1>2. ASSUME NEW r \in Requests, CorrectOk(r)
      PROVE  OverdraftIsTopUp'
  BY <1>2, CorrectionIsTopUp
<1>3. ASSUME NEW p \in Procs, SweepClaim(p)
      PROVE  OverdraftIsTopUp'
  BY <1>3, ClaimTopsNothingUp, OverdraftFrame
<1>4. ASSUME UNCHANGED <<used, row, amount>>,
             \A r \in Requests : pc[r] = "done" => /\ outcome'[r] = outcome[r]
                                                   /\ reserved'[r] = reserved[r]
      PROVE  OverdraftIsTopUp'
  BY <1>4, TopUpsFrame, OverdraftFrame
<1>5. ASSUME NEW r \in Requests, NEW p \in Procs, NEW n \in Sizes, Arrive(r, p, n)
      PROVE  OverdraftIsTopUp'
  <2>1. /\ pc[r] # "done" /\ UNCHANGED <<used, row, amount, outcome>>
        /\ \A q \in Requests \ {r} : reserved'[q] = reserved[q]
    BY <1>5 DEF Arrive, dbVars, LedgerInv, TypeInv, TypeOK
  <2>. QED  BY <1>4, <2>1
<1>6. ASSUME NEW r \in Requests, ReadHeadroom(r)
      PROVE  OverdraftIsTopUp'
  <2>1. /\ pc[r] # "done" /\ UNCHANGED <<used, row, amount, outcome>>
        /\ \A q \in Requests \ {r} : reserved'[q] = reserved[q]
    BY <1>6, TailTurn DEF LedgerInv, TypeInv, TypeOK
  <2>. QED  BY <1>4, <2>1
<1>7. ASSUME NEW r \in Requests, Finish(r)
      PROVE  OverdraftIsTopUp'
  <2>1. /\ pc[r] # "done" /\ UNCHANGED <<used, row, amount, reserved>>
        /\ \A q \in Requests \ {r} : outcome'[q] = outcome[q]
    BY <1>7 DEF Finish, dbVars, LedgerInv, TypeInv, TypeOK
  <2>. QED  BY <1>4, <2>1
<1>8. ASSUME UNCHANGED <<used, row, amount, outcome, reserved>>
      PROVE  OverdraftIsTopUp'
  BY <1>4, <1>8
<1>9. ASSUME NEW r \in Requests,
             ReserveRefused(r) \/ HeadroomFailed(r) \/ CorrectFailed(r) \/ CorrectRefused(r)
      PROVE  OverdraftIsTopUp'
  <2>1. UNCHANGED <<used, row, amount, outcome, reserved>>
    BY <1>9 DEF ReserveRefused, HeadroomFailed, CorrectFailed, CorrectRefused, dbVars
  <2>. QED  BY <1>8, <2>1
<1>10. ASSUME NEW p \in Procs,
              \/ SweepReport(p) \/ SweepReplyLost(p) \/ Crash(p) \/ BeginDrain(p)
              \/ CloseListener(p) \/ Leave(p) \/ Restart(p)
       PROVE  OverdraftIsTopUp'
  <2>1. UNCHANGED <<used, row, amount, outcome, reserved>>
    BY <1>10 DEF SweepReport, SweepReplyLost, Crash, BeginDrain, CloseListener, Leave,
                 ExitClean, DrainDeadline, Restart, GoDown, dbVars, reqVars
  <2>. QED  BY <1>8, <2>1
<1>11. ASSUME Tick \/ UNCHANGED vars
       PROVE  OverdraftIsTopUp'
  <2>1. UNCHANGED <<used, row, amount, outcome, reserved>>
    BY <1>11 DEF Tick, vars, dbVars, reqVars
  <2>. QED  BY <1>8, <2>1
<1>12. ASSUME NEW r \in Requests
       PROVE  ~ReserveAbandoned(r) /\ ~CorrectAbandoned(r) /\ ~LateCorrection(r)
  BY RowOfIsId
  DEF ReserveAbandoned, CorrectAbandoned, LateCorrection, LedgerInv, TypeInv, RowsMatchRequests
<1>13. ASSUME NEW i \in Ids
       PROVE  ~LateReserve(i)
  BY DEF LateReserve, LedgerInv, RowsMatchRequests
<1>. QED
  BY <1>1, <1>2, <1>3, <1>5, <1>6, <1>7, <1>9, <1>10, <1>11, <1>12, <1>13
  DEF Next, Request, Reserving, Correcting, Process

\* While no call outlives its caller, tokens_used passes token_limit only by what
\* finished requests consumed beyond their reservations, however many requests and
\* processes interleave: reserve_usage checks, tail retries re-read the headroom, and
\* apply_correction adjusts.
THEOREM OverdraftIsToppedUp ==
  ASSUME ~LoseReplies, IsFiniteSet(Requests)
  PROVE  Spec => []OverdraftIsTopUp
<1>1. Init => OverdraftIsTopUp
  <2>1. Init => TypeInv /\ used <= Limit
    BY TypeInit, LimitAssumption DEF Init
  <2>. QED  BY <2>1, UnderLimit
<1>2. LedgerInv /\ OverdraftIsTopUp /\ [Next]_vars => OverdraftIsTopUp'
  BY OverdraftStep
<1>. QED  BY <1>1, <1>2, LedgerInvariant, PTL DEF Spec
=============================================================================
