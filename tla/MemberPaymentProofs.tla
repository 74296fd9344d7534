------------------------ MODULE MemberPaymentProofs ------------------------
(***************************************************************************)
(* What holds of MemberPayment for any number of tabs, any set of fees, a  *)
(* Mirror Node that lags and an account lookup that may fail.              *)
(***************************************************************************)
EXTENDS MemberPayment, TLAPS

\* Whatever the page makes of an answer (markLocalPaid, markLocalRefunded, an error,
\* another attempt, nothing at all), its state stays in its types.
LEMMA ReceiveKeepsTypes ==
  ASSUME TypeOK, NEW t \in Tabs, NEW answer, Receive(t, answer)
  PROVE  /\ stored' \in SUBSET Job /\ pending' \in [Tabs -> SUBSET Job]
         /\ page' \in [Tabs -> {"closed", "overview", "sign", "sent", "confirm"}]
         /\ job' \in [Tabs -> Job] /\ view' \in [Tabs -> View] /\ amount' \in [Tabs -> Nat]
<1> USE DEF TypeOK, Receive
<1>1. CASE page[t] = "closed" /\ UNCHANGED <<page, stored, pending, view>>
  BY <1>1
<1>2. CASE GiveUp(t)
  BY <1>2 DEF GiveUp, Show
<1>3. CASE MarkLocal(t)
  <2>1. stored' \in SUBSET Job /\ pending' \in [Tabs -> SUBSET Job]
    BY <1>3 DEF MarkLocal
  <2>2. view' \in [Tabs -> View]
    BY <1>3 DEF MarkLocal, View, PaymentStatus
  <2> QED
    BY <1>3, <2>1, <2>2 DEF MarkLocal, Show
<1>4. CASE page[t] = "confirm" /\ UNCHANGED <<page, stored, pending, view>>
  BY <1>4
<1> QED
  BY <1>1, <1>2, <1>3, <1>4

\* The first page load and an empty escrow are of the types.
LEMMA InitIsTyped == Init => TypeOK
<1> SUFFICES ASSUME Init PROVE TypeOK
  OBVIOUS
<1>1. view \in [Tabs -> View]
  BY DEF Init, View, PaymentStatus
<1>2. /\ tx \in [Tabs -> Job \cup {"none"}] /\ job \in [Tabs -> Job]
      /\ stored \in SUBSET Job /\ pending \in [Tabs -> SUBSET Job]
  BY DEF Init, Job
<1>3. /\ page \in [Tabs -> {"closed", "overview", "sign", "sent", "confirm"}]
      /\ call \in [Tabs -> {"none", "mirror", "write"}]
  BY DEF Init
<1>4. amount \in [Tabs -> Nat] /\ feeRead \in [Tabs -> Nat]
  BY DEF Init
<1>6. commish \in [Tabs -> CommishStep]
  BY DEF Init, CommishStep
<1>5. slot \in Nat /\ mirror \in Nat /\ deposited \in Nat /\ slot <= deposited /\ agreed \in Nat
  BY DEF Init
<1> QED
  BY <1>1, <1>2, <1>3, <1>4, <1>5, <1>6 DEF Init, TypeOK, PaymentStatus

\* Every handler, page and chain step keeps the types, and the slot under what was
\* deposited.
LEMMA StepsKeepTypes == TypeOK /\ [Next]_payVars => TypeOK'
<1> SUFFICES ASSUME TypeOK, [Next]_payVars PROVE TypeOK'
  OBVIOUS
<1> USE DEF TypeOK, Show, Asks, dbVars, chainVars, tabVars, callVars, commishVars
<1>1. ASSUME NEW t \in Tabs, OpenPage(t) PROVE TypeOK'
  BY <1>1 DEF OpenPage, View
<1>2. ASSUME NEW t \in Tabs, ClosePage(t) PROVE TypeOK'
  BY <1>2 DEF ClosePage, CommishStep
<1>3. ASSUME NEW t \in Tabs, NEW j \in Job, Press(t, j) PROVE TypeOK'
  BY <1>3, FeesAssumption DEF Press
<1>4. ASSUME NEW t \in Tabs, Sign(t) PROVE TypeOK'
  BY <1>4 DEF Sign
<1>5. ASSUME NEW t \in Tabs, PersistPending(t) PROVE TypeOK'
  <2>1. forgotten' \in BOOLEAN
    BY <1>5 DEF PersistPending
  <2> QED
    BY <1>5, <2>1 DEF PersistPending
<1>6. ASSUME NEW t \in Tabs, NEW j \in Job, PressConfirmExisting(t, j) PROVE TypeOK'
  BY <1>6 DEF PressConfirmExisting
<1>7. ASSUME NEW t \in Tabs, DismissPendingRefund(t) PROVE TypeOK'
  BY <1>7 DEF DismissPendingRefund
<1>8. ASSUME NEW t \in Tabs, CallConfirm(t) PROVE TypeOK'
  <2>1. CASE RefusedAtOnce(job[t]) = "no"
    BY <1>8, <2>1, FeesAssumption DEF CallConfirm
  <2>2. CASE RefusedAtOnce(job[t]) # "no"
    <3>1. Receive(t, RefusedAtOnce(job[t])) /\ UNCHANGED <<dbVars, chainVars, callVars, commishVars>>
      BY <1>8, <2>2 DEF CallConfirm
    <3> QED
      BY <3>1, ReceiveKeepsTypes
  <2> QED
    BY <2>1, <2>2
<1>9. ASSUME NEW t \in Tabs, NEW outcome, ReadMirror(t, outcome) PROVE TypeOK'
  <2>1. CASE call' = [call EXCEPT ![t] = "write"] /\ UNCHANGED <<tabVars, feeRead>>
    BY <1>9, <2>1 DEF ReadMirror
  <2>2. ASSUME NEW answer, Receive(t, answer), EndCall(t) PROVE TypeOK'
    BY <1>9, <2>2, ReceiveKeepsTypes DEF ReadMirror, EndCall
  <2> QED
    BY <1>9, <2>1, <2>2 DEF ReadMirror
<1>10. ASSUME NEW t \in Tabs, NEW outcome, WriteStatus(t, outcome) PROVE TypeOK'
  <2>0. feeRead[t] \in Nat /\ agreed \in Nat /\ paymentStatus \in PaymentStatus
    BY FeesAssumption
  <2>a. /\ \/ paymentStatus' = paymentStatus /\ agreed' = agreed
           \/ paymentStatus' = "paid" /\ agreed' = feeRead[t]
           \/ paymentStatus' = "refunded" /\ agreed' = agreed
        /\ UNCHANGED <<cancelled, fee, reactivating, chainVars, commishVars>>
    BY <1>10, Zenon DEF WriteStatus
  <2>1. /\ paymentStatus' \in PaymentStatus /\ agreed' \in Nat
        /\ UNCHANGED <<cancelled, fee, reactivating, chainVars, commishVars>>
    BY <2>0, <2>a DEF PaymentStatus
  <2>2. PICK answer : Receive(t, answer) /\ EndCall(t)
    BY <1>10 DEF WriteStatus
  <2>3. call' \in [Tabs -> {"none", "mirror", "write"}] /\ feeRead' \in [Tabs -> Nat]
    BY <2>2 DEF EndCall
  <2> QED
    BY <2>1, <2>2, <2>3, ReceiveKeepsTypes
<1>a. ASSUME NEW from, NEW to \in CommishStep, ServedFor(from, to)
      PROVE  commish' \in [Tabs -> CommishStep]
  BY <1>a DEF ServedFor
<1>11. CASE CancelLeague \/ ReactivateLeague
  <2>1. commish' \in [Tabs -> CommishStep]
    BY <1>11, <1>a DEF CancelLeague, ReactivateLeague, CommishStep
  <2> QED
    BY <1>11, <2>1 DEF CancelLeague, ReactivateLeague
<1>12. ASSUME NEW outcome, ResetRefunded(outcome) PROVE TypeOK'
  <2>1. commish' \in [Tabs -> CommishStep] /\ crossed' \in BOOLEAN
    BY <1>12 DEF ResetRefunded, CommishStep, RefundUnderWay
  <2> QED
    BY <1>12, <2>1 DEF ResetRefunded, PaymentStatus
<1>17. ASSUME NEW t \in Tabs, PressCancel(t) \/ PressReactivate(t) PROVE TypeOK'
  BY <1>17 DEF PressCancel, PressReactivate, CommishStep
<1>18. ASSUME NEW t \in Tabs, CommishAnswers(t) PROVE TypeOK'
  <2>1. commish' \in [Tabs -> CommishStep]
    BY <1>18 DEF CommishAnswers, CommishStep
  <2>2. crossed' \in BOOLEAN
    BY <1>18 DEF CommishAnswers
  <2>3. view' \in [Tabs -> View]
    <3>1. view[t] \in View
      OBVIOUS
    <3>2. /\ [view[t] EXCEPT !.cancelled = TRUE] \in View
          /\ [cancelled |-> FALSE, status |-> IF view[t].status = "refunded" THEN "unpaid"
                                              ELSE view[t].status] \in View
      BY <3>1 DEF View, PaymentStatus
    <3> QED
      BY <1>18, <3>2 DEF CommishAnswers
  <2> QED
    BY <1>18, <2>1, <2>2, <2>3 DEF CommishAnswers
<1>13. CASE UpdateLeagueSettings
  BY <1>13 DEF UpdateLeagueSettings
<1>14. CASE MirrorCatchesUp
  BY <1>14 DEF MirrorCatchesUp
<1>15. ASSUME NEW t \in Tabs, Land(t) PROVE TypeOK'
  <2>1. amount[t] \in Nat
    BY FeesAssumption
  <2>2. slot' \in Nat /\ deposited' \in Nat /\ slot' <= deposited'
    BY <1>15, <2>1 DEF Land
  <2>3. tx' \in [Tabs -> Job \cup {"none"}]
    BY <1>15 DEF Land
  <2> QED
    BY <1>15, <2>2, <2>3 DEF Land
<1>16. CASE UNCHANGED payVars
  BY <1>16 DEF payVars
<1> QED
  BY <1>1, <1>2, <1>3, <1>4, <1>5, <1>6, <1>7, <1>8, <1>9, <1>10, <1>11, <1>12, <1>13, <1>14,
     <1>15, <1>16, <1>17, <1>18 DEF Next, TabStep

\* TypeOK: in particular the slot never holds more than the member deposited.
THEOREM TypeCorrect == Spec => []TypeOK
BY InitIsTyped, StepsKeepTypes, PTL DEF Spec

-----------------------------------------------------------------------------
(* The member's money.  PaidWasPaid is not inductive: between the look at the *)
(* slot and the UPDATE the fee may change, the slot may be emptied and other  *)
(* tabs may write, so what the handler saw has to be carried to its last step *)
(* as a fact about what was deposited, which nothing takes back.              *)

\* While a request is at the gateway its tab waits for the answer or is closed,
\* so that the job the request is for stays what it was.
TabWaits(t) == call[t] # "none" => page[t] \in {"confirm", "closed"}

\* A payment that passed the comparison had been deposited.
SeenIsDeposited(t) == call[t] = "write" /\ job[t] = "pay" => deposited >= feeRead[t]

PInv ==
  /\ TypeOK
  /\ mirror <= deposited /\ agreed <= deposited
  /\ \A t \in Tabs : TabWaits(t) /\ SeenIsDeposited(t)

\* An answer touches its own tab's page and no tab's job.
LEMMA ReceiveIsLocal ==
  ASSUME TypeOK, NEW t \in Tabs, NEW answer, Receive(t, answer)
  PROVE  job' = job /\ \A u \in Tabs \ {t} : page'[u] = page[u]
BY DEF Receive, GiveUp, MarkLocal, Show, TypeOK

\* What was deposited stays so, and covers the slot and what is seen of it.
LEMMA StepsKeepDeposits ==
  ASSUME PInv, TypeOK', [Next]_payVars
  PROVE  deposited <= deposited' /\ mirror' <= deposited'
<1> USE DEF PInv, TypeOK, dbVars, chainVars, tabVars, callVars
<1>1. ASSUME NEW t \in Tabs, Land(t) PROVE deposited <= deposited' /\ mirror' = mirror
  <2>1. amount[t] \in Nat
    BY FeesAssumption
  <2> QED
    BY <1>1, <2>1 DEF Land
<1>2. CASE MirrorCatchesUp
  BY <1>2 DEF MirrorCatchesUp
<1>3. ASSUME UNCHANGED <<mirror, deposited>> PROVE deposited <= deposited' /\ mirror' <= deposited'
  BY <1>3
<1>4. ASSUME NEW t \in Tabs, TabStep(t) \/ ClosePage(t) PROVE UNCHANGED <<mirror, deposited>>
  BY <1>4 DEF TabStep, ClosePage, OpenPage, Press, Sign, PersistPending, PressConfirmExisting,
     DismissPendingRefund, CallConfirm, ReadMirror, WriteStatus, PressCancel, PressReactivate,
     CommishAnswers
<1>5. ASSUME CancelLeague \/ ReactivateLeague \/ UpdateLeagueSettings
             \/ (\E outcome \in WriteOutcome : ResetRefunded(outcome)) \/ UNCHANGED payVars
      PROVE  UNCHANGED <<mirror, deposited>>
  BY <1>5 DEF CancelLeague, ReactivateLeague, UpdateLeagueSettings, ResetRefunded, payVars
<1>6. ASSUME NEW t \in Tabs, Land(t) PROVE deposited <= deposited' /\ mirror' <= deposited'
  BY <1>1, <1>6
<1> QED
  BY <1>2, <1>3, <1>4, <1>5, <1>6 DEF Next

\* No step changes the job of a request that is under way, and a request enters its
\* last stage only with a slot that was seen full.
LEMMA StepsKeepTabs ==
  ASSUME PInv, TypeOK', [Next]_payVars
  PROVE  \A t \in Tabs : TabWaits(t)' /\ SeenIsDeposited(t)'
<1> USE DEF TabWaits, SeenIsDeposited
<1>0. deposited <= deposited'
  BY StepsKeepDeposits
<1>a. FeesAssumption /\ TypeOK /\ deposited \in Nat /\ deposited' \in Nat /\ feeRead \in [Tabs -> Nat]
  BY FeesAssumption DEF PInv, TypeOK, FeesAssumption
<1>b. \A t \in Tabs : TabWaits(t) /\ SeenIsDeposited(t)
  BY DEF PInv
<1>1. ASSUME UNCHANGED <<page, job, call, feeRead>>
      PROVE  \A u \in Tabs : TabWaits(u)' /\ SeenIsDeposited(u)'
  BY <1>0, <1>a, <1>b, <1>1
<1>2. ASSUME NEW t \in Tabs, page[t] \notin {"confirm", "closed"} \/ call[t] = "none",
             \A u \in Tabs \ {t} : page'[u] = page[u] /\ job'[u] = job[u],
             UNCHANGED <<call, feeRead>>
      PROVE  \A u \in Tabs : TabWaits(u)' /\ SeenIsDeposited(u)'
  <2>1. call[t] = "none"
    BY <1>b, <1>2
  <2> QED
    BY <1>0, <1>a, <1>b, <1>2, <2>1
<1>3. ASSUME NEW t \in Tabs, call' = [call EXCEPT ![t] = "none"], feeRead' = [feeRead EXCEPT ![t] = 0],
             job' = job,
             \A u \in Tabs \ {t} : page'[u] = page[u]
      PROVE  \A u \in Tabs : TabWaits(u)' /\ SeenIsDeposited(u)'
  BY <1>0, <1>a, <1>b, <1>3 DEF TypeOK
<1>4. ASSUME NEW t \in Tabs, ClosePage(t)
      PROVE  \A u \in Tabs : TabWaits(u)' /\ SeenIsDeposited(u)'
  BY <1>0, <1>a, <1>b, <1>4 DEF ClosePage, Show, TypeOK, chainVars, callVars
<1>5. ASSUME NEW t \in Tabs, CallConfirm(t)
      PROVE  \A u \in Tabs : TabWaits(u)' /\ SeenIsDeposited(u)'
  <2>1. CASE RefusedAtOnce(job[t]) = "no"
    BY <1>0, <1>a, <1>b, <1>5, <2>1 DEF CallConfirm, TypeOK, tabVars
  <2>2. CASE RefusedAtOnce(job[t]) # "no"
    <3>1. Receive(t, RefusedAtOnce(job[t])) /\ UNCHANGED <<call, feeRead>> /\ call[t] = "none"
      BY <1>5, <2>2 DEF CallConfirm, callVars
    <3> QED
      BY <1>a, <1>2, <3>1, ReceiveIsLocal
  <2> QED
    BY <2>1, <2>2
<1>6. ASSUME NEW t \in Tabs, NEW outcome, ReadMirror(t, outcome)
      PROVE  \A u \in Tabs : TabWaits(u)' /\ SeenIsDeposited(u)'
  <2>1. ASSUME NEW answer, Receive(t, answer), EndCall(t)
        PROVE  \A u \in Tabs : TabWaits(u)' /\ SeenIsDeposited(u)'
    BY <1>3, <1>a, <2>1, ReceiveIsLocal DEF EndCall
  <2>2. ASSUME NEW read \in SlotRead, Verified(job[t], feeRead[t], read), call[t] = "mirror",
               call' = [call EXCEPT ![t] = "write"], UNCHANGED <<tabVars, feeRead>>
        PROVE  \A u \in Tabs : TabWaits(u)' /\ SeenIsDeposited(u)'
    <3>1. read \in Nat /\ read <= deposited
      BY <2>2 DEF SlotRead, PInv, TypeOK
    <3>2. job[t] = "pay" => deposited >= feeRead[t]
      BY <1>a, <2>2, <3>1 DEF Verified
    <3> QED
      BY <1>0, <1>a, <1>b, <2>2, <3>2 DEF TypeOK, tabVars
  <2> QED
    BY <1>6, <2>1, <2>2 DEF ReadMirror
<1>7. ASSUME NEW t \in Tabs, NEW outcome, WriteStatus(t, outcome)
      PROVE  \A u \in Tabs : TabWaits(u)' /\ SeenIsDeposited(u)'
  <2>1. PICK answer : Receive(t, answer) /\ EndCall(t)
    BY <1>7 DEF WriteStatus
  <2> QED
    BY <1>3, <1>a, <2>1, ReceiveIsLocal DEF EndCall
<1>8. ASSUME NEW t \in Tabs, OpenPage(t) \/ Sign(t) \/ PersistPending(t)
             \/ \E j \in Job : Press(t, j) \/ PressConfirmExisting(t, j)
      PROVE  \A u \in Tabs : TabWaits(u)' /\ SeenIsDeposited(u)'
  <2>1. /\ page[t] \notin {"confirm", "closed"} \/ call[t] = "none"
        /\ \A u \in Tabs \ {t} : page'[u] = page[u] /\ job'[u] = job[u]
        /\ UNCHANGED <<call, feeRead>>
    BY <1>8, <1>a DEF OpenPage, Sign, PersistPending, Press, PressConfirmExisting, Offers, Show,
       TypeOK, callVars
  <2> QED
    BY <1>2, <2>1
<1>9. ASSUME CancelLeague \/ ReactivateLeague \/ UpdateLeagueSettings \/ MirrorCatchesUp
             \/ (\E outcome \in WriteOutcome : ResetRefunded(outcome)) \/ UNCHANGED payVars
             \/ \E t \in Tabs : Land(t) \/ DismissPendingRefund(t) \/ PressCancel(t)
                               \/ PressReactivate(t) \/ CommishAnswers(t)
      PROVE  UNCHANGED <<page, job, call, feeRead>>
  BY <1>9 DEF CancelLeague, ReactivateLeague, UpdateLeagueSettings, MirrorCatchesUp, ResetRefunded,
     Land, DismissPendingRefund, PressCancel, PressReactivate, CommishAnswers, payVars, tabVars,
     callVars
<1> QED
  BY <1>1, <1>4, <1>5, <1>6, <1>7, <1>8, <1>9 DEF Next, TabStep

\* What the panel and the handlers keep of the member's deposits, through every
\* step of every tab.
LEMMA PInvHolds == Spec => []PInv
<1>1. Init => PInv
  <2>1. Init => TypeOK
    BY InitIsTyped
  <2> QED
    BY <2>1 DEF Init, PInv, TabWaits, SeenIsDeposited
<1>2. PInv /\ [Next]_payVars => PInv'
  <2> SUFFICES ASSUME PInv, [Next]_payVars PROVE PInv'
    OBVIOUS
  <2>1. TypeOK'
    BY StepsKeepTypes DEF PInv
  <2>2. deposited <= deposited' /\ mirror' <= deposited'
    BY <2>1, StepsKeepDeposits
  <2>3. \A t \in Tabs : TabWaits(t)' /\ SeenIsDeposited(t)'
    BY <2>1, StepsKeepTabs
  <2>4. agreed' <= deposited'
    <3>1. agreed' = agreed \/ \E t \in Tabs : \E outcome \in WriteOutcome : WriteStatus(t, outcome)
      BY DEF Next, TabStep, payVars, dbVars, CancelLeague, ReactivateLeague, UpdateLeagueSettings,
         ResetRefunded, MirrorCatchesUp, Land, ClosePage, OpenPage, Press, Sign, PersistPending,
         PressConfirmExisting, DismissPendingRefund, CallConfirm, ReadMirror, PressCancel,
         PressReactivate, CommishAnswers
    <3>2. agreed <= deposited /\ agreed \in Nat /\ deposited \in Nat /\ deposited' \in Nat
      BY <2>1 DEF PInv, TypeOK
    <3>3. ASSUME NEW t \in Tabs, NEW outcome, WriteStatus(t, outcome) PROVE agreed' <= deposited
      <4>1. job[t] = "pay" => feeRead[t] <= deposited
        BY <3>3, FeesAssumption DEF PInv, TypeOK, SeenIsDeposited, WriteStatus, FeesAssumption
      <4> QED
        BY <3>2, <3>3, <4>1 DEF WriteStatus
    <3>4. agreed' <= deposited /\ agreed' \in Nat
      BY <2>1, <3>1, <3>2, <3>3 DEF TypeOK
    <3> QED
      BY <2>2, <3>2, <3>4
  <2> QED
    BY <2>1, <2>2, <2>3, <2>4 DEF PInv
<1> QED
  BY <1>1, <1>2, PTL DEF Spec

\* PaidWasPaid: whatever the tabs, the lag, a failing lookup and the commissioner
\* do, ConfirmPayment and ConfirmRefund leave no member on record who had not
\* deposited the fee the record was checked against.
THEOREM NobodyIsPaidForNothing == Spec => []PaidWasPaid
<1>1. PInv => PaidWasPaid
  BY DEF PInv, PaidWasPaid, TypeOK
<1> QED
  BY <1>1, PInvHolds, PTL

-----------------------------------------------------------------------------
(* A refunded member and a league that goes on.  The record is written after *)
(* the league was read, so what ConfirmRefund read has to be carried to its  *)
(* UPDATE: the league was cancelled then, and a reactivation since then has  *)
(* either not come to its reset or has left its mark.                        *)

\* Whoever confirms a refund found the league cancelled.
RefundHasReason(t) ==
  call[t] # "none" /\ job[t] = "refund" => cancelled \/ reactivating \/ crossed

\* NobodyIsStuckRefunded: ReactivateLeague clears the cancellation before it resets
\* the members, so a refund is confirmed before the reset, or crosses it, or is refused.
THEOREM RefundedMayPayAgain == Spec => []NobodyIsStuckRefunded
<1> DEFINE RInv == NobodyIsStuckRefunded /\ \A t \in Tabs : RefundHasReason(t)
<1>1. Init => RInv
  BY DEF Init, NobodyIsStuckRefunded, RefundHasReason
<1>2. PInv /\ RInv /\ [Next]_payVars => RInv'
  <2> SUFFICES ASSUME PInv, RInv, [Next]_payVars PROVE RInv'
    OBVIOUS
  <2> USE DEF NobodyIsStuckRefunded, RefundHasReason
  <2>t. TypeOK /\ \A t \in Tabs : TabWaits(t)
    BY DEF PInv
  <2>1. ASSUME UNCHANGED <<paymentStatus, cancelled, reactivating, call, job>>,
               crossed => crossed'
        PROVE  RInv'
    BY <2>1
  <2>2. ASSUME NEW t \in Tabs,
               OpenPage(t) \/ Sign(t) \/ PersistPending(t) \/ DismissPendingRefund(t)
               \/ ClosePage(t) \/ Land(t) \/ PressCancel(t) \/ PressReactivate(t)
        PROVE  RInv'
    BY <2>1, <2>2 DEF OpenPage, Sign, PersistPending, DismissPendingRefund, ClosePage, Land,
       PressCancel, PressReactivate, dbVars, tabVars, callVars, commishVars
  <2>3. ASSUME NEW t \in Tabs, CommishAnswers(t) PROVE RInv'
    BY <2>1, <2>3 DEF CommishAnswers, dbVars, callVars
  <2>4. ASSUME NEW t \in Tabs, NEW j \in Job, Press(t, j) \/ PressConfirmExisting(t, j)
        PROVE  RInv'
    <3>1. call[t] = "none"
      BY <2>4, <2>t DEF Press, PressConfirmExisting, Offers, TabWaits
    <3>2. /\ UNCHANGED <<paymentStatus, cancelled, reactivating, crossed, call>>
          /\ \A u \in Tabs \ {t} : job'[u] = job[u]
      BY <2>4, <2>t DEF Press, PressConfirmExisting, TypeOK, dbVars, callVars, commishVars
    <3> QED
      BY <3>1, <3>2
  <2>5. ASSUME NEW t \in Tabs, NEW answer, Receive(t, answer),
               UNCHANGED <<dbVars, crossed>>, call' = call \/ EndCall(t)
        PROVE  RInv'
    BY <2>5, <2>t, ReceiveIsLocal DEF EndCall, TypeOK, dbVars
  <2>6. ASSUME NEW t \in Tabs, CallConfirm(t) PROVE RInv'
    <3>1. CASE RefusedAtOnce(job[t]) = "no"
      <4>1. job[t] = "refund" => cancelled
        BY <3>1, <2>t DEF RefusedAtOnce, TypeOK, PaymentStatus
      <4>2. /\ call' = [call EXCEPT ![t] = "mirror"]
            /\ UNCHANGED <<paymentStatus, cancelled, reactivating, crossed, job>>
        BY <2>6, <3>1 DEF CallConfirm, dbVars, tabVars, commishVars
      <4> QED
        BY <4>1, <4>2, <2>t DEF TypeOK
    <3>2. CASE RefusedAtOnce(job[t]) # "no"
      BY <2>5, <2>6, <3>2 DEF CallConfirm, callVars, commishVars
    <3> QED
      BY <3>1, <3>2
  <2>7. ASSUME NEW t \in Tabs, NEW outcome, ReadMirror(t, outcome) PROVE RInv'
    <3>1. CASE call' = [call EXCEPT ![t] = "write"] /\ UNCHANGED tabVars
      BY <2>7, <2>t, <3>1 DEF ReadMirror, TypeOK, dbVars, tabVars, commishVars
    <3>2. CASE \E answer : Receive(t, answer) /\ EndCall(t)
      BY <2>5, <2>7, <3>2 DEF ReadMirror, commishVars
    <3> QED
      BY <2>7, <3>1, <3>2 DEF ReadMirror
  <2>8. ASSUME NEW t \in Tabs, NEW outcome, WriteStatus(t, outcome) PROVE RInv'
    <3>1. PICK answer : Receive(t, answer) /\ EndCall(t)
      BY <2>8 DEF WriteStatus
    <3>2. /\ job' = job /\ call' = [call EXCEPT ![t] = "none"]
          /\ UNCHANGED <<cancelled, reactivating, crossed>> /\ call[t] = "write"
      BY <2>8, <2>t, <3>1, ReceiveIsLocal DEF WriteStatus, EndCall, commishVars
    <3>3. paymentStatus' = "refunded" => paymentStatus = "refunded" \/ job[t] = "refund"
      BY <2>8, <2>t DEF WriteStatus, TypeOK, Job
    <3> QED
      BY <2>t, <3>2, <3>3 DEF TypeOK
  <2>9. CASE CancelLeague \/ ReactivateLeague
    BY <2>9 DEF CancelLeague, ReactivateLeague
  <2>10. ASSUME NEW outcome, ResetRefunded(outcome) PROVE RInv'
    BY <2>10 DEF ResetRefunded, RefundUnderWay, tabVars, callVars
  <2>11. CASE UpdateLeagueSettings \/ MirrorCatchesUp \/ UNCHANGED payVars
    BY <2>1, <2>11 DEF UpdateLeagueSettings, MirrorCatchesUp, payVars, dbVars, tabVars, callVars,
       commishVars
  <2> QED
    BY <2>2, <2>3, <2>4, <2>6, <2>7, <2>8, <2>9, <2>10, <2>11 DEF Next, TabStep
<1>3. RInv => NobodyIsStuckRefunded
  OBVIOUS
<1> QED
  BY <1>1, <1>2, <1>3, PInvHolds, PTL DEF Spec
-----------------------------------------------------------------------------
(* A refund on record means money returned, for a member with one tab, fees  *)
(* above zero and a lookup that answers.  The slot and the record are never   *)
(* read together, so the argument goes by what the record says: while it says *)
(* paid, no payment is on its way into an empty slot; while it does not, the  *)
(* slot cannot be emptied.                                                    *)

\* What ConfirmPayment and ConfirmRefund found on record stays so until they write.
AtTheGateway(t) ==
  call[t] # "none" =>
    /\ page[t] \in {"confirm", "closed"}
    /\ job[t] = "refund" <=> paymentStatus = "paid"
    /\ job[t] = "pay" => feeRead[t] > 0

\* The wallet is asked for one transaction at a time, and for a refund by a page
\* that shows the member as paid.
AtTheWallet(t) ==
  /\ page[t] = "sign" => tx[t] = "none"
  /\ page[t] \in {"sign", "sent", "confirm"} /\ job[t] = "refund" => view[t].status = "paid"

Paying(t) == tx[t] = "pay" \/ (page[t] = "sign" /\ job[t] = "pay")

\* While the member is on record as paid, an empty slot is not hidden by the lag of
\* the Mirror Node, and no payment is on its way into one.
WhilePaid(t) ==
  paymentStatus = "paid" =>
    /\ mirror = 0 => slot = 0
    /\ tx[t] = "pay" => slot > 0 /\ mirror > 0
    /\ ~(page[t] = "sign" /\ job[t] = "pay")

\* While the member is not, the slot only grows, and the mirror with it: a page that
\* still shows the member as paid can only refund nothing.
WhileNotPaid(t) ==
  paymentStatus # "paid" =>
    /\ mirror <= slot
    /\ tx[t] = "refund" => slot = 0
    /\ page[t] # "closed" /\ view[t].status = "paid" => slot = 0 /\ ~Paying(t)

\* What the handler saw is so until it writes.
AtTheWrite(t) ==
  call[t] = "write" =>
    IF job[t] = "pay" THEN mirror > 0 ELSE slot = 0 /\ mirror = 0 /\ tx[t] # "pay"

\* On record as refunded: nothing is there, and no page offers the payment.
WhileRefunded(t) ==
  paymentStatus = "refunded" /\ ~crossed =>
    slot = 0 /\ ~Paying(t) /\ (page[t] # "closed" => view[t].status # "unpaid")

EInv(t) == /\ AtTheGateway(t) /\ AtTheWallet(t) /\ WhilePaid(t)
           /\ WhileNotPaid(t) /\ AtTheWrite(t) /\ WhileRefunded(t)

\* What the commissioner is answered shows nobody as paid, and nobody as unpaid who
\* is on record as refunded, without a mark.
LEMMA CommishAnswersAreLocal ==
  ASSUME TypeOK, NEW t \in Tabs, CommishAnswers(t)
  PROVE  /\ UNCHANGED <<page, job, call, feeRead, tx, slot, mirror, paymentStatus>>
         /\ crossed => crossed'
         /\ view'[t].status = "paid" <=> view[t].status = "paid"
         /\ view'[t].status = "unpaid" /\ paymentStatus = "refunded" /\ ~crossed'
            => view[t].status = "unpaid"
<1>1. UNCHANGED <<page, job, call, feeRead, tx, slot, mirror, paymentStatus>>
  BY DEF CommishAnswers, dbVars, chainVars, callVars
<1>2. crossed => crossed'
  BY DEF CommishAnswers
<1>3. CASE view' = view
  BY <1>1, <1>2, <1>3
<1>4. CASE view' = [view EXCEPT ![t].cancelled = TRUE]
  <2>1. view'[t].status = view[t].status
    BY <1>4 DEF TypeOK, View
  <2> QED
    BY <1>1, <1>2, <2>1
<1>5. CASE /\ view' = [view EXCEPT ![t] =
                [cancelled |-> FALSE,
                 status |-> IF @.status = "refunded" THEN "unpaid" ELSE @.status]]
           /\ crossed' = (crossed \/ paymentStatus = "refunded")
  <2>1. view'[t].status = IF view[t].status = "refunded" THEN "unpaid" ELSE view[t].status
    BY <1>5 DEF TypeOK, View
  <2>2. paymentStatus = "refunded" => crossed'
    BY <1>5
  <2> QED
    BY <1>1, <1>2, <2>1, <2>2
<1> QED
  BY <1>3, <1>4, <1>5 DEF CommishAnswers

\* What the record says of the slot, for one tab.
LEMMA EInvHolds ==
  ASSUME NEW tab, Tabs = {tab}, ~LookupMayFail, 0 \notin Fees
  PROVE  Spec => []EInv(tab)
<1> DEFINE I == EInv(tab)
<1>1. Init => I
  BY DEF Init, EInv, AtTheGateway, AtTheWallet, WhilePaid, WhileNotPaid, AtTheWrite,
         WhileRefunded, Paying
<1>2. TypeOK /\ I /\ [Next]_payVars => I'
  <2> SUFFICES ASSUME TypeOK, I, [Next]_payVars PROVE I'
    OBVIOUS
  <2> USE DEF EInv, AtTheGateway, AtTheWallet, WhilePaid, WhileNotPaid, AtTheWrite,
              WhileRefunded, Paying
  <2>t. /\ page \in [{tab} -> {"closed", "overview", "sign", "sent", "confirm"}]
        /\ job \in [{tab} -> Job] /\ view \in [{tab} -> View]
        /\ call \in [{tab} -> {"none", "mirror", "write"}] /\ feeRead \in [{tab} -> Nat]
        /\ tx \in [{tab} -> Job \cup {"none"}] /\ amount \in [{tab} -> Nat]
        /\ paymentStatus \in PaymentStatus /\ slot \in Nat /\ mirror \in Nat
        /\ fee \in Nat /\ fee > 0 /\ crossed \in BOOLEAN /\ cancelled \in BOOLEAN
    BY FeesAssumption DEF TypeOK
  <2> USE DEF Job, PaymentStatus, View, Show, dbVars, chainVars, tabVars, callVars, commishVars
  <2>1. CASE OpenPage(tab)
    BY <2>1, <2>t DEF OpenPage
  <2>2. CASE ClosePage(tab)
    BY <2>2, <2>t DEF ClosePage
  <2>3. CASE \E j \in Job : Press(tab, j) \/ PressConfirmExisting(tab, j)
    BY <2>3, <2>t DEF Press, PressConfirmExisting, Offers
  <2>4. CASE Sign(tab)
    BY <2>4, <2>t DEF Sign
  <2>5. CASE PersistPending(tab) \/ DismissPendingRefund(tab)
    BY <2>5, <2>t DEF PersistPending, DismissPendingRefund, Offers
  <2>6. CASE CallConfirm(tab)
    BY <2>6, <2>t DEF CallConfirm, RefusedAtOnce, Receive, GiveUp, MarkLocal
  <2>7. CASE \E outcome \in {"ok", "error"} : ReadMirror(tab, outcome)
    BY <2>7, <2>t DEF ReadMirror, SlotRead, Verified, Receive, GiveUp, MarkLocal, EndCall
  <2>8. CASE \E outcome \in WriteOutcome : WriteStatus(tab, outcome)
    BY <2>8, <2>t DEF WriteStatus, Receive, GiveUp, MarkLocal, EndCall
  <2>9. CASE PressCancel(tab) \/ PressReactivate(tab)
    BY <2>9, <2>t DEF PressCancel, PressReactivate
  <2>10. CASE CommishAnswers(tab)
    BY <2>10, <2>t, CommishAnswersAreLocal
  <2>11. CASE Land(tab)
    BY <2>11, <2>t DEF Land
  <2>12. CASE MirrorCatchesUp
    BY <2>12, <2>t DEF MirrorCatchesUp
  <2>13. CASE CancelLeague \/ ReactivateLeague \/ UpdateLeagueSettings \/ UNCHANGED payVars
    BY <2>13, <2>t DEF CancelLeague, ReactivateLeague, UpdateLeagueSettings, payVars
  <2>14. CASE \E outcome \in WriteOutcome : ResetRefunded(outcome)
    BY <2>14, <2>t DEF ResetRefunded
  <2> QED
    BY <2>1, <2>2, <2>3, <2>4, <2>5, <2>6, <2>7, <2>8, <2>9, <2>10, <2>11, <2>12, <2>13, <2>14
       DEF Next, TabStep
<1> QED
  BY <1>1, <1>2, TypeCorrect, PTL DEF Spec

\* RefundedMeansReturned: ConfirmRefund finds the slot empty in an answer that may be
\* old, and nothing is paid into it before or after its UPDATE, unless a reactivation
\* crosses it.
THEOREM RefundsWereReturned ==
  ASSUME NEW tab, Tabs = {tab}, ~LookupMayFail, 0 \notin Fees
  PROVE  Spec => []RefundedMeansReturned
<1>1. Spec => []EInv(tab)
  BY EInvHolds
<1>2. EInv(tab) => RefundedMeansReturned
  BY DEF RefundedMeansReturned, EInv, WhileRefunded
<1> QED
  BY <1>1, <1>2, PTL

-----------------------------------------------------------------------------
(* One payment at a time.  A payment that is made is remembered, first by    *)
(* the page, then in localStorage, at last on record.                        *)

Remembered(t) ==
  \/ paymentStatus = "paid"
  \/ page[t] = "sent" /\ job[t] = "pay"
  \/ "pay" \in stored

PayOnce(t) ==
  /\ page[t] # "closed" => pending[t] = stored
  /\ ~forgotten /\ (slot > 0 \/ tx[t] = "pay") => Remembered(t)
  /\ ~forgotten /\ slot > 0 => ~Paying(t)

\* An answer makes a page forget its payment only if the payment is on record.
LEMMA AnswersRemember ==
  ASSUME NEW t \in Tabs, TypeOK, PayOnce(t), NEW answer, Receive(t, answer),
         answer \in {"ok", "conflict"} /\ job[t] = "pay" => paymentStatus' = "paid"
  PROVE  /\ page'[t] # "closed" => pending'[t] = stored'
         /\ "pay" \in stored => "pay" \in stored' \/ paymentStatus' = "paid"
         /\ job' = job /\ page'[t] # "sign" /\ page[t] # "sent"
<1>1. CASE UNCHANGED <<page, stored, pending>>
  BY <1>1 DEF Receive, PayOnce
<1>2. CASE page[t] = "confirm" /\ GiveUp(t)
  BY <1>2 DEF Receive, GiveUp, Show, PayOnce, TypeOK
<1>3. CASE page[t] = "confirm" /\ answer \in {"ok", "conflict"} /\ MarkLocal(t)
  BY <1>3 DEF Receive, MarkLocal, Show, PayOnce, TypeOK, Job
<1> QED
  BY <1>1, <1>2, <1>3 DEF Receive

\* NobodyPaysTwice: with one tab, a member whose page kept the payment's id is not
\* sent to the wallet again before the escrow is empty.
THEOREM OnePaymentAtATime ==
  ASSUME NEW tab, Tabs = {tab}, ~LookupMayFail, 0 \notin Fees
  PROVE  Spec => []NobodyPaysTwice
<1>1. Spec => []EInv(tab)
  BY EInvHolds
<1>2. Init => PayOnce(tab)
  BY DEF Init, PayOnce, Paying
<1>3. TypeOK /\ EInv(tab) /\ PayOnce(tab) /\ [Next]_payVars => PayOnce(tab)'
  <2> SUFFICES ASSUME TypeOK, EInv(tab), PayOnce(tab), [Next]_payVars PROVE PayOnce(tab)'
    OBVIOUS
  <2>t. /\ page \in [{tab} -> {"closed", "overview", "sign", "sent", "confirm"}]
        /\ job \in [{tab} -> Job] /\ pending \in [{tab} -> SUBSET Job]
        /\ call \in [{tab} -> {"none", "mirror", "write"}]
        /\ tx \in [{tab} -> Job \cup {"none"}] /\ amount \in [{tab} -> Nat]
        /\ paymentStatus \in PaymentStatus /\ slot \in Nat /\ mirror \in Nat
        /\ forgotten \in BOOLEAN
    BY DEF TypeOK
  <2> USE DEF Job, PaymentStatus, Show, dbVars, chainVars, tabVars, callVars, commishVars,
              PayOnce, Remembered, Paying
  <2>1. CASE OpenPage(tab)
    BY <2>1, <2>t DEF OpenPage
  <2>2. CASE ClosePage(tab)
    BY <2>2, <2>t DEF ClosePage
  <2>3. CASE \E j \in Job : Press(tab, j) \/ PressConfirmExisting(tab, j)
    BY <2>3, <2>t DEF Press, PressConfirmExisting, Offers
  <2>4. CASE Sign(tab)
    BY <2>4, <2>t DEF Sign
  <2>5. CASE PersistPending(tab)
    BY <2>5, <2>t DEF PersistPending
  <2>6. CASE DismissPendingRefund(tab)
    BY <2>6, <2>t DEF DismissPendingRefund, Offers
  <2>7. CASE CallConfirm(tab)
    BY <2>7, <2>t, AnswersRemember DEF CallConfirm, RefusedAtOnce
  <2>8. CASE \E outcome \in {"ok", "error"} : ReadMirror(tab, outcome)
    BY <2>8, <2>t, AnswersRemember DEF ReadMirror
  <2>9. CASE \E outcome \in WriteOutcome : WriteStatus(tab, outcome)
    BY <2>9, <2>t, AnswersRemember DEF WriteStatus, EInv, AtTheWrite
  <2>10. CASE Land(tab)
    BY <2>10, <2>t DEF Land, EInv, AtTheWallet
  <2>11. CASE PressCancel(tab) \/ PressReactivate(tab) \/ CommishAnswers(tab)
    BY <2>11, <2>t DEF PressCancel, PressReactivate, CommishAnswers
  <2>12. CASE CancelLeague \/ ReactivateLeague \/ UpdateLeagueSettings \/ MirrorCatchesUp
              \/ UNCHANGED payVars
    BY <2>12, <2>t DEF CancelLeague, ReactivateLeague, UpdateLeagueSettings, MirrorCatchesUp,
       payVars
  <2>13. CASE \E outcome \in WriteOutcome : ResetRefunded(outcome)
    BY <2>13, <2>t DEF ResetRefunded
  <2> QED
    BY <2>1, <2>2, <2>3, <2>4, <2>5, <2>6, <2>7, <2>8, <2>9, <2>10, <2>11, <2>12, <2>13
       DEF Next, TabStep
<1>4. PayOnce(tab) => NobodyPaysTwice
  BY DEF PayOnce, Paying, NobodyPaysTwice
<1> QED
  BY <1>1, <1>2, <1>3, <1>4, TypeCorrect, PTL DEF Spec
=============================================================================
