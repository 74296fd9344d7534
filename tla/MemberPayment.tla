---------------------------- MODULE MemberPayment ----------------------------
(***************************************************************************)
(* One member's entry fee in one league: the payment panel of              *)
(* LeagueOverview.tsx in any number of browser tabs, the wallet, the escrow *)
(* slot and the Mirror Node behind it, and the gateway's handlers          *)
(* InitiatePayment, ConfirmPayment, ConfirmRefund, CancelLeague,           *)
(* ReactivateLeague and UpdateLeagueSettings (internal/league/service.go). *)
(* A handler reads the database, asks the Mirror Node and writes in three  *)
(* steps that others may come between.                                     *)
(***************************************************************************)
EXTENDS Naturals

CONSTANTS
  Tabs,            \* the member's browser tabs; each has one request and one
                   \* transaction under way at most
  Fees,            \* the entry fees a commissioner may set
  LookupMayFail,   \* the Mirror Node's account lookup may fail, so that the slot
                   \* of another address, an empty one, is read
  MaxDeposits      \* bound: the member pays no more once so much was deposited

ASSUME FeesAssumption == Fees \subseteq Nat
ASSUME LookupAssumption == LookupMayFail \in BOOLEAN
ASSUME MaxDepositsAssumption == MaxDeposits \in Nat

VARIABLES
  \* the database
  paymentStatus,  \* league_members.payment_status
  cancelled,      \* leagues.cancelled_at IS NOT NULL
  fee,            \* leagues.entry_fee_cents
  reactivating,   \* ReactivateLeague is between its two UPDATEs
  agreed,         \* the fee the last ConfirmPayment compared with
  \* the chain
  slot,           \* payments[league][member] in the escrow contract
  mirror,         \* the same, as the Mirror Node answers it
  deposited,      \* all the member ever paid into the league
  tx,             \* the transaction each tab has on its way
  forgotten,      \* history: since the slot was empty, a payment was signed whose id no
                  \* page kept
  \* the browser
  stored,         \* the jobs with a pending transaction in localStorage
  page,           \* what each tab's panel is doing
  job,            \* whether it does so for a payment or for a refund
  view,           \* the member's status and the cancellation, as the tab shows them
  pending,        \* the jobs with a pending transaction in the tab's own state
  amount,         \* the amount each tab's payment is about, from its instructions
  commish,        \* where the tab's own request to cancel or reactivate the league is
  \* the gateway
  call,           \* where the handler of the tab's request is
  feeRead,        \* the fee it read
  crossed         \* history: the last reactivation failed to reset, came before the
                  \* UPDATE of a refund under way, or was answered after a new refund

dbVars == <<paymentStatus, cancelled, fee, reactivating, agreed>>
chainVars == <<slot, mirror, deposited, tx, forgotten>>
tabVars == <<stored, page, job, view, pending, amount>>
callVars == <<call, feeRead>>
commishVars == <<commish, crossed>>
payVars == <<dbVars, chainVars, tabVars, callVars, commishVars>>

Job == {"pay", "refund"}
PaymentStatus == {"unpaid", "paid", "refunded"}
CommishStep ==
  {"idle", "cancel", "cancelled", "reactivate", "resetting", "reactivated", "failed", "error"}
View == [status : PaymentStatus, cancelled : BOOLEAN]

TypeOK ==
  /\ paymentStatus \in PaymentStatus /\ cancelled \in BOOLEAN /\ fee \in Fees
  /\ reactivating \in BOOLEAN /\ agreed \in Nat
  /\ slot \in Nat /\ mirror \in Nat /\ deposited \in Nat /\ slot <= deposited
  /\ tx \in [Tabs -> Job \cup {"none"}] /\ forgotten \in BOOLEAN
  /\ stored \in SUBSET Job /\ pending \in [Tabs -> SUBSET Job]
  /\ page \in [Tabs -> {"closed", "overview", "sign", "sent", "confirm"}]
  /\ job \in [Tabs -> Job] /\ view \in [Tabs -> View] /\ amount \in [Tabs -> Nat]
  /\ call \in [Tabs -> {"none", "mirror", "write"}] /\ feeRead \in [Tabs -> Nat]
  /\ commish \in [Tabs -> CommishStep] /\ crossed \in BOOLEAN

Init ==
  /\ paymentStatus = "unpaid" /\ cancelled = FALSE /\ fee \in Fees
  /\ reactivating = FALSE /\ agreed = 0
  /\ slot = 0 /\ mirror = 0 /\ deposited = 0
  /\ tx = [t \in Tabs |-> "none"] /\ forgotten = FALSE
  /\ stored = {} /\ pending = [t \in Tabs |-> {}]
  /\ page = [t \in Tabs |-> "closed"] /\ job = [t \in Tabs |-> "pay"]
  /\ view = [t \in Tabs |-> [status |-> "unpaid", cancelled |-> FALSE]]
  /\ amount = [t \in Tabs |-> 0]
  /\ call = [t \in Tabs |-> "none"] /\ feeRead = [t \in Tabs |-> 0]
  /\ commish = [t \in Tabs |-> "idle"] /\ crossed = FALSE

Show(t, p) == page' = [page EXCEPT ![t] = p]
Asks(t, step) == commish' = [commish EXCEPT ![t] = step]

-----------------------------------------------------------------------------
(* The panel.                                                               *)

\* Mutant: the page mounts without a look into localStorage.
OpenForgetful(t) ==
  /\ page[t] = "closed" /\ call[t] = "none"
  /\ Show(t, "overview")
  /\ view' = [view EXCEPT ![t] = [status |-> paymentStatus, cancelled |-> cancelled]]
  /\ pending' = [pending EXCEPT ![t] = {}]
  /\ UNCHANGED <<dbVars, chainVars, stored, job, amount, callVars, commishVars>>

\* The page mounts: pending transactions from localStorage, the rest by GetLeague.
OpenPage(t) ==
  /\ page[t] = "closed" /\ call[t] = "none"
  /\ Show(t, "overview")
  /\ view' = [view EXCEPT ![t] = [status |-> paymentStatus, cancelled |-> cancelled]]
  /\ pending' = [pending EXCEPT ![t] = stored]
  /\ UNCHANGED <<dbVars, chainVars, stored, job, amount, callVars, commishVars>>

\* The tab is closed or reloaded, whatever it was waiting for; a request that is
\* under way goes on without it.
ClosePage(t) ==
  /\ page[t] # "closed"
  /\ Show(t, "closed") /\ Asks(t, "idle")
  /\ amount' = IF tx[t] = "none" THEN [amount EXCEPT ![t] = 0] ELSE amount
  /\ forgotten' = (forgotten \/ (page[t] = "sent" /\ job[t] = "pay"))
  /\ UNCHANGED <<dbVars, slot, mirror, deposited, tx, stored, job, view, pending, callVars,
                 crossed>>

\* What the panel shows: a payment to an unpaid member of a league that goes on,
\* a refund to a paid member of a cancelled one.
Offers(t, j) ==
  /\ page[t] = "overview" /\ commish[t] # "error"
  /\ IF j = "pay" THEN view[t] = [status |-> "unpaid", cancelled |-> FALSE]
                  ELSE view[t] = [status |-> "paid", cancelled |-> TRUE]

\* handlePay with InitiatePayment (refused to a member on record as paid), and
\* handleClaimRefund, which asks no one.
Press(t, j) ==
  /\ Offers(t, j) /\ j \notin pending[t]
  /\ tx[t] = "none"
  /\ j = "pay" => paymentStatus # "paid" /\ deposited < MaxDeposits
  /\ Show(t, "sign")
  /\ job' = [job EXCEPT ![t] = j]
  /\ amount' = IF j = "pay" THEN [amount EXCEPT ![t] = fee] ELSE amount
  /\ UNCHANGED <<dbVars, chainVars, stored, view, pending, callVars, commishVars>>

\* payEntryFeeUSDC and claimRefund: the member signs in the wallet, which hands
\* the transaction to the network, or refuses.
Sign(t) ==
  /\ page[t] = "sign"
  /\ \/ tx' = [tx EXCEPT ![t] = job[t]] /\ Show(t, "sent")
        /\ UNCHANGED amount
     \/ Show(t, "overview") /\ UNCHANGED tx /\ amount' = [amount EXCEPT ![t] = 0]
  /\ UNCHANGED <<dbVars, slot, mirror, deposited, forgotten, stored, job, view, pending,
                 callVars, commishVars>>

\* The wallet's answer.  No receipt is waited for: a transaction id is stored as
\* pending, whatever becomes of the transaction.  An error leaves no trace.
PersistPending(t) ==
  /\ page[t] = "sent"
  /\ \/ /\ stored' = stored \cup {job[t]}
        /\ pending' = [pending EXCEPT ![t] = @ \cup {job[t]}]
        /\ Show(t, "confirm") /\ UNCHANGED forgotten
     \/ /\ forgotten' = (forgotten \/ job[t] = "pay")
        /\ Show(t, "overview") /\ UNCHANGED <<stored, pending>>
  /\ UNCHANGED <<dbVars, slot, mirror, deposited, tx, job, view, amount, callVars, commishVars>>

\* handleRetryConfirm, handleRetryRefundConfirm.
PressConfirmExisting(t, j) ==
  /\ Offers(t, j) /\ j \in pending[t]
  /\ Show(t, "confirm")
  /\ job' = [job EXCEPT ![t] = j]
  /\ UNCHANGED <<dbVars, chainVars, stored, view, pending, amount, callVars, commishVars>>

\* handleDismissPendingRefund; a pending payment cannot be dismissed.
DismissPendingRefund(t) ==
  /\ Offers(t, "refund") /\ "refund" \in pending[t]
  /\ stored' = stored \ {"refund"}
  /\ pending' = [pending EXCEPT ![t] = @ \ {"refund"}]
  /\ UNCHANGED <<dbVars, chainVars, page, job, view, amount, callVars, commishVars>>

\* markLocalPaid, markLocalRefunded: also what a 409 is taken for.
MarkLocal(t) ==
  /\ stored' = stored \ {job[t]}
  /\ pending' = [pending EXCEPT ![t] = @ \ {job[t]}]
  /\ view' = [view EXCEPT ![t].status = IF job[t] = "pay" THEN "paid" ELSE "refunded"]
  /\ Show(t, "overview")

\* An answer the page makes nothing of: an error, or the last 402 of eight.
GiveUp(t) == Show(t, "overview") /\ UNCHANGED <<stored, pending, view>>

\* What the page does with its answer, if it is still there to get one.
Receive(t, answer) ==
  /\ UNCHANGED <<job, amount>>
  /\ \/ page[t] = "closed" /\ UNCHANGED <<page, stored, pending, view>>
     \/ page[t] = "confirm" /\ GiveUp(t)
     \/ page[t] = "confirm" /\ answer \in {"ok", "conflict"} /\ MarkLocal(t)
     \/ page[t] = "confirm" /\ answer = "insufficient"
        /\ UNCHANGED <<page, stored, pending, view>>

EndCall(t) ==
  call' = [call EXCEPT ![t] = "none"] /\ feeRead' = [feeRead EXCEPT ![t] = 0]

-----------------------------------------------------------------------------
(* The handlers.                                                            *)

\* Mutant: ConfirmRefund does not look at cancelled_at.
RefusedUnlessPaid(j) ==
  CASE j = "pay" /\ paymentStatus = "paid" -> "conflict"
    [] j = "refund" /\ paymentStatus # "paid" -> "insufficient"
    [] OTHER -> "no"

\* ConfirmPayment and ConfirmRefund read the member and the league first.
RefusedAtOnce(j) ==
  CASE j = "pay" /\ paymentStatus = "paid" -> "conflict"
    [] j = "refund" /\ paymentStatus # "paid" -> "insufficient"
    [] j = "refund" /\ paymentStatus = "paid" /\ ~cancelled -> "conflict"
    [] OTHER -> "no"

CallConfirm(t) ==
  /\ page[t] = "confirm" /\ call[t] = "none"
  /\ IF RefusedAtOnce(job[t]) = "no"
     THEN /\ call' = [call EXCEPT ![t] = "mirror"]
          /\ feeRead' = [feeRead EXCEPT ![t] = fee]
          /\ UNCHANGED tabVars
     ELSE Receive(t, RefusedAtOnce(job[t])) /\ UNCHANGED callVars
  /\ UNCHANGED <<dbVars, chainVars, commishVars>>

\* getAccountEVMAddress falls back to the long-zero address, whose slot is empty.
SlotRead == {mirror} \cup (IF LookupMayFail THEN {0} ELSE {})

\* Mutant: a refund is taken for done without looking at the slot.
RefundOnTrust(j, f, read) == j = "pay" => read >= f

\* Mutant: a payment is taken for made without looking at the slot.
PaymentOnTrust(j, f, read) == j = "refund" => read = 0

\* What the slot has to say: enough was paid, or nothing is left.
Verified(j, f, read) == IF j = "pay" THEN read >= f ELSE read = 0

\* readContractPayment, and the comparison.  The Mirror Node may not answer (500).
ReadMirror(t, outcome) ==
  /\ call[t] = "mirror"
  /\ \/ /\ outcome = "ok"
        /\ \E read \in SlotRead :
             IF Verified(job[t], feeRead[t], read)
             THEN /\ call' = [call EXCEPT ![t] = "write"]
                  /\ UNCHANGED <<tabVars, feeRead>>
             ELSE Receive(t, "insufficient") /\ EndCall(t)
     \/ outcome = "error" /\ Receive(t, "error") /\ EndCall(t)
  /\ UNCHANGED <<dbVars, chainVars, commishVars>>

\* The final UPDATE, by league and member alone: the status and the cancellation
\* may have changed since they were read.
WriteStatus(t, outcome) ==
  /\ call[t] = "write"
  /\ IF outcome = "error" THEN UNCHANGED <<paymentStatus, agreed>>
     ELSE IF job[t] = "pay" THEN paymentStatus' = "paid" /\ agreed' = feeRead[t]
     ELSE paymentStatus' = "refunded" /\ UNCHANGED agreed
  /\ Receive(t, IF outcome = "ok" THEN "ok" ELSE "error")
  /\ EndCall(t)
  /\ UNCHANGED <<cancelled, fee, reactivating, chainVars, commishVars>>

-----------------------------------------------------------------------------
(* The commissioner.                                                        *)

\* The buttons of the page, if the member is the commissioner: usable while the
\* panel is at work, one at a time.
PressCancel(t) ==
  /\ page[t] # "closed" /\ commish[t] = "idle" /\ ~view[t].cancelled
  /\ Asks(t, "cancel")
  /\ UNCHANGED <<dbVars, chainVars, tabVars, callVars, crossed>>

PressReactivate(t) ==
  /\ page[t] # "closed" /\ commish[t] = "idle" /\ view[t].cancelled
  /\ Asks(t, "reactivate")
  /\ UNCHANGED <<dbVars, chainVars, tabVars, callVars, crossed>>

\* A request comes from another page, or from a tab that waits for its answer.
ServedFor(from, to) ==
  UNCHANGED commish \/ \E t \in Tabs : commish[t] = from /\ Asks(t, to)

CancelLeague ==
  /\ ~cancelled
  /\ cancelled' = TRUE
  /\ ServedFor("cancel", "cancelled")
  /\ UNCHANGED <<paymentStatus, fee, reactivating, agreed, chainVars, tabVars, callVars, crossed>>

\* ReactivateLeague: two UPDATEs, not in one transaction.
ReactivateLeague ==
  /\ cancelled /\ ~reactivating
  /\ cancelled' = FALSE /\ reactivating' = TRUE
  /\ ServedFor("reactivate", "resetting")
  /\ UNCHANGED <<paymentStatus, fee, agreed, chainVars, tabVars, callVars, crossed>>

\* Refunds whose confirmation has read the league as cancelled.
RefundUnderWay == \E t \in Tabs : call[t] # "none" /\ job[t] = "refund"

ResetRefunded(outcome) ==
  /\ reactivating
  /\ paymentStatus' = IF outcome # "error" /\ paymentStatus = "refunded"
                      THEN "unpaid" ELSE paymentStatus
  /\ reactivating' = FALSE /\ crossed' = (outcome = "error" \/ RefundUnderWay)
  /\ commish' = [t \in Tabs |-> IF commish[t] # "resetting" THEN commish[t]
                                ELSE IF outcome = "ok" THEN "reactivated" ELSE "failed"]
  /\ UNCHANGED <<cancelled, fee, agreed, chainVars, tabVars, callVars>>

\* handleCancelLeague and handleReactivateLeague change what the page shows, the
\* latter the members who were refunded as well; an error replaces the page.
CommishAnswers(t) ==
  /\ \/ commish[t] \notin {"idle", "error"} /\ Asks(t, "error")
        /\ UNCHANGED <<view, crossed>>
     \/ commish[t] = "cancelled" /\ Asks(t, "idle")
        /\ view' = [view EXCEPT ![t].cancelled = TRUE] /\ UNCHANGED crossed
     \/ commish[t] = "reactivated" /\ Asks(t, "idle")
        /\ view' = [view EXCEPT ![t] =
             [cancelled |-> FALSE,
              status |-> IF @.status = "refunded" THEN "unpaid" ELSE @.status]]
        /\ crossed' = (crossed \/ paymentStatus = "refunded")
  /\ UNCHANGED <<dbVars, chainVars, stored, page, job, pending, amount, callVars>>

UpdateLeagueSettings ==
  /\ fee' \in Fees \ {fee}
  /\ UNCHANGED <<paymentStatus, cancelled, reactivating, agreed, chainVars, tabVars, callVars,
                 commishVars>>

-----------------------------------------------------------------------------
(* The chain.                                                               *)

\* Mutant: payEntryFee does not require that the transfer went through.
LandUnpaid(t) ==
  /\ tx[t] # "none"
  /\ \/ /\ tx[t] = "pay" /\ amount[t] > 0
        /\ slot' = slot + amount[t] /\ deposited' \in {deposited, deposited + amount[t]}
     \/ tx[t] = "refund" /\ slot > 0 /\ slot' = 0 /\ UNCHANGED deposited
     \/ UNCHANGED <<slot, deposited>>
  /\ tx' = [tx EXCEPT ![t] = "none"] /\ amount' = [amount EXCEPT ![t] = 0]
  /\ forgotten' = (forgotten /\ slot' > 0)
  /\ UNCHANGED <<dbVars, mirror, stored, page, job, view, pending, callVars, commishVars>>

\* payEntryFee adds to the slot, claimRefund empties it; neither does anything
\* with an amount of zero, and either may fail.
Land(t) ==
  /\ tx[t] # "none"
  /\ \/ /\ tx[t] = "pay" /\ amount[t] > 0
        /\ slot' = slot + amount[t] /\ deposited' = deposited + amount[t]
     \/ tx[t] = "refund" /\ slot > 0 /\ slot' = 0 /\ UNCHANGED deposited
     \/ UNCHANGED <<slot, deposited>>
  /\ tx' = [tx EXCEPT ![t] = "none"] /\ amount' = [amount EXCEPT ![t] = 0]
  /\ forgotten' = (forgotten /\ slot' > 0)
  /\ UNCHANGED <<dbVars, mirror, stored, page, job, view, pending, callVars, commishVars>>

MirrorCatchesUp ==
  /\ mirror # slot
  /\ mirror' = slot
  /\ UNCHANGED <<dbVars, slot, deposited, tx, forgotten, tabVars, callVars, commishVars>>

WriteOutcome == {"ok", "error", "inDoubt"}

TabStep(t) ==
  \/ OpenPage(t) \/ Sign(t) \/ PersistPending(t) \/ DismissPendingRefund(t)
  \/ \E j \in Job : Press(t, j) \/ PressConfirmExisting(t, j)
  \/ CallConfirm(t)
  \/ \E outcome \in {"ok", "error"} : ReadMirror(t, outcome)
  \/ \E outcome \in WriteOutcome : WriteStatus(t, outcome)
  \/ PressCancel(t) \/ PressReactivate(t) \/ CommishAnswers(t)

Next ==
  \/ CancelLeague \/ ReactivateLeague \/ UpdateLeagueSettings \/ MirrorCatchesUp
  \/ \E outcome \in WriteOutcome : ResetRefunded(outcome)
  \/ \E t \in Tabs : TabStep(t) \/ ClosePage(t) \/ Land(t)

Spec == Init /\ [][Next]_payVars

-----------------------------------------------------------------------------
(* Safety.                                                                  *)

\* Whatever the tabs, the lag and the commissioner do, a member on record as paid
\* or refunded once paid at least the fee it was checked against.
PaidWasPaid == paymentStatus \in {"paid", "refunded"} => deposited >= agreed

\* A member on record as refunded has nothing left in the escrow, unless the record
\* was overtaken by a reactivation: then the page may ask for the fee again.
RefundedMeansReturned == paymentStatus = "refunded" /\ ~crossed => slot = 0

\* A member on record as refunded has no button to pay with, and a league is
\* reactivated only once: so nobody stays refunded in a league that goes on, unless
\* the reset failed or a refund was being confirmed meanwhile.
NobodyIsStuckRefunded == paymentStatus = "refunded" => cancelled \/ reactivating \/ crossed

\* As long as the escrow holds a fee of the member's, no other payment is on its way,
\* whatever is reloaded, refused or answered late, unless a page was closed or got an
\* error between the signature and the storing of the transaction id.
NobodyPaysTwice ==
  slot > 0 /\ ~forgotten =>
    \A t \in Tabs : tx[t] # "pay" /\ ~(page[t] = "sign" /\ job[t] = "pay")

-----------------------------------------------------------------------------
(* Liveness, for a member who comes back to the page again and again, presses *)
(* the button it shows, and whose requests do not fail for ever.             *)

Fairness ==
  /\ WF_payVars(MirrorCatchesUp)
  /\ \A t \in Tabs :
       /\ WF_payVars(OpenPage(t)) /\ WF_payVars(ClosePage(t))
       /\ SF_payVars(PressConfirmExisting(t, "pay"))
       /\ SF_payVars(CallConfirm(t))
       /\ SF_payVars(ReadMirror(t, "ok"))
       /\ SF_payVars(WriteStatus(t, "ok"))

LiveSpec == Spec /\ Fairness

\* Paid, with a pending transaction at hand, but not on record in a league that
\* goes on.
Unrecorded == /\ slot >= fee /\ "pay" \in stored
              /\ paymentStatus = "unpaid" /\ ~cancelled

\* A payment whose confirmation was cut short, by a reload, the Mirror Node's lag
\* or an error, is put on record by pressing "Confirm Existing Payment".
PaymentIsRecorded == []<>~Unrecorded
=============================================================================
