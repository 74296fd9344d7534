-------------------------- MODULE SeasonEndProofs --------------------------
(***************************************************************************)
(* What holds of SeasonEnd for every set of oracle runs, every set of      *)
(* places, every prize and every bound on the escrow.                      *)
(***************************************************************************)
EXTENDS SeasonEnd, TLAPS

-----------------------------------------------------------------------------
(* The inductive invariant.  PrizeAtMostOnce alone is not inductive: it      *)
(* does not say that a run about to pay is the first to pay.                 *)

\* The claim cannot be lost while it is held: nothing else moves the row on.
ClaimIsHeld == \A r \in Runs : HoldsClaim(r) => payoutStatus = "executing"

\* A run about to send is the first one to send.
SenderIsFirst ==
  \A r \in Runs : pc[r] = "distribute" => NothingPaid /\ \A s \in Runs : tx[s] # "sent"

\* A transaction under way is the only one, is the holder's if there is a holder,
\* comes before any transfer and never coexists with "pending" or "executed".
OneInFlight ==
  \A r \in Runs : tx[r] = "sent" =>
    /\ NothingPaid
    /\ payoutStatus \in {"executing", "failed"}
    /\ \A s \in Runs : (tx[s] = "sent" \/ HoldsClaim(s)) => s = r

\* A run has no transaction of its own before it submits one.
FreshUntilSent ==
  \A r \in Runs :
    pc[r] \in {"platformStatus", "resolve", "settle", "escrowBalance", "claim", "distribute"}
      => tx[r] = "none"

\* A run that got past its resolve loop has winners to pay.
WinnersExist ==
  \A r \in Runs :
    pc[r] \in {"escrowBalance", "claim", "distribute", "receipt", "markExecuted", "recordMembers"}
      => resolved[r] # {}

\* A run that writes "executed" saw its transaction succeed.
ReceiptSeen == \A r \in Runs : pc[r] \in {"markExecuted", "recordMembers"} => tx[r] = "success"

\* The winners of a successful transaction have their prizes.
SuccessPaid == \A r \in Runs : tx[r] = "success" => \A p \in resolved[r] : received[p] > 0

Safe == /\ PrizeAtMostOnce /\ OneExecutor /\ PendingMeansUntouched /\ BooksMatchChain
        /\ ClaimIsHeld /\ SenderIsFirst /\ OneInFlight
        /\ FreshUntilSent /\ WinnersExist /\ ReceiptSeen /\ SuccessPaid

IInv == TypeOK /\ Safe

-----------------------------------------------------------------------------
\* Type correctness (TypeOK): no action leaves the domains above, in particular
\* the checked subtraction of distributePayout keeps leagueTotals a natural.
THEOREM TypeCorrect == Spec => []TypeOK
<1>1. Init => TypeOK
  <2> SUFFICES ASSUME Init PROVE TypeOK
    OBVIOUS
  <2>1. present \in BOOLEAN /\ cancelled \in BOOLEAN /\ hashStored \in BOOLEAN
    BY DEF Init
  <2>2. /\ status \in LeagueStatus /\ payoutStatus \in PayoutStatus
        /\ structure \in SUBSET Places /\ recorded \in SUBSET Places
        /\ platform \in LeagueStatus /\ importing \in LeagueStatus \cup {"none"}
        /\ escrow \in Nat /\ mirror \in Nat
    BY DEF Init, LeagueStatus, PayoutStatus
  <2>3. received \in [Places -> Nat] /\ pc \in [Runs -> Step] /\ tx \in [Runs -> TxState]
    BY DEF Init, Step, TxState
  <2>4. entries \in [Runs -> SUBSET Places] /\ resolved \in [Runs -> SUBSET Places]
    BY DEF Init
  <2> QED
    BY <2>1, <2>2, <2>3, <2>4 DEF TypeOK
<1>2. TypeOK /\ [Next]_vars => TypeOK'
  <2> SUFFICES ASSUME TypeOK, [Next]_vars PROVE TypeOK'
    OBVIOUS
  <2> USE DEF TypeOK, LeagueStatus, PayoutStatus, Step, TxState, Goto, EndRun,
              rowVars, chainVars, runVars
  <2>1. ASSUME NEW r \in Runs, StartRun(r) PROVE TypeOK'
    BY <2>1 DEF StartRun
  <2>2. ASSUME NEW r \in Runs, Submit(r) \/ GetReceipt(r) \/ Crash(r) PROVE TypeOK'
    BY <2>2 DEF Submit, GetReceipt, Crash
  <2>3. ASSUME NEW r \in Runs, RecordMembers(r) PROVE TypeOK'
    BY <2>3 DEF RecordMembers
  <2>4. ASSUME NEW r \in Runs, NEW o \in WriteOutcome,
               FetchPlatformStatus(r, o) \/ ReadEscrow(r, o)
        PROVE TypeOK'
    BY <2>4 DEF FetchPlatformStatus, ReadEscrow
  <2>5. ASSUME NEW r \in Runs, NEW o \in WriteOutcome, ResolveWinners(r, o) PROVE TypeOK'
    BY <2>5 DEF ResolveWinners
  <2>6. ASSUME NEW r \in Runs, NEW o \in WriteOutcome, SettleWithoutPayout(r, o) PROVE TypeOK'
    BY <2>6 DEF SettleWithoutPayout
  <2>7. ASSUME NEW r \in Runs, NEW o \in WriteOutcome, ClaimPayout(r, o) PROVE TypeOK'
    BY <2>7 DEF ClaimPayout
  <2>8. ASSUME NEW r \in Runs, NEW o \in WriteOutcome, MarkFailed(r, o) PROVE TypeOK'
    BY <2>8 DEF MarkFailed
  <2>9. ASSUME NEW r \in Runs, NEW o \in WriteOutcome, MarkExecuted(r, o) PROVE TypeOK'
    <3>1. status' \in LeagueStatus /\ payoutStatus' \in PayoutStatus /\ hashStored' \in BOOLEAN
      BY <2>9 DEF MarkExecuted
    <3>2. pc' = [pc EXCEPT ![r] = "recordMembers"] \/ pc' = [pc EXCEPT ![r] = "idle"]
      BY <2>9 DEF MarkExecuted
    <3>3. pc' \in [Runs -> Step]
      BY <3>2
    <3> QED
      BY <2>9, <3>1, <3>3 DEF MarkExecuted
  <2>10. ASSUME NEW r \in Runs, Land(r) PROVE TypeOK'
    BY <2>10, DueAssumption DEF Land
  <2>11. CASE PayEntryFee \/ EscrowOutflow \/ MirrorCatchesUp \/ PlatformAdvances
    BY <2>11 DEF PayEntryFee, EscrowOutflow, MirrorCatchesUp, PlatformAdvances
  <2>12. CASE ImportFetch \/ ImportUpsert \/ RefreshStatus \/ UpdateLeagueSettings
    BY <2>12 DEF ImportFetch, ImportUpsert, RefreshStatus, UpdateLeagueSettings
  <2>13. CASE CancelLeague
    BY <2>13 DEF CancelLeague
  <2>14. CASE ReactivateLeague
    BY <2>14 DEF ReactivateLeague
  <2>15. CASE DeleteLeague
    BY <2>15 DEF DeleteLeague
  <2>16. CASE UNCHANGED vars
    BY <2>16 DEF vars
  <2> QED
    BY <2>1, <2>2, <2>3, <2>4, <2>5, <2>6, <2>7, <2>8, <2>9, <2>10, <2>11, <2>12,
       <2>13, <2>14, <2>15, <2>16
       DEF Next, NextWithoutReimport, RunStep, WriteOutcome
<1> QED
  BY <1>1, <1>2, PTL DEF Spec

-----------------------------------------------------------------------------
\* Every part of the invariant survives every step, action by action.  The ones
\* with work to do: ClaimPayout takes the claim from a row that is untouched,
\* Submit puts the only transaction under way, Land moves prizes nobody moved
\* before, MarkFailed and MarkExecuted give the claim up for good.
LEMMA StepsAreSafe == ASSUME TypeOK, Safe, [Next]_vars PROVE Safe'
<1> USE DEF TypeOK, LeagueStatus, PayoutStatus, Step, TxState, Goto, EndRun,
            rowVars, chainVars, runVars, NothingPaid, HoldsClaim,
            Safe, PrizeAtMostOnce, OneExecutor, PendingMeansUntouched, BooksMatchChain,
            ClaimIsHeld, SenderIsFirst, OneInFlight,
            FreshUntilSent, WinnersExist, ReceiptSeen, SuccessPaid
<1>1. ASSUME NEW r \in Runs, StartRun(r) PROVE Safe'
  BY <1>1 DEF StartRun
<1>2. ASSUME NEW r \in Runs, Submit(r) PROVE Safe'
  BY <1>2 DEF Submit
<1>3. ASSUME NEW r \in Runs, GetReceipt(r) PROVE Safe'
  BY <1>3 DEF GetReceipt
<1>4. ASSUME NEW r \in Runs, RecordMembers(r) PROVE Safe'
  BY <1>4 DEF RecordMembers
<1>5. ASSUME NEW r \in Runs, Crash(r) PROVE Safe'
  BY <1>5 DEF Crash
<1>6. ASSUME NEW r \in Runs, Land(r) PROVE Safe'
  BY <1>6 DEF Land
<1>7. ASSUME NEW r \in Runs, NEW o \in WriteOutcome, FetchPlatformStatus(r, o) PROVE Safe'
  BY <1>7 DEF FetchPlatformStatus
<1>8. ASSUME NEW r \in Runs, NEW o \in WriteOutcome, ResolveWinners(r, o) PROVE Safe'
  BY <1>8 DEF ResolveWinners
<1>9. ASSUME NEW r \in Runs, NEW o \in WriteOutcome, ReadEscrow(r, o) PROVE Safe'
  BY <1>9 DEF ReadEscrow
<1>10. ASSUME NEW r \in Runs, NEW o \in WriteOutcome, SettleWithoutPayout(r, o) PROVE Safe'
  BY <1>10 DEF SettleWithoutPayout
<1>11. ASSUME NEW r \in Runs, NEW o \in WriteOutcome, ClaimPayout(r, o) PROVE Safe'
  BY <1>11 DEF ClaimPayout, ClaimWins
<1>12. ASSUME NEW r \in Runs, NEW o \in WriteOutcome, MarkFailed(r, o) PROVE Safe'
  BY <1>12 DEF MarkFailed
<1>13. ASSUME NEW r \in Runs, NEW o \in WriteOutcome, MarkExecuted(r, o) PROVE Safe'
  BY <1>13 DEF MarkExecuted
<1>14. CASE PayEntryFee \/ EscrowOutflow \/ MirrorCatchesUp \/ PlatformAdvances
  BY <1>14 DEF PayEntryFee, EscrowOutflow, MirrorCatchesUp, PlatformAdvances
<1>15. CASE ImportFetch \/ ImportUpsert \/ RefreshStatus \/ UpdateLeagueSettings
  BY <1>15 DEF ImportFetch, ImportUpsert, RefreshStatus, UpdateLeagueSettings
<1>16. CASE CancelLeague \/ ReactivateLeague \/ DeleteLeague
  BY <1>16 DEF CancelLeague, ReactivateLeague, DeleteLeague
<1>17. CASE UNCHANGED vars
  BY <1>17 DEF vars
<1> QED
  BY <1>1, <1>2, <1>3, <1>4, <1>5, <1>6, <1>7, <1>8, <1>9,
     <1>10, <1>11, <1>12, <1>13, <1>14, <1>15, <1>16, <1>17
     DEF Next, NextWithoutReimport, RunStep, WriteOutcome

\* The inductive invariant holds in every reachable state.
THEOREM Inductive == Spec => []IInv
<1>1. Init => Safe
  BY DEF Init, Safe, PrizeAtMostOnce, OneExecutor, HoldsClaim, PendingMeansUntouched,
         BooksMatchChain, NothingPaid, ClaimIsHeld, SenderIsFirst, OneInFlight,
         FreshUntilSent, WinnersExist, ReceiptSeen, SuccessPaid
<1>2. TypeOK /\ Safe /\ [Next]_vars => Safe'
  BY StepsAreSafe
<1> QED
  BY <1>1, <1>2, TypeCorrect, PTL DEF Spec, IInv

-----------------------------------------------------------------------------
\* No prize is transferred twice (PrizeAtMostOnce): however many oracle runs
\* overlap, wherever they crash and whatever the writes and the receipts answer.
THEOREM PaidAtMostOnce == Spec => []PrizeAtMostOnce
BY Inductive, PTL DEF IInv, Safe

\* The claim is exclusive (OneExecutor): at most one run is between its winning
\* conditional UPDATE and its last write.
THEOREM ClaimIsExclusive == Spec => []OneExecutor
BY Inductive, PTL DEF IInv, Safe

\* A league that can still be selected has not been paid and is not being paid
\* (PendingMeansUntouched): retrying it is harmless.
THEOREM RetryIsHarmless == Spec => []PendingMeansUntouched
BY Inductive, PTL DEF IInv, Safe

\* The stored transaction hash and the members' payout records never run ahead
\* of the chain (BooksMatchChain).
THEOREM BooksAreHonest == Spec => []BooksMatchChain
BY Inductive, PTL DEF IInv, Safe

-----------------------------------------------------------------------------
\* Every step of a run, the contract or the gateway is a step of PayoutOnce or a
\* stutter.
LEMMA StepsRefine == ASSUME IInv, [Next]_vars PROVE [Once!OnceNext]_(Once!onceVars)
<1> USE DEF IInv, TypeOK, Goto, EndRun, rowVars, chainVars, runVars, Once!onceVars
<1>1. ASSUME NEW r \in Runs,
             StartRun(r) \/ Submit(r) \/ GetReceipt(r) \/ RecordMembers(r) \/ Crash(r)
      PROVE UNCHANGED Once!onceVars
  BY <1>1 DEF StartRun, Submit, GetReceipt, RecordMembers, Crash
<1>2. ASSUME NEW r \in Runs, NEW o \in WriteOutcome,
             FetchPlatformStatus(r, o) \/ ResolveWinners(r, o) \/ ReadEscrow(r, o)
      PROVE UNCHANGED Once!onceVars
  BY <1>2 DEF FetchPlatformStatus, ResolveWinners, ReadEscrow
<1>3. ASSUME NEW r \in Runs, NEW o \in WriteOutcome, SettleWithoutPayout(r, o)
      PROVE [Once!SettleNothing]_(Once!onceVars)
  BY <1>3 DEF SettleWithoutPayout, Once!SettleNothing, Once!NothingPaid,
              Safe, PendingMeansUntouched, NothingPaid
<1>4. ASSUME NEW r \in Runs, NEW o \in WriteOutcome, ClaimPayout(r, o)
      PROVE [Once!Claim]_(Once!onceVars)
  BY <1>4 DEF ClaimPayout, ClaimWins, Once!Claim
<1>5. ASSUME NEW r \in Runs, NEW o \in WriteOutcome, MarkFailed(r, o)
      PROVE [Once!GiveUp]_(Once!onceVars)
  BY <1>5 DEF MarkFailed, Once!GiveUp
<1>6. ASSUME NEW r \in Runs, NEW o \in WriteOutcome, MarkExecuted(r, o)
      PROVE [Once!Confirm]_(Once!onceVars)
  <2>1. ~ Once!NothingPaid
    BY <1>6 DEF MarkExecuted, Safe, ReceiptSeen, WinnersExist, SuccessPaid, Once!NothingPaid
  <2> QED
    BY <1>6, <2>1 DEF MarkExecuted, Once!Confirm
<1>7. ASSUME NEW r \in Runs, Land(r)
      PROVE Once!Pay(resolved[r]) \/ UNCHANGED Once!onceVars
  BY <1>7 DEF Land, Once!Pay, Once!NothingPaid, Safe, OneInFlight, NothingPaid
<1>8. CASE PayEntryFee \/ EscrowOutflow \/ MirrorCatchesUp \/ PlatformAdvances
  BY <1>8 DEF PayEntryFee, EscrowOutflow, MirrorCatchesUp, PlatformAdvances
<1>9. CASE ImportFetch \/ ImportUpsert \/ RefreshStatus \/ UpdateLeagueSettings
  BY <1>9 DEF ImportFetch, ImportUpsert, RefreshStatus, UpdateLeagueSettings
<1>10. CASE CancelLeague \/ ReactivateLeague \/ DeleteLeague
  BY <1>10 DEF CancelLeague, ReactivateLeague, DeleteLeague
<1>11. CASE UNCHANGED vars
  BY <1>11 DEF vars
<1> QED
  BY <1>1, <1>2, <1>3, <1>4, <1>5, <1>6, <1>7, <1>8, <1>9, <1>10, <1>11
     DEF Next, NextWithoutReimport, RunStep, WriteOutcome, Once!OnceNext

\* The season-end job implements PayoutOnce (ImplementsPayoutOnce): prizes leave
\* the escrow once at most, claimed before and recorded only after.
THEOREM Refinement == Spec => ImplementsPayoutOnce
<1>1. Init => Once!OnceInit
  BY DEF Init, Once!OnceInit
<1>2. IInv /\ [Next]_vars => [Once!OnceNext]_(Once!onceVars)
  BY StepsRefine
<1> QED
  BY <1>1, <1>2, Inductive, PTL DEF Spec, ImplementsPayoutOnce, Once!OnceSpec

\* After "executed" nothing more is transferred and the record stays
\* (SettledIsFinal): no transaction of the league is still under way then.
THEOREM ExecutedIsFinal == Spec => SettledIsFinal
<1>1. ASSUME IInv, [Next]_vars, payoutStatus = "executed"
      PROVE payoutStatus' = "executed" /\ received' = received
  <2>1. [Once!OnceNext]_(Once!onceVars)
    BY <1>1, StepsRefine
  <2> QED
    BY <1>1, <2>1 DEF Once!OnceNext, Once!onceVars, Once!Claim, Once!Pay, Once!GiveUp,
                      Once!Confirm, Once!SettleNothing
<1> QED
  BY <1>1, Inductive, PTL DEF Spec, SettledIsFinal
=============================================================================
