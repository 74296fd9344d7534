---------------------------- MODULE LeagueEscrow ----------------------------
(***************************************************************************)
(* The escrow contract, contracts/src/LeagueEscrow.sol: one pot of USDC    *)
(* that holds the entry fees of every league, and two books about it.  A   *)
(* call that reverts leaves everything as it was, so each action is a call *)
(* that goes through and its guard is what the call requires.              *)
(***************************************************************************)
EXTENDS Naturals, FiniteSets, FiniteSetsExt, Sequences, SequencesExt

CONSTANTS
  Leagues,     \* league ids (bytes32)
  Accounts,    \* accounts that can pay, be refunded or be paid
  Associated,  \* the accounts the USDC token is associated with
  Funds,       \* bound: what each account's wallet holds at first
  MaxPaidOut,  \* bound: what distributePayout ever pays for one league
  MaxPayouts   \* bound: the length of a payout list

\* Ids are 32 bytes and addresses 20.
ASSUME IdsAssumption == IsFiniteSet(Leagues) /\ IsFiniteSet(Accounts)
ASSUME FundsAssumption == Funds \in Nat
ASSUME MaxPaidOutAssumption == MaxPaidOut \in Nat
ASSUME MaxPayoutsAssumption == MaxPayouts \in Nat

VARIABLES
  payments,      \* payments[l][a]: what a has paid for l and not reclaimed
  leagueTotals,  \* leagueTotals[l]: what is left of l's money
  pot,           \* USDC balance of the contract
  wallet,        \* USDC balance of each account (the token's book)
  distributed,   \* what distributePayout has paid for each league
  withdrawn      \* what the owner took out with emergencyWithdraw

bookVars == <<payments, leagueTotals, distributed>>
tokenVars == <<pot, wallet>>
escrowVars == <<bookVars, tokenVars, withdrawn>>

Sum(book, S) == MapThenSumSet(LAMBDA x : book[x], S)
Total(book) == Sum(book, DOMAIN book)

TypeOK ==
  /\ payments \in [Leagues -> [Accounts -> Nat]]
  /\ leagueTotals \in [Leagues -> Nat]
  /\ pot \in Nat
  /\ wallet \in [Accounts -> Nat]
  /\ distributed \in [Leagues -> Nat]
  /\ withdrawn \in Nat

\* The constructor associates USDC with the contract; both mappings are empty.
Init ==
  /\ payments = [l \in Leagues |-> [a \in Accounts |-> 0]]
  /\ leagueTotals = [l \in Leagues |-> 0]
  /\ pot = 0
  /\ wallet = [a \in Accounts |-> Funds]
  /\ distributed = [l \in Leagues |-> 0]
  /\ withdrawn = 0

\* payEntryFee: repeated payments add up.  transferFrom reverts the call without
\* the balance (and without the member's approve, which it uses up).
PayEntryFee(l, a, amount) ==
  /\ amount > 0
  /\ amount <= wallet[a]
  /\ payments' = [payments EXCEPT ![l][a] = @ + amount]
  /\ leagueTotals' = [leagueTotals EXCEPT ![l] = @ + amount]
  /\ wallet' = [wallet EXCEPT ![a] = @ - amount]
  /\ pot' = pot + amount
  /\ UNCHANGED <<distributed, withdrawn>>

\* Mutant: the refund leaves leagueTotals alone.
RefundOffTheBook(l, a) ==
  /\ payments[l][a] > 0 /\ payments[l][a] <= pot
  /\ a \in Associated
  /\ payments' = [payments EXCEPT ![l][a] = 0]
  /\ wallet' = [wallet EXCEPT ![a] = @ + payments[l][a]]
  /\ pot' = pot - payments[l][a]
  /\ UNCHANGED <<leagueTotals, distributed, withdrawn>>

\* claimRefund: all that a paid for l, if l's book and the pot still cover it
\* (the checked subtraction reverts otherwise).  Any caller, any time.
ClaimRefund(l, a) ==
  LET amount == payments[l][a] IN
  /\ amount > 0
  /\ amount <= leagueTotals[l] /\ amount <= pot
  /\ a \in Associated
  /\ payments' = [payments EXCEPT ![l][a] = 0]
  /\ leagueTotals' = [leagueTotals EXCEPT ![l] = @ - amount]
  /\ wallet' = [wallet EXCEPT ![a] = @ + amount]
  /\ pot' = pot - amount
  /\ UNCHANGED <<distributed, withdrawn>>

\* A payout list: recipients and amounts, index by index.  The same account may
\* appear more than once.
AmountsOf(payouts) == [i \in DOMAIN payouts |-> payouts[i].amount]

PayoutTotal(payouts) == Total(AmountsOf(payouts))

PaidTo(a, payouts) ==
  Sum(AmountsOf(payouts), {i \in DOMAIN payouts : payouts[i].to = a})

\* Mutant: no cap by the league's own total.
DistributeUncapped(l, payouts) ==
  LET total == PayoutTotal(payouts) IN
  /\ total <= pot
  /\ \A i \in DOMAIN payouts : payouts[i].to \in Associated
  /\ leagueTotals' = [leagueTotals EXCEPT ![l] = @ - total]
  /\ distributed' = [distributed EXCEPT ![l] = @ + total]
  /\ wallet' = [a \in Accounts |-> wallet[a] + PaidTo(a, payouts)]
  /\ pot' = pot - total
  /\ UNCHANGED <<payments, withdrawn>>

\* Mutant: only the last amount of the list is deducted from the league.
DistributeLast(l, payouts) ==
  LET total == PayoutTotal(payouts) IN
  /\ total <= leagueTotals[l] /\ total <= pot
  /\ \A i \in DOMAIN payouts : payouts[i].to \in Associated
  /\ leagueTotals' = [leagueTotals EXCEPT ![l] = @ - Last(payouts).amount]
  /\ distributed' = [distributed EXCEPT ![l] = @ + total]
  /\ wallet' = [a \in Accounts |-> wallet[a] + PaidTo(a, payouts)]
  /\ pot' = pot - total
  /\ UNCHANGED <<payments, withdrawn>>

\* distributePayout, owner only: capped by the league's own total, which it
\* reduces; the payments of the members stay on the book.
DistributePayout(l, payouts) ==
  LET total == PayoutTotal(payouts) IN
  /\ total <= leagueTotals[l] /\ total <= pot
  /\ \A i \in DOMAIN payouts : payouts[i].to \in Associated
  /\ leagueTotals' = [leagueTotals EXCEPT ![l] = @ - total]
  /\ distributed' = [distributed EXCEPT ![l] = @ + total]
  /\ wallet' = [a \in Accounts |-> wallet[a] + PaidTo(a, payouts)]
  /\ pot' = pot - total
  /\ UNCHANGED <<payments, withdrawn>>

\* emergencyWithdraw of USDC, owner only: no book learns of it.
EmergencyWithdraw(amount) ==
  /\ amount <= pot
  /\ pot' = pot - amount
  /\ withdrawn' = withdrawn + amount
  /\ UNCHANGED <<bookVars, wallet>>

Amounts == 1..Funds
Payouts == BoundedSeq([to : Accounts, amount : Amounts], MaxPayouts) \ {<<>>}

Next ==
  \/ \E l \in Leagues, a \in Accounts :
       ClaimRefund(l, a) \/ \E n \in Amounts : PayEntryFee(l, a, n)
  \/ \E l \in Leagues, payouts \in Payouts :
       distributed[l] + PayoutTotal(payouts) <= MaxPaidOut /\ DistributePayout(l, payouts)
  \/ \E n \in Amounts : EmergencyWithdraw(n)

Spec == Init /\ [][Next]_escrowVars

-----------------------------------------------------------------------------
\* The pot holds exactly what the leagues' books say, up to what the owner took:
\* no league's payout or refund is ever paid with another league's money.
PotBacksEveryLeague == pot + withdrawn = Total(leagueTotals)

\* A league's total is what its members have in it, less what was paid out: the
\* payments book alone says more than is there once a payout has happened.
TotalsAreNetOfPayouts ==
  \A l \in Leagues : leagueTotals[l] + distributed[l] = Total(payments[l])

\* Until a league is paid out or the owner takes money away, each of its members can
\* be refunded in full, whatever the other leagues pay, reclaim or pay out of the pot.
RefundsAreCovered ==
  \A l \in Leagues, a \in Accounts :
    distributed[l] = 0 /\ withdrawn = 0 =>
      payments[l][a] <= leagueTotals[l] /\ payments[l][a] <= pot
=============================================================================
