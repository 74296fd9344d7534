----------------------------- MODULE PayoutOnce -----------------------------
(***************************************************************************)
(* What the season-end payout of one league promises, without saying how:  *)
(* the placement prizes leave the escrow at most once, only after the      *)
(* payout was claimed, and "executed" is recorded only for a payout that   *)
(* has been made or for a league with nothing to pay.  SeasonEnd refines   *)
(* this specification.                                                     *)
(***************************************************************************)
EXTENDS Naturals

CONSTANT Places        \* the places (first, second, ...) that can carry a prize

VARIABLES phase,       \* the payout_status a reader of the league row sees
          received     \* how often the prize of each place was transferred

onceVars == <<phase, received>>

Phase == {"pending", "executing", "executed", "failed"}

NothingPaid == \A p \in Places : received[p] = 0

OnceInit == /\ phase = "pending"
            /\ received = [p \in Places |-> 0]

\* The right to pay is taken exactly once: no step ever returns to "pending".
Claim == /\ phase = "pending"
         /\ phase' = "executing"
         /\ UNCHANGED received

\* The transfers of one payout happen together, and only if none happened
\* before.  They may still land after the payer gave up on them ("failed").
Pay(won) == /\ phase \in {"executing", "failed"}
            /\ NothingPaid
            /\ received' = [p \in Places |-> received[p] + (IF p \in won THEN 1 ELSE 0)]
            /\ UNCHANGED phase

GiveUp == /\ phase = "executing"
          /\ phase' = "failed"
          /\ UNCHANGED received

Confirm == /\ phase = "executing"
           /\ ~ NothingPaid
           /\ phase' = "executed"
           /\ UNCHANGED received

SettleNothing == /\ phase = "pending"
                 /\ NothingPaid
                 /\ phase' = "executed"
                 /\ UNCHANGED received

OnceNext == \/ Claim \/ GiveUp \/ Confirm \/ SettleNothing
            \/ \E won \in SUBSET Places : Pay(won)

OnceSpec == OnceInit /\ [][OnceNext]_onceVars
=============================================================================
