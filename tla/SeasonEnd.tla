------------------------------ MODULE SeasonEnd ------------------------------
(***************************************************************************)
(* The season-end settlement of one league: RunSeasonEndPayoutJob and      *)
(* settleSeasonEnd of internal/league/service_oracle.go, run by any number *)
(* of overlapping oracle processes, each of which may crash between any    *)
(* two of its calls, together with everything that changes the same league *)
(* row or the same escrow underneath it: the gateway's import, settings,   *)
(* cancel, reactivate and delete handlers, the oracle's status refresh,    *)
(* deposits and refunds on the contract, and a Mirror Node that lags.      *)
(***************************************************************************)
EXTENDS Naturals, FiniteSets

CONSTANTS
  Runs,        \* the oracle processes that can be alive at the same time
  Places,      \* the places a "placement" entry of a payout structure can name
  Due,         \* Due[S]: what the placement entries of the places in S add up to
  MaxEscrow    \* bound: escrow deposits stop at this many units

ASSUME DueAssumption == Due \in [SUBSET Places -> Nat]
ASSUME MaxEscrowAssumption == MaxEscrow \in Nat

VARIABLES
  \* the row of table leagues
  present,       \* the row exists (DeleteLeague removes it for good)
  status,        \* leagues.status
  payoutStatus,  \* leagues.payout_status
  cancelled,     \* leagues.cancelled_at IS NOT NULL
  structure,     \* the places with a placement entry in leagues.payout_structure
  hashStored,    \* leagues.payout_tx_hash IS NOT NULL
  recorded,      \* the places whose member row carries payout_paid_at
  \* outside the database
  platform,      \* the status the fantasy platform reports for the league
  importing,     \* the platform status a running ImportLeague has fetched
  escrow,        \* leagueTotals of the league in the escrow contract
  mirror,        \* leagueTotals as the Mirror Node answers it
  received,      \* how often each place's prize was transferred
  \* the oracle runs
  pc,            \* the call a run makes next
  entries,       \* league.PayoutStructure as the run's SELECT returned it
  resolved,      \* the winners the run found an address for
  tx             \* the distributePayout transaction the run submitted

rowVars == <<present, status, payoutStatus, cancelled, structure, hashStored, recorded>>
chainVars == <<escrow, mirror, received>>
runVars == <<pc, entries, resolved, tx>>
vars == <<rowVars, platform, importing, chainVars, runVars>>

\* "drafting" behaves as "pre_draft" here; StatusRefresh has all statuses.
LeagueStatus == {"pre_draft", "in_season", "post_season", "complete"}
PayoutStatus == {"pending", "executing", "executed", "failed"}
Step == {"idle", "platformStatus", "resolve", "settle", "escrowBalance", "claim",
         "distribute", "receipt", "markFailed", "markExecuted", "recordMembers"}
TxState == {"none", "sent", "success", "dead"}

\* A write is applied, is rejected, or is applied while the caller sees an error
\* (connection lost after the commit, context deadline).
WriteOutcome == {"ok", "error", "inDoubt"}

Applied(outcome) == outcome # "error"

NothingPaid == \A p \in Places : received[p] = 0

TypeOK ==
  /\ present \in BOOLEAN
  /\ status \in LeagueStatus
  /\ payoutStatus \in PayoutStatus
  /\ cancelled \in BOOLEAN
  /\ structure \in SUBSET Places
  /\ hashStored \in BOOLEAN
  /\ recorded \in SUBSET Places
  /\ platform \in LeagueStatus
  /\ importing \in LeagueStatus \cup {"none"}
  /\ escrow \in Nat
  /\ mirror \in Nat
  /\ received \in [Places -> Nat]
  /\ pc \in [Runs -> Step]
  /\ entries \in [Runs -> SUBSET Places]
  /\ resolved \in [Runs -> SUBSET Places]
  /\ tx \in [Runs -> TxState]

Init ==
  /\ present = TRUE
  /\ platform \in LeagueStatus
  /\ status = platform          \* the first ImportLeague stores what it fetched
  /\ payoutStatus = "pending"   \* column default
  /\ cancelled = FALSE
  /\ structure \in SUBSET Places
  /\ hashStored = FALSE
  /\ recorded = {}
  /\ importing = "none"
  /\ escrow = 0
  /\ mirror = 0
  /\ received = [p \in Places |-> 0]
  /\ pc = [r \in Runs |-> "idle"]
  /\ entries = [r \in Runs |-> {}]
  /\ resolved = [r \in Runs |-> {}]
  /\ tx = [r \in Runs |-> "none"]

-----------------------------------------------------------------------------
(* Oracle runs.  A run that has nothing more to do for the league ends it.  *)

Goto(r, step) == pc' = [pc EXCEPT ![r] = step]
EndRun(r) == Goto(r, "idle")

\* The SELECT of RunSeasonEndPayoutJob.
Selectable == present /\ status = "in_season" /\ payoutStatus = "pending" /\ ~cancelled

\* A run starts and its query returns the league.  A slot is used again only
\* when its last transaction is decided: transactions expire after minutes, the
\* season cron fires weekly.
StartRun(r) ==
  /\ pc[r] = "idle"
  /\ tx[r] # "sent"
  /\ Selectable
  /\ Goto(r, "platformStatus")
  /\ entries' = [entries EXCEPT ![r] = structure]
  /\ resolved' = [resolved EXCEPT ![r] = {}]
  /\ tx' = [tx EXCEPT ![r] = "none"]
  /\ UNCHANGED <<rowVars, platform, importing, chainVars>>


\* deps.platformStatus, and the split of the payout structure that follows it.
FetchPlatformStatus(r, outcome) ==
  /\ pc[r] = "platformStatus"
  /\ IF outcome = "ok" /\ platform = "complete"
     THEN Goto(r, IF entries[r] = {} THEN "settle" ELSE "resolve")
     ELSE EndRun(r)
  /\ UNCHANGED <<rowVars, platform, importing, chainVars, entries, resolved, tx>>

\* finalStandings, loadMembers and the resolve loop: reads only.  A place drops
\* out when it has no standing, its roster no linked member, the member no
\* wallet, or the wallet no EVM address.
ResolveWinners(r, outcome) ==
  /\ pc[r] = "resolve"
  /\ \/ /\ outcome = "error"
        /\ EndRun(r)
        /\ UNCHANGED resolved
     \/ /\ outcome = "ok"
        /\ \E found \in SUBSET entries[r] :
             /\ resolved' = [resolved EXCEPT ![r] = found]
             /\ Goto(r, IF found = {} THEN "settle" ELSE "escrowBalance")
  /\ UNCHANGED <<rowVars, platform, importing, chainVars, entries, tx>>

\* Mutant: the settling UPDATE without its WHERE payout_status = 'pending'.
SettleAnyway(r, outcome) ==
  /\ pc[r] = "settle"
  /\ IF present /\ Applied(outcome)
     THEN status' = "complete" /\ payoutStatus' = "executed"
     ELSE UNCHANGED <<status, payoutStatus>>
  /\ EndRun(r)
  /\ UNCHANGED <<present, cancelled, structure, hashStored, recorded,
                 platform, importing, chainVars, entries, resolved, tx>>

\* deps.markSettledWithoutPayout: nothing to pay, one conditional UPDATE.
SettleWithoutPayout(r, outcome) ==
  /\ pc[r] = "settle"
  /\ IF present /\ payoutStatus = "pending" /\ Applied(outcome)
     THEN status' = "complete" /\ payoutStatus' = "executed"
     ELSE UNCHANGED <<status, payoutStatus>>
  /\ EndRun(r)
  /\ UNCHANGED <<present, cancelled, structure, hashStored, recorded,
                 platform, importing, chainVars, entries, resolved, tx>>

\* deps.escrowBalance: the Mirror Node's answer against the total to pay.
\* Short or unreadable: the run gives up without having written anything.
ReadEscrow(r, outcome) ==
  /\ pc[r] = "escrowBalance"
  /\ IF outcome = "ok" /\ Due[resolved[r]] <= mirror
     THEN Goto(r, "claim")
     ELSE EndRun(r)
  /\ UNCHANGED <<rowVars, platform, importing, chainVars, entries, resolved, tx>>

\* Mutant: the claim without its WHERE payout_status = 'pending'.
ClaimAnyRow(outcome) == present /\ Applied(outcome)

\* deps.claimPayout: pending -> executing, only where the row is still pending.
\* A run goes on only if it knows that its own UPDATE matched the row.
ClaimWins(outcome) == present /\ payoutStatus = "pending" /\ Applied(outcome)

\* Mutant: a claim that matched no row is not told from one that did.
ClaimUnread(r, outcome) ==
  /\ pc[r] = "claim"
  /\ payoutStatus' = IF ClaimWins(outcome) THEN "executing" ELSE payoutStatus
  /\ IF outcome = "ok" THEN Goto(r, "distribute") ELSE EndRun(r)
  /\ UNCHANGED <<present, status, cancelled, structure, hashStored, recorded,
                 platform, importing, chainVars, entries, resolved, tx>>

ClaimPayout(r, outcome) ==
  /\ pc[r] = "claim"
  /\ payoutStatus' = IF ClaimWins(outcome) THEN "executing" ELSE payoutStatus
  /\ IF ClaimWins(outcome) /\ outcome = "ok" THEN Goto(r, "distribute") ELSE EndRun(r)
  /\ UNCHANGED <<present, status, cancelled, structure, hashStored, recorded,
                 platform, importing, chainVars, entries, resolved, tx>>

\* Mutant: the transaction counts as executed as soon as it is handed over.
SubmitAndForget(r) ==
  /\ pc[r] = "distribute"
  /\ tx' = [tx EXCEPT ![r] = "sent"]
  /\ Goto(r, "markExecuted")
  /\ UNCHANGED <<rowVars, platform, importing, chainVars, entries, resolved>>

\* ExecuteDistributePayout, first half: hand the transaction to the network.
\* Execute may report an error for a transaction a node did accept.
Submit(r) ==
  /\ pc[r] = "distribute"
  /\ \/ /\ tx' = [tx EXCEPT ![r] = "sent"]
        /\ pc' \in {[pc EXCEPT ![r] = "receipt"], [pc EXCEPT ![r] = "markFailed"]}
     \/ /\ Goto(r, "markFailed")
        /\ UNCHANGED tx
  /\ UNCHANGED <<rowVars, platform, importing, chainVars, entries, resolved>>

\* Mutant: the status inside the receipt is not looked at.
AnyReceipt(r) ==
  /\ pc[r] = "receipt"
  /\ tx[r] \in {"success", "dead"}
  /\ Goto(r, "markExecuted")
  /\ UNCHANGED <<rowVars, platform, importing, chainVars, entries, resolved, tx>>

\* Second half: the receipt.  An error while asking for it, at any time, and a
\* transaction that did not succeed are the same to the caller.
GetReceipt(r) ==
  /\ pc[r] = "receipt"
  /\ \/ tx[r] = "success" /\ Goto(r, "markExecuted")
     \/ Goto(r, "markFailed")
  /\ UNCHANGED <<rowVars, platform, importing, chainVars, entries, resolved, tx>>

\* Mutant: a payout that failed is put back in the queue.
RequeueFailed(r, outcome) ==
  /\ pc[r] = "markFailed"
  /\ payoutStatus' = IF present /\ payoutStatus = "executing" /\ Applied(outcome)
                     THEN "pending" ELSE payoutStatus
  /\ EndRun(r)
  /\ UNCHANGED <<present, status, cancelled, structure, hashStored, recorded,
                 platform, importing, chainVars, entries, resolved, tx>>

\* deps.markPayoutFailed.
MarkFailed(r, outcome) ==
  /\ pc[r] = "markFailed"
  /\ payoutStatus' = IF present /\ payoutStatus = "executing" /\ Applied(outcome)
                     THEN "failed" ELSE payoutStatus
  /\ EndRun(r)
  /\ UNCHANGED <<present, status, cancelled, structure, hashStored, recorded,
                 platform, importing, chainVars, entries, resolved, tx>>

\* deps.markPayoutExecuted, conditional on executing; the members are recorded
\* only if the caller knows that the row was updated.
MarkExecuted(r, outcome) ==
  /\ pc[r] = "markExecuted"
  /\ LET updated == present /\ payoutStatus = "executing" /\ Applied(outcome) IN
       /\ IF updated
          THEN status' = "complete" /\ payoutStatus' = "executed" /\ hashStored' = TRUE
          ELSE UNCHANGED <<status, payoutStatus, hashStored>>
       /\ IF updated /\ outcome = "ok" THEN Goto(r, "recordMembers") ELSE EndRun(r)
  /\ UNCHANGED <<present, cancelled, structure, recorded,
                 platform, importing, chainVars, entries, resolved, tx>>

\* deps.recordMemberPayout for every winner; a failed update is only logged.
RecordMembers(r) ==
  /\ pc[r] = "recordMembers"
  /\ \E done \in SUBSET resolved[r] :
       recorded' = IF present THEN recorded \cup done ELSE recorded
  /\ EndRun(r)
  /\ UNCHANGED <<present, status, payoutStatus, cancelled, structure, hashStored,
                 platform, importing, chainVars, entries, resolved, tx>>

\* The process dies (or its job timeout cuts it off) before its next call.
Crash(r) ==
  /\ pc[r] # "idle"
  /\ EndRun(r)
  /\ UNCHANGED <<rowVars, platform, importing, chainVars, entries, resolved, tx>>

RunStep(r) ==
  \/ StartRun(r) \/ Submit(r) \/ GetReceipt(r) \/ RecordMembers(r)
  \/ \E outcome \in {"ok", "error"} :
       FetchPlatformStatus(r, outcome) \/ ResolveWinners(r, outcome) \/ ReadEscrow(r, outcome)
  \/ \E outcome \in WriteOutcome :
       \/ SettleWithoutPayout(r, outcome) \/ ClaimPayout(r, outcome)
       \/ MarkFailed(r, outcome) \/ MarkExecuted(r, outcome)

-----------------------------------------------------------------------------
(* The escrow contract and the Mirror Node.                                 *)

\* Mutant: distributePayout without its cap by leagueTotals.
LandUncapped(r) ==
  /\ tx[r] = "sent"
  /\ tx' = [tx EXCEPT ![r] = "success"]
  /\ escrow' = escrow - Due[resolved[r]]
  /\ received' = [p \in Places |-> received[p] + (IF p \in resolved[r] THEN 1 ELSE 0)]
  /\ UNCHANGED <<rowVars, platform, importing, mirror, pc, entries, resolved>>

\* distributePayout runs atomically, and only if leagueTotals covers it; any
\* transfer that fails reverts it all, and a transaction may expire unexecuted.
Land(r) ==
  /\ tx[r] = "sent"
  /\ \/ /\ Due[resolved[r]] <= escrow
        /\ tx' = [tx EXCEPT ![r] = "success"]
        /\ escrow' = escrow - Due[resolved[r]]
        /\ received' = [p \in Places |-> received[p] + (IF p \in resolved[r] THEN 1 ELSE 0)]
     \/ /\ tx' = [tx EXCEPT ![r] = "dead"]
        /\ UNCHANGED <<escrow, received>>
  /\ UNCHANGED <<rowVars, platform, importing, mirror, pc, entries, resolved>>

\* payEntryFee of some member.
PayEntryFee ==
  /\ escrow < MaxEscrow
  /\ escrow' = escrow + 1
  /\ UNCHANGED <<rowVars, platform, importing, mirror, received, runVars>>

\* claimRefund of some member, or a weekly payout: leagueTotals goes down.
EscrowOutflow ==
  /\ escrow > 0
  /\ escrow' = escrow - 1
  /\ UNCHANGED <<rowVars, platform, importing, mirror, received, runVars>>

\* The Mirror Node catches up with consensus.
MirrorCatchesUp ==
  /\ mirror # escrow
  /\ mirror' = escrow
  /\ UNCHANGED <<rowVars, platform, importing, escrow, received, runVars>>

-----------------------------------------------------------------------------
(* The platform, the gateway's handlers and the status refresh.             *)

PlatformAdvances ==
  /\ \/ platform = "pre_draft" /\ platform' = "in_season"
     \/ platform = "in_season" /\ platform' = "post_season"
     \/ platform = "post_season" /\ platform' = "complete"
  /\ UNCHANGED <<rowVars, importing, chainVars, runVars>>

\* ImportLeague fetches the league from the platform first and upserts later.
ImportFetch ==
  /\ present
  /\ importing = "none"
  /\ importing' = platform
  /\ UNCHANGED <<rowVars, platform, chainVars, runVars>>

\* ON CONFLICT DO UPDATE SET status = EXCLUDED.status, whatever the row holds.
\* On a deleted league the upsert inserts another row, with an id of its own.
ImportUpsert ==
  /\ importing # "none"
  /\ status' = IF present THEN importing ELSE status
  /\ importing' = "none"
  /\ UNCHANGED <<present, payoutStatus, cancelled, structure, hashStored, recorded,
                 platform, chainVars, runVars>>

\* RefreshLeagueStatuses for this league: forward only, never above in_season.
RefreshStatus ==
  /\ present /\ ~cancelled
  /\ \/ status = "pre_draft" /\ platform # "pre_draft"
     \/ status = "post_season" /\ platform # "pre_draft"
  /\ status' = "in_season"
  /\ UNCHANGED <<present, payoutStatus, cancelled, structure, hashStored, recorded,
                 platform, importing, chainVars, runVars>>

UpdateLeagueSettings ==
  /\ present
  /\ structure' \in SUBSET Places
  /\ UNCHANGED <<present, status, payoutStatus, cancelled, hashStored, recorded,
                 platform, importing, chainVars, runVars>>

CancelLeague ==
  /\ present /\ ~cancelled
  /\ cancelled' = TRUE
  /\ UNCHANGED <<present, status, payoutStatus, structure, hashStored, recorded,
                 platform, importing, chainVars, runVars>>

ReactivateLeague ==
  /\ present /\ cancelled
  /\ cancelled' = FALSE
  /\ UNCHANGED <<present, status, payoutStatus, structure, hashStored, recorded,
                 platform, importing, chainVars, runVars>>

\* The last linked member leaves: the row goes, whatever its payout is doing.
DeleteLeague ==
  /\ present
  /\ present' = FALSE
  /\ UNCHANGED <<status, payoutStatus, cancelled, structure, hashStored, recorded,
                 platform, importing, chainVars, runVars>>

-----------------------------------------------------------------------------
NextWithoutReimport ==
  \/ PayEntryFee \/ EscrowOutflow \/ MirrorCatchesUp
  \/ PlatformAdvances \/ RefreshStatus
  \/ UpdateLeagueSettings \/ CancelLeague \/ ReactivateLeague \/ DeleteLeague
  \/ \E r \in Runs : RunStep(r) \/ Crash(r) \/ Land(r)

Next == NextWithoutReimport \/ ImportFetch \/ ImportUpsert

Spec == Init /\ [][Next]_vars

-----------------------------------------------------------------------------
(* Safety.                                                                  *)

HoldsClaim(r) == pc[r] \in {"distribute", "receipt", "markFailed", "markExecuted"}

\* No prize is transferred twice, whatever overlaps, crashes or is retried.
\* (The claim before distributePayout, settleSeasonEnd.)
PrizeAtMostOnce == \A p \in Places : received[p] <= 1

\* Only the run that won the claim is between its claim and its last write.
OneExecutor == \A r, s \in Runs : HoldsClaim(r) /\ HoldsClaim(s) => r = s

\* What makes a retry harmless: while a row can still be selected, no prize has
\* been transferred and no transaction that could transfer one is on its way.
PendingMeansUntouched ==
  payoutStatus = "pending" => NothingPaid /\ \A r \in Runs : tx[r] # "sent"

\* The database never claims more than the chain did: a stored transaction hash
\* stands for a payout that landed, a member is recorded only for a received prize.
BooksMatchChain ==
  /\ hashStored => \E p \in Places : received[p] > 0
  /\ \A p \in recorded : received[p] > 0

\* Once "executed" is recorded no prize of the league moves and the record stays.
SettledIsFinal ==
  [][payoutStatus = "executed" => payoutStatus' = "executed" /\ received' = received]_vars

\* The job as its callers may think of it: the row's payout_status and the
\* transfers behave as PayoutOnce allows.
Once == INSTANCE PayoutOnce WITH phase <- payoutStatus

ImplementsPayoutOnce == Once!OnceSpec

-----------------------------------------------------------------------------
(* Liveness.  The crons fire for ever, a run goes on until it ends, and a    *)
(* call that is repeated for ever does not fail for ever; no process is      *)
(* promised to survive, and nothing is promised of users or the platform.    *)
(* The league is imported before its season ends and not imported again.     *)

Fairness ==
  /\ WF_vars(MirrorCatchesUp) /\ WF_vars(RefreshStatus)
  /\ \A r \in Runs :
       /\ WF_vars(StartRun(r))
       /\ SF_vars(FetchPlatformStatus(r, "ok"))
       /\ SF_vars(ResolveWinners(r, "ok"))
       /\ SF_vars(SettleWithoutPayout(r, "ok"))
       /\ SF_vars(ReadEscrow(r, "ok"))
       /\ SF_vars(ClaimPayout(r, "ok"))

ImportedInTime == Init /\ platform # "complete"

LiveSpec == ImportedInTime /\ [][NextWithoutReimport]_vars /\ Fairness

\* The season is over on the platform and the escrow covers the prizes of the
\* structure, those of the places in S, but the payout is untouched.
Waiting(S) == /\ present /\ ~cancelled /\ payoutStatus = "pending"
              /\ platform = "complete" /\ structure = S /\ Due[S] <= escrow


-----------------------------------------------------------------------------
(* What the comments and documents say and the code does not keep.           *)

\* settleSeasonEnd's comment: "complete" is only ever written together with
\* payout_status = 'executed'.
CompleteOnlyWithExecuted == present /\ status = "complete" => payoutStatus = "executed"
=============================================================================
