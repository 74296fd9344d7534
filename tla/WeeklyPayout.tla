---------------------------- MODULE WeeklyPayout ----------------------------
(***************************************************************************)
(* The weekly bonuses of one league: RunWeeklyPayoutJob and                *)
(* processWeeklyPayoutsForLeague of internal/league/service_oracle.go, run *)
(* by oracle processes that may overlap and crash.  A bonus is first       *)
(* recorded as an event (table weekly_payout_events) and later paid, in    *)
(* one transaction per run, together with every other unexecuted event of  *)
(* that week.  There is no claim: the event is marked after the payment.   *)
(***************************************************************************)
EXTENDS Naturals, FiniteSets, FiniteSetsExt

CONSTANTS
  Runs,        \* the oracle processes that can be alive at the same time
  Rosters,     \* the rosters of the league that have a member with a wallet
  Bonuses,     \* the weekly entries of the payout structure, by bonus type
  LastWeek,    \* bound: the platform's week stops here
  MaxDeposits  \* bound: the units ever paid into the escrow; a bonus is one unit

ASSUME RostersAssumption == IsFiniteSet(Rosters)
ASSUME LastWeekAssumption == LastWeek \in Nat \ {0}
ASSUME MaxDepositsAssumption == MaxDeposits \in Nat
ASSUME BonusAssumption == Bonuses \subseteq {"weekly_high_score", "score_threshold"}

Weeks == 1..LastWeek

\* UNIQUE (league_id, week, roster_id, payout_type): the key is the event.
Event == [week : Weeks, roster : Rosters, bonus : Bonuses]

VARIABLES
  present,     \* the league row exists; its events go when it goes
  selectable,  \* the league is in_season, not cancelled and has weekly entries
  recorded,    \* the rows of weekly_payout_events
  executed,    \* those with executed_at set
  week,        \* the platform's current week
  escrow,      \* leagueTotals of the league in the escrow contract
  paid,        \* how often each event was paid
  pc,          \* the call a run makes next
  runWeek,     \* the week a run pays for
  batch,       \* the events a run is about to insert, pay or mark
  tx           \* the transaction a run submitted

eventVars == <<recorded, executed>>
chainVars == <<escrow, paid>>
runVars == <<pc, runWeek, batch, tx>>
leagueVars == <<present, selectable>>
weeklyVars == <<leagueVars, eventVars, week, chainVars, runVars>>

Step == {"idle", "matchups", "insert", "load", "escrowBalance", "distribute", "receipt", "mark"}

TypeOK ==
  /\ present \in BOOLEAN /\ selectable \in BOOLEAN
  /\ recorded \subseteq Event /\ executed \subseteq recorded
  /\ week \in 1..(LastWeek + 1)
  /\ escrow \in Nat /\ paid \in [Event -> Nat]
  /\ pc \in [Runs -> Step] /\ runWeek \in [Runs -> Weeks]
  /\ batch \in [Runs -> SUBSET Event]
  /\ tx \in [Runs -> {"none", "sent", "success", "dead"}]

Init ==
  /\ present = TRUE /\ selectable = TRUE
  /\ recorded = {} /\ executed = {}
  /\ week = 1
  /\ escrow = 0 /\ paid = [e \in Event |-> 0]
  /\ pc = [r \in Runs |-> "idle"] /\ runWeek = [r \in Runs |-> 1]
  /\ batch = [r \in Runs |-> {}] /\ tx = [r \in Runs |-> "none"]

-----------------------------------------------------------------------------
(* The runs.                                                                *)

Goto(r, step) == pc' = [pc EXCEPT ![r] = step]
SetBatch(r, events) == batch' = [batch EXCEPT ![r] = events]
EndRun(r) == Goto(r, "idle") /\ SetBatch(r, {})

\* The SELECT returns the league and GetCurrentWeek answers: the run pays for the
\* week before, and there is none in week 1.  The slot's last transaction is
\* decided: transactions expire after minutes, the weekly cron fires weekly.
StartRun(r) ==
  /\ pc[r] = "idle" /\ tx[r] # "sent"
  /\ present /\ selectable /\ week > 1
  /\ Goto(r, "matchups")
  /\ runWeek' = [runWeek EXCEPT ![r] = week - 1]
  /\ SetBatch(r, {})
  /\ tx' = [tx EXCEPT ![r] = "none"]
  /\ UNCHANGED <<leagueVars, eventVars, week, chainVars>>

\* weeklyQualifiers for every weekly entry: highScorer keeps one roster at most,
\* thresholdScorers any number; rosters without a member or a wallet drop out.
Qualifiers == {won \in [Bonuses -> SUBSET Rosters] :
                 "weekly_high_score" \in Bonuses => Cardinality(won["weekly_high_score"]) <= 1}

\* GetLeagueMatchups and GetLeagueMembers.  The platform may answer with other
\* scores than last time (a stat correction), or with tied matchups in another
\* order: highScorer keeps the first of the best.
FetchMatchups(r, outcome) ==
  /\ pc[r] = "matchups"
  /\ \/ /\ outcome = "ok"
        /\ \E won \in Qualifiers :
             SetBatch(r, {e \in Event : e.week = runWeek[r] /\ e.roster \in won[e.bonus]})
        /\ Goto(r, "insert")
     \/ outcome = "error" /\ EndRun(r)
  /\ UNCHANGED <<leagueVars, eventVars, week, chainVars, runWeek, tx>>

\* Mutant: the INSERT without ON CONFLICT DO NOTHING, an error on a second run.
InsertFreshEvents(r, done) ==
  /\ pc[r] = "insert"
  /\ done \subseteq batch[r] \ recorded
  /\ done # {} => present
  /\ recorded' = recorded \cup done
  /\ \/ done = batch[r] /\ Goto(r, "load") /\ SetBatch(r, {})
     \/ batch[r] # {} /\ EndRun(r)
  /\ UNCHANGED <<leagueVars, executed, week, chainVars, runWeek, tx>>

\* The INSERT ... ON CONFLICT DO NOTHING of every qualifier.  The first error ends
\* the run with only the events of done on record; a deleted league fails at once.
\* One step for the loop: what another run could see in the middle of it,
\* LoadEvents may leave out of found.
InsertEvents(r, done) ==
  /\ pc[r] = "insert"
  /\ done \subseteq batch[r]
  /\ done # {} => present
  /\ recorded' = recorded \cup done
  /\ \/ done = batch[r] /\ Goto(r, "load") /\ SetBatch(r, {})
     \/ batch[r] # {} /\ EndRun(r)
  /\ UNCHANGED <<leagueVars, executed, week, chainVars, runWeek, tx>>

\* Mutant: the query without its executed_at IS NULL.
Loadable(w) == {e \in recorded : e.week = w}

\* The unexecuted events of the run's week, those of earlier runs included.
Unexecuted(w) == {e \in recorded \ executed : e.week = w}

\* The SELECT of the events.  An event whose wallet does not resolve is left out
\* of found; with nothing to pay, or an error, the run ends.
LoadEvents(r, found) ==
  /\ pc[r] = "load"
  /\ found \subseteq Unexecuted(runWeek[r])
  /\ IF found = {} THEN EndRun(r) ELSE SetBatch(r, found) /\ Goto(r, "escrowBalance")
  /\ UNCHANGED <<leagueVars, eventVars, week, chainVars, runWeek, tx>>

\* leagueTotals by the Mirror Node.  Its answer may be late, so it bounds nothing:
\* it says enough, or (short, or no answer) the run ends, the events unexecuted.
ReadEscrow(r, outcome) ==
  /\ pc[r] = "escrowBalance"
  /\ \/ outcome = "ok" /\ Goto(r, "distribute") /\ UNCHANGED batch
     \/ outcome = "error" /\ EndRun(r)
  /\ UNCHANGED <<leagueVars, eventVars, week, chainVars, runWeek, tx>>

\* ExecuteDistributePayout, first half: the transaction is handed over, with or
\* without the caller knowing, or it is not.
Submit(r) ==
  /\ pc[r] = "distribute"
  /\ \/ tx' = [tx EXCEPT ![r] = "sent"] /\ Goto(r, "receipt")
     \/ Goto(r, "idle") /\ UNCHANGED tx
  /\ UNCHANGED <<leagueVars, eventVars, week, chainVars, runWeek, batch>>

\* Second half: only a receipt that reports success lets the run go on.
GetReceipt(r, outcome) ==
  /\ pc[r] = "receipt"
  /\ \/ outcome = "ok" /\ tx[r] = "success" /\ Goto(r, "mark")
     \/ outcome = "error" /\ Goto(r, "idle")
  /\ UNCHANGED <<leagueVars, eventVars, week, chainVars, runWeek, batch, tx>>

\* Mutant: every event of the week is marked, not only those of the transaction.
MarkWeek(r, done) ==
  /\ pc[r] = "mark"
  /\ done \subseteq batch[r]
  /\ executed' = executed \cup {e \in recorded : e.week = runWeek[r]}
  /\ EndRun(r)
  /\ UNCHANGED <<leagueVars, recorded, week, chainVars, runWeek, tx>>

\* UPDATE ... SET executed_at for every event of the transaction; one that fails
\* is logged and the loop goes on.
MarkEvents(r, done) ==
  /\ pc[r] = "mark"
  /\ done \subseteq batch[r]
  /\ executed' = executed \cup (done \cap recorded)
  /\ EndRun(r)
  /\ UNCHANGED <<leagueVars, recorded, week, chainVars, runWeek, tx>>

Crash(r) ==
  /\ pc[r] # "idle"
  /\ Goto(r, "idle")
  /\ UNCHANGED <<leagueVars, eventVars, week, chainVars, runWeek, batch, tx>>

\* Mutant: distributePayout without its cap by leagueTotals.
LandUncapped(r) ==
  /\ tx[r] = "sent"
  /\ tx' = [tx EXCEPT ![r] = "success"]
  /\ escrow' = escrow - Cardinality(batch[r])
  /\ paid' = [e \in Event |-> paid[e] + (IF e \in batch[r] THEN 1 ELSE 0)]
  /\ UNCHANGED <<leagueVars, eventVars, week, pc, runWeek, batch>>

\* distributePayout: all the transfers of the batch, or none.
Land(r) ==
  /\ tx[r] = "sent"
  /\ \/ /\ Cardinality(batch[r]) <= escrow
        /\ tx' = [tx EXCEPT ![r] = "success"]
        /\ escrow' = escrow - Cardinality(batch[r])
        /\ paid' = [e \in Event |-> paid[e] + (IF e \in batch[r] THEN 1 ELSE 0)]
     \/ /\ tx' = [tx EXCEPT ![r] = "dead"]
        /\ UNCHANGED <<escrow, paid>>
  /\ UNCHANGED <<leagueVars, eventVars, week, pc, runWeek, batch>>

RunStep(r) ==
  \/ StartRun(r) \/ Submit(r)
  \/ \E events \in SUBSET Event :
       InsertEvents(r, events) \/ LoadEvents(r, events) \/ MarkEvents(r, events)
  \/ \E outcome \in {"ok", "error"} :
       FetchMatchups(r, outcome) \/ ReadEscrow(r, outcome) \/ GetReceipt(r, outcome)

-----------------------------------------------------------------------------
(* The platform, the escrow and the league row.                             *)

WeekAdvances ==
  /\ week <= LastWeek
  /\ week' = week + 1
  /\ UNCHANGED <<leagueVars, eventVars, chainVars, runVars>>

PayEntryFee ==
  /\ escrow + MapThenSumSet(LAMBDA e : paid[e], Event) < MaxDeposits
  /\ escrow' = escrow + 1
  /\ UNCHANGED <<leagueVars, eventVars, week, paid, runVars>>

\* Cancel, reactivate, settings, refresh and the season-end job.
LeagueChanges ==
  /\ present
  /\ selectable' = ~selectable
  /\ UNCHANGED <<present, eventVars, week, chainVars, runVars>>

\* DeleteLeague by the last linked member; ON DELETE CASCADE takes the events.
DeleteLeague ==
  /\ present
  /\ present' = FALSE /\ recorded' = {} /\ executed' = {}
  /\ UNCHANGED <<selectable, week, chainVars, runVars>>

Next ==
  \/ WeekAdvances \/ PayEntryFee \/ LeagueChanges \/ DeleteLeague
  \/ \E r \in Runs : RunStep(r) \/ Crash(r) \/ Land(r)

Spec == Init /\ [][Next]_weeklyVars

-----------------------------------------------------------------------------
(* Safety.                                                                  *)

\* The event table never runs ahead of the chain, and the chain never ahead of
\* it: an event marked executed was paid, an event that was paid is on record for
\* as long as the league is.
EventsMatchChain ==
  \A e \in Event : /\ e \in executed => paid[e] > 0
                   /\ present /\ paid[e] > 0 => e \in recorded

\* With runs one after the other, as the cron makes them, an event that got its
\* mark is never paid again, whatever crashed in between.
MarkedIsNeverRepaid == [][\A e \in executed : paid'[e] = paid[e]]_weeklyVars

-----------------------------------------------------------------------------
(* Liveness.  Runs recur and go on, and what is repeated for ever does not   *)
(* fail for ever.                                                            *)

Fairness ==
  \A r \in Runs :
    /\ WF_weeklyVars(StartRun(r)) /\ WF_weeklyVars(RunStep(r))
    /\ SF_weeklyVars(FetchMatchups(r, "ok"))
    /\ SF_weeklyVars(InsertEvents(r, batch[r]) /\ pc'[r] = "load")
    /\ SF_weeklyVars(LoadEvents(r, Unexecuted(runWeek[r])))
    /\ SF_weeklyVars(ReadEscrow(r, "ok"))
    /\ SF_weeklyVars(Submit(r) /\ tx'[r] = "sent")
    /\ SF_weeklyVars(Land(r) /\ tx'[r] = "success")

LiveSpec == Spec /\ Fairness

\* A bonus on record and not paid, while its week is the one the job pays for
\* and the escrow covers all that this week still owes.
Owed(e) == /\ e \in recorded /\ paid[e] = 0
           /\ selectable /\ week = e.week + 1
           /\ Cardinality(Unexecuted(e.week)) <= escrow

\* A run that failed is made good by a later one, as long as the week lasts.
OwedBonusIsPaid == \A e \in Event : []<>~Owed(e)

-----------------------------------------------------------------------------
(* What the comments say and the code does not keep.                        *)

\* Migration 008: the UNIQUE constraint prevents double-paying the same roster
\* in the same week.
NoDoublePay == \A e \in Event : paid[e] <= 1
=============================================================================
