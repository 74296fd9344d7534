---------------------------- MODULE SeasonBudget ----------------------------
(***************************************************************************)
(* The money of one league over one season.  The settings page promises    *)
(* prizes and bonuses against the entry fees (LeagueSettings.tsx); the     *)
(* weekly and the season-end job pay them out of one total                 *)
(* (service_oracle.go), which members may draw on as well.  The jobs are   *)
(* one step here: what happens inside a run is WeeklyPayout and SeasonEnd. *)
(***************************************************************************)
EXTENDS Naturals, Sequences, SequencesExt, FiniteSetsExt, Functions

CONSTANTS
  Members,    \* the league's rosters, one member each
  Fees,       \* bound: the entry fees a commissioner sets
  Structures, \* bound: the payout structures the server is sent, as rows
  LastWeek,   \* bound: the last week the platform scores
  Points,     \* bound: the points of a roster in a week
  MaxFees     \* bound: the entry fees that are ever paid

VARIABLES
  settings,     \* entry_fee_cents and payout_structure of the league
  linked,       \* the members whose wallet the league knows
  cancelled,    \* cancelled_at is set
  payoutStatus, \* status is 'complete' exactly when this is "executed"
  events,       \* weekly_payout_events, by week, roster and bonus type
  payments,     \* the contract's payments of each member
  total,        \* the contract's leagueTotals
  week,         \* GetCurrentWeek
  standings,    \* the placements of the winners bracket, by place
  paid,         \* bound: the entry fees paid so far
  lostMark      \* history: a bonus was paid and its event not marked

settingsVars == <<settings, linked, cancelled>>
chainVars == <<payments, total, paid>>
platformVars == <<week, standings>>
jobVars == <<payoutStatus, events, lostMark>>
budgetVars == <<settingsVars, chainVars, platformVars, jobVars>>

BonusType == {"weekly_high_score", "score_threshold", "highest_weekly_score", "unset"}
Row == [type : {"placement"}, place : Nat, amount : Nat]
  \cup [type : {"weekly"}, bonus : BonusType, amount : Nat, weeks : Nat, threshold : Nat]
Key == [week : 1..LastWeek, roster : Members, bonus : BonusType]

ASSUME MembersAssumption == IsFiniteSet(Members)
ASSUME StructuresAssumption == Structures \subseteq Seq(Row) /\ Fees \subseteq Nat
ASSUME BoundsAssumption == LastWeek \in Nat /\ MaxFees \in Nat

TypeOK ==
  /\ settings \in [fee : Fees, rows : Seq(Row)]
  /\ linked \subseteq Members /\ cancelled \in BOOLEAN
  /\ payoutStatus \in {"pending", "executed", "failed"}
  /\ DOMAIN events \subseteq Key
  /\ events \in [DOMAIN events -> [amount : Nat, executed : BOOLEAN]]
  /\ payments \in [Members -> Nat] /\ total \in Nat
  /\ week \in 1..LastWeek + 1 /\ paid \in 0..MaxFees /\ lostMark \in BOOLEAN
  /\ DOMAIN standings \subseteq 1..Cardinality(Members)
  /\ standings \in [DOMAIN standings -> Members]

Sum(f, S) == MapThenSumSet(LAMBDA x : f[x], S)

-----------------------------------------------------------------------------
(* The settings page.                                                       *)

RowsOf(rows, type) == {i \in DOMAIN rows : rows[i].type = type}

IsWeeklyBonus(bonus) == bonus # "highest_weekly_score"

\* What each row announces; a row without a bonus type counts as a high score.
Announced(rows) ==
  [i \in DOMAIN rows |->
     IF rows[i].type = "weekly" /\ IsWeeklyBonus(rows[i].bonus)
     THEN rows[i].amount * rows[i].weeks ELSE rows[i].amount]

\* The "Total Payout" line.
totalPayout(rows) == Sum(Announced(rows), DOMAIN rows)

\* The "Entry Pool" line.
EntryPool == settings.fee * Cardinality(Members)

\* A row of before there were bonus types is shown, and saved, as a high score.
normalizeEntries(rows) ==
  [i \in DOMAIN rows |->
     IF rows[i].type = "weekly" /\ rows[i].bonus = "unset"
     THEN [rows[i] EXCEPT !.bonus = "weekly_high_score"] ELSE rows[i]]

Init ==
  /\ settings \in [fee : Fees, rows : Structures]
  /\ linked = {} /\ cancelled = FALSE
  /\ payoutStatus = "pending" /\ events = <<>> /\ lostMark = FALSE
  /\ payments = [m \in Members |-> 0] /\ total = 0 /\ paid = 0
  /\ week = 1 /\ standings = <<>>

\* handleSave: nothing compares the two lines, and nothing is too late to change.
\* The page offers half as many places as rosters; the server takes any rows.
SaveSettings(fee, rows) ==
  /\ settings' = [fee |-> fee, rows |-> normalizeEntries(rows)]
  /\ UNCHANGED <<linked, cancelled, chainVars, platformVars, jobVars>>

\* LinkPlatformProfile, by which the members' query finds a wallet.
LinkPlatformProfile(m) ==
  /\ m \notin linked
  /\ linked' = linked \cup {m}
  /\ UNCHANGED <<settings, cancelled, chainVars, platformVars, jobVars>>

CancelOrReactivate ==
  /\ cancelled' = ~cancelled
  /\ UNCHANGED <<settings, linked, chainVars, platformVars, jobVars>>

-----------------------------------------------------------------------------
(* The escrow and the platform.                                             *)

\* The panel offers the payment of the fee to a member who is not on record.
PayEntryFee(m) ==
  /\ m \in linked /\ ~cancelled /\ payments[m] = 0
  /\ settings.fee > 0 /\ paid < MaxFees
  /\ payments' = [payments EXCEPT ![m] = settings.fee]
  /\ total' = total + settings.fee /\ paid' = paid + 1
  /\ UNCHANGED <<settingsVars, platformVars, jobVars>>

\* Mutant: the checked subtraction wraps.
RefundUnchecked(m) ==
  /\ payments[m] > 0
  /\ payments' = [payments EXCEPT ![m] = 0]
  /\ total' = total - payments[m]
  /\ UNCHANGED <<paid, settingsVars, platformVars, jobVars>>

\* Any time; it reverts once payouts have used up what the member paid.
ClaimRefund(m) ==
  /\ payments[m] > 0 /\ payments[m] <= total
  /\ payments' = [payments EXCEPT ![m] = 0]
  /\ total' = total - payments[m]
  /\ UNCHANGED <<paid, settingsVars, platformVars, jobVars>>

WeekAdvances ==
  /\ week <= LastWeek
  /\ week' = week + 1
  /\ UNCHANGED <<standings, settingsVars, chainVars, jobVars>>

\* The platform's season is complete, with some placement games decided.
SeasonCompletes(champion, runnerUp) ==
  /\ standings = <<>> /\ champion # runnerUp
  /\ standings' = <<champion, runnerUp>>
  /\ UNCHANGED <<week, settingsVars, chainVars, jobVars>>

-----------------------------------------------------------------------------
(* The weekly job.                                                          *)

\* highScorer takes the first of the best, in the order the platform lists them.
HighScorers(points) ==
  {m \in Members : points[m] > 0 /\ \A n \in Members : points[n] <= points[m]}

\* weeklyQualifiers: nobody for the types it does not know.
weeklyQualifiers(row, points, best) ==
  CASE row.bonus = "weekly_high_score" -> {best} \cap HighScorers(points)
    [] row.bonus = "score_threshold" -> {m \in Members : points[m] >= row.threshold}
    [] OTHER -> {}

\* The rows of the settings that earn an event.
EarningRows(k, points, best) ==
  {i \in RowsOf(settings.rows, "weekly") :
     /\ settings.rows[i].bonus = k.bonus
     /\ k.roster \in weeklyQualifiers(settings.rows[i], points, best)}

\* The events that the week has earned.
NewEvents(points, best) ==
  {k \in [week : {week - 1}, roster : linked, bonus : BonusType] :
     EarningRows(k, points, best) # {}}

\* What is on record once they are inserted: an event that is there already stays as
\* it is, and of two rows of one type the first one counts.
Recorded(points, best) ==
  [k \in DOMAIN events \cup NewEvents(points, best) |->
     IF k \in DOMAIN events THEN events[k]
     ELSE [amount |-> settings.rows[Min(EarningRows(k, points, best))].amount, executed |-> FALSE]]

\* Mutant: all events of the week are loaded.
EventsOfWeek(recorded) == {k \in DOMAIN recorded : k.week = week - 1}

\* The events the job loads, those that earlier runs left included.
Unexecuted(recorded) == {k \in DOMAIN recorded : k.week = week - 1 /\ ~recorded[k].executed}

AmountsOf(recorded) == [k \in DOMAIN recorded |-> recorded[k].amount]
Owed(recorded, keys) == Sum(AmountsOf(recorded), keys)

\* Those whose wallet resolves are paid together, and their events marked one by
\* one; a lost receipt marks none.
PayEvents(recorded, payable, marked) ==
  /\ total' = total - Owed(recorded, payable)
  /\ events' = [k \in DOMAIN recorded |->
                  [recorded[k] EXCEPT !.executed = @ \/ k \in marked]]
  /\ lostMark' = (lostMark \/ marked # payable)

\* RunWeeklyPayoutJob: the week before the current one, in whatever week that is
\* of the season.  The settings' number of weeks plays no part.  A run that finds
\* nobody to pay, too little in the total or no way to pay leaves its events.
WeeklyJob(points, best) ==
  LET recorded == Recorded(points, best) IN
  /\ payoutStatus # "executed" /\ ~cancelled
  /\ RowsOf(settings.rows, "weekly") # {} /\ week > 1
  /\ \E payable \in SUBSET Unexecuted(recorded) :
       \/ events' = recorded /\ UNCHANGED <<total, lostMark>>
       \/ /\ payable # {} /\ Owed(recorded, payable) <= total
          /\ \E marked \in SUBSET payable : PayEvents(recorded, payable, marked)
  /\ UNCHANGED <<payoutStatus, payments, paid, settingsVars, platformVars>>

-----------------------------------------------------------------------------
(* The season-end job.                                                      *)

\* placeToEntry: of two rows for one place the last one counts.
PlaceToEntry(rows) ==
  LET placement == RowsOf(rows, "placement") IN
  [p \in {rows[i].place : i \in placement} |->
     rows[Max({i \in placement : rows[i].place = p})].amount]

\* The places that have a prize, a winner with a wallet and an address.
Resolved(prizes, resolvable) ==
  {p \in DOMAIN prizes \cap DOMAIN standings : standings[p] \in linked \cap resolvable}

\* Mutant: a total that is just enough is not.
SeasonEndStrictly(resolvable, outcome) ==
  LET prizes == PlaceToEntry(settings.rows)
      places == Resolved(prizes, resolvable)
      owed == Sum(prizes, places)
  IN
  /\ payoutStatus = "pending" /\ ~cancelled /\ standings # <<>>
  /\ \/ places = {} /\ payoutStatus' = "executed" /\ UNCHANGED total
     \/ /\ places # {} /\ owed < total
        /\ payoutStatus' = IF outcome = "ok" THEN "executed" ELSE "failed"
        /\ total' = IF outcome = "failed" THEN total ELSE total - owed
  /\ UNCHANGED <<events, lostMark, payments, paid, settingsVars, platformVars>>

\* settleSeasonEnd: pays what it has resolved, or leaves the league for the next
\* run as long as the total does not cover it.
SeasonEndJob(resolvable, outcome) ==
  LET prizes == PlaceToEntry(settings.rows)
      places == Resolved(prizes, resolvable)
      owed == Sum(prizes, places)
  IN
  /\ payoutStatus = "pending" /\ ~cancelled /\ standings # <<>>
  /\ \/ places = {} /\ payoutStatus' = "executed" /\ UNCHANGED total
     \/ /\ places # {} /\ owed <= total
        /\ payoutStatus' = IF outcome = "ok" THEN "executed" ELSE "failed"
        /\ total' = IF outcome = "failed" THEN total ELSE total - owed
  /\ UNCHANGED <<events, lostMark, payments, paid, settingsVars, platformVars>>

Next ==
  \/ \E fee \in Fees, rows \in Structures : SaveSettings(fee, rows)
  \/ \E m \in Members : LinkPlatformProfile(m) \/ PayEntryFee(m) \/ ClaimRefund(m)
  \/ CancelOrReactivate \/ WeekAdvances
  \/ \E m, n \in Members : SeasonCompletes(m, n)
  \/ \E resolvable \in SUBSET Members, outcome \in {"ok", "failed", "lost"} :
       SeasonEndJob(resolvable, outcome)
  \/ \E points \in [Members -> Points], best \in Members : WeeklyJob(points, best)

Spec == Init /\ [][Next]_budgetVars

\* The cron runs the season-end job every week, and some run finds every wallet.
Fairness == WF_budgetVars(SeasonEndJob(Members, "ok"))

LiveSpec == Spec /\ Fairness

-----------------------------------------------------------------------------
\* Everyone has paid the fee, the page's total does not exceed its pool, no more
\* bonuses were recorded than it announced, and each payment got its mark.
Balanced ==
  /\ \A m \in Members : payments[m] >= settings.fee
  /\ totalPayout(settings.rows) <= EntryPool
  /\ Owed(events, DOMAIN events) <= Sum(Announced(settings.rows), RowsOf(settings.rows, "weekly"))
  /\ ~lostMark

Outstanding == {k \in DOMAIN events : ~events[k].executed}

Prizes == PlaceToEntry(settings.rows)

Executed == {k \in DOMAIN events : events[k].executed}

\* As long as each payment gets its mark and the season's prizes are not paid, the
\* total is what the members have in it less the bonuses marked as paid.
TotalIsWhatIsLeft ==
  payoutStatus = "pending" /\ ~lostMark =>
    total + Owed(events, Executed) = Sum(payments, Members)

\* A league in balance can pay every prize and every bonus it still owes, whatever
\* was paid, refunded, paid again or changed in the settings before.
BudgetHolds ==
  Balanced /\ payoutStatus = "pending" =>
    Owed(events, Outstanding) + Sum(Prizes, DOMAIN Prizes) <= total

\* So a league that stays in balance once its season is over is settled.
BalancedLeagueIsSettled ==
  <>[](Balanced /\ ~cancelled /\ standings # <<>>) => <>(payoutStatus # "pending")

\* "number of occurrences": a weekly high score is paid in that many weeks at most.
\* The weekly job does not look at it.
OccurrencesAsAnnounced ==
  \A i \in DOMAIN settings.rows :
    LET r == settings.rows[i] IN
    r.type = "weekly" /\ r.bonus = "weekly_high_score" =>
      Cardinality({k.week : k \in {e \in DOMAIN events : e.bonus = r.bonus /\ events[e].executed}})
        <= r.weeks
=============================================================================
