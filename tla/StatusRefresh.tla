---------------------------- MODULE StatusRefresh ----------------------------
(***************************************************************************)
(* The status refresh that opens every oracle run: RefreshLeagueStatuses   *)
(* and nextLeagueStatus of internal/league/service_oracle.go, for one      *)
(* league, against everyone else who writes leagues.status: overlapping    *)
(* refreshes, the season-end job and ImportLeague.                         *)
(***************************************************************************)
EXTENDS Naturals

CONSTANTS Runs,       \* the oracle processes that can be alive at the same time
          LastSeason  \* bound: the platform's season stops here

ASSUME LastSeasonAssumption == LastSeason \in Nat \ {0}

\* leagueStatusRank.  NULL is stored by an import that found no status.
Ranked == {"pre_draft", "drafting", "in_season", "post_season", "complete"}

leagueStatusRank ==
  [s \in Ranked |-> CASE s = "pre_draft" -> 0
                      [] s = "drafting" -> 1
                      [] s \in {"in_season", "post_season"} -> 2
                      [] s = "complete" -> 3]

Stored == Ranked \cup {"NULL", "unknown"}
Reported == Ranked \cup {"unknown"}

\* Mutant: a stored "post_season" is not selected.
RefreshableBeforePlayoffs == {"NULL", "pre_draft", "drafting"}

\* The statuses the query of RefreshLeagueStatuses selects.
Refreshable == {"NULL", "pre_draft", "drafting", "post_season"}

VARIABLES
  status,     \* leagues.status
  settled,    \* payout_status = 'executed': the season-end job is done
  cancelled,  \* cancelled_at IS NOT NULL
  reported,   \* the status the platform reports for the league
  season,     \* the platform's current season
  importing,  \* what a running ImportLeague has fetched, or "none"
  pc,         \* the call a run makes next
  read,       \* the status a run's query returned
  target      \* the status a run is about to write

refreshVars == <<status, settled, cancelled, reported, season, importing, pc, read, target>>

LeagueSeason == 1  \* leagues.season, written at import and never again

TypeOK ==
  /\ status \in Stored /\ settled \in BOOLEAN /\ cancelled \in BOOLEAN
  /\ reported \in Reported /\ season \in 1..LastSeason
  /\ importing \in Reported \cup {"none"}
  /\ pc \in [Runs -> {"idle", "season", "fetch", "update"}]
  /\ read \in [Runs -> Refreshable]
  /\ target \in [Runs -> {"NULL", "drafting", "in_season"}]

Init ==
  /\ status \in Stored /\ status # "complete"
  /\ settled = FALSE /\ cancelled = FALSE
  /\ reported \in Reported /\ season \in 1..LastSeason
  /\ importing = "none"
  /\ pc = [r \in Runs |-> "idle"]
  /\ read = [r \in Runs |-> "NULL"] /\ target = [r \in Runs |-> "NULL"]

Goto(r, step) == pc' = [pc EXCEPT ![r] = step]

-----------------------------------------------------------------------------
\* canonicalLeagueStatus: in_season is the highest status a refresh may store.
Canonical(s) == IF s \in {"post_season", "complete"} THEN "in_season" ELSE s

Effective(stored) == IF stored = "NULL" THEN "pre_draft" ELSE stored

\* nextLeagueStatus says that an update is needed.  A stored "post_season" is the
\* one case that is rewritten without a rise in rank.
NeedsUpdate(stored, platform) ==
  /\ {Effective(stored), platform} \subseteq Ranked
  /\ IF Effective(stored) = "post_season"
     THEN leagueStatusRank[platform] >= leagueStatusRank["post_season"]
     ELSE leagueStatusRank[Canonical(platform)] > leagueStatusRank[Effective(stored)]

\* Mutant: the status to store is the platform's own.
AsReported(stored, platform) == platform

\* The status nextLeagueStatus returns when an update is needed.
NextStatus(stored, platform) ==
  IF Effective(stored) = "post_season" THEN "in_season" ELSE Canonical(platform)

\* The query returns the league.
StartRefresh(r) ==
  /\ pc[r] = "idle"
  /\ ~cancelled /\ status \in Refreshable
  /\ read' = [read EXCEPT ![r] = status]
  /\ Goto(r, "season")
  /\ UNCHANGED <<status, settled, cancelled, reported, season, importing, target>>

\* GetCurrentSeason and filterCurrentSeasonLeagues: a lookup that fails drops the
\* league, as does a season that is not the league's.
CheckSeason(r, outcome) ==
  /\ pc[r] = "season"
  /\ Goto(r, IF outcome = "ok" /\ season = LeagueSeason THEN "fetch" ELSE "idle")
  /\ UNCHANGED <<status, settled, cancelled, reported, season, importing, read, target>>

\* GetLeague, and the decision on what it reports.
FetchStatus(r, outcome) ==
  /\ pc[r] = "fetch"
  /\ IF outcome = "ok" /\ NeedsUpdate(read[r], reported)
     THEN Goto(r, "update") /\ target' = [target EXCEPT ![r] = NextStatus(read[r], reported)]
     ELSE Goto(r, "idle") /\ UNCHANGED target
  /\ UNCHANGED <<status, settled, cancelled, reported, season, importing, read>>

\* Mutant: the UPDATE by id alone.
UpdateById(r, outcome) ==
  /\ pc[r] = "update"
  /\ status' = IF outcome = "ok" THEN target[r] ELSE status
  /\ Goto(r, "idle")
  /\ UNCHANGED <<settled, cancelled, reported, season, importing, read, target>>

\* The UPDATE is conditional on the status the query returned; it may be lost.
UpdateStatus(r, outcome) ==
  /\ pc[r] = "update"
  /\ status' = IF outcome = "ok" /\ status = read[r] THEN target[r] ELSE status
  /\ Goto(r, "idle")
  /\ UNCHANGED <<settled, cancelled, reported, season, importing, read, target>>

Crash(r) ==
  /\ pc[r] # "idle"
  /\ Goto(r, "idle")
  /\ UNCHANGED <<status, settled, cancelled, reported, season, importing, read, target>>

RefreshStep(r) ==
  \/ StartRefresh(r)
  \/ \E outcome \in {"ok", "error"} :
       CheckSeason(r, outcome) \/ FetchStatus(r, outcome) \/ UpdateStatus(r, outcome)

-----------------------------------------------------------------------------
(* The other writers and the platform.                                      *)

\* The season-end job closes an in_season league whose season is complete.
\* SeasonEnd has it in full.
SeasonEndSettles ==
  /\ status = "in_season" /\ ~settled /\ reported = "complete"
  /\ status' = "complete" /\ settled' = TRUE
  /\ UNCHANGED <<cancelled, reported, season, importing, pc, read, target>>

ImportFetch ==
  /\ importing = "none"
  /\ importing' = reported
  /\ UNCHANGED <<status, settled, cancelled, reported, season, pc, read, target>>

ImportUpsert ==
  /\ importing # "none"
  /\ status' = importing /\ importing' = "none"
  /\ UNCHANGED <<settled, cancelled, reported, season, pc, read, target>>

CancelOrReactivate ==
  /\ cancelled' = ~cancelled
  /\ UNCHANGED <<status, settled, reported, season, importing, pc, read, target>>

\* The platform may report a status the code does not know, and come back from it.
PlatformReports ==
  /\ reported' \in Reported
  /\ (reported' \in Ranked /\ reported \in Ranked) =>
       leagueStatusRank[reported'] >= leagueStatusRank[reported]
  /\ UNCHANGED <<status, settled, cancelled, season, importing, pc, read, target>>

SeasonTurns ==
  /\ season < LastSeason
  /\ season' = season + 1
  /\ UNCHANGED <<status, settled, cancelled, reported, importing, pc, read, target>>

Next ==
  \/ SeasonEndSettles \/ ImportFetch \/ ImportUpsert
  \/ CancelOrReactivate \/ PlatformReports \/ SeasonTurns
  \/ \E r \in Runs : RefreshStep(r) \/ Crash(r)

Spec == Init /\ [][Next]_refreshVars

-----------------------------------------------------------------------------
(* Safety.                                                                  *)

Rank(s) == IF s = "unknown" THEN 9 ELSE leagueStatusRank[Effective(s)]

\* Whoever else writes in between, a write of the refresh moves the stored status
\* forward, never beyond in_season, and makes the league visible to the payout
\* jobs or leaves it among the refreshable ones.
RefreshMovesForward ==
  [][\A r \in Runs :
       (pc[r] = "update" /\ pc'[r] = "idle" /\ status' # status) =>
         /\ Rank(status') >= Rank(status)
         /\ status' \in {"drafting", "in_season"}]_refreshVars

\* Without a re-import a league the season-end job has closed stays closed, even
\* under a refresh that read the row before.
SettledStaysClosed ==
  [][settled /\ status = "complete" /\ status' # "complete" => importing # "none"]_refreshVars

-----------------------------------------------------------------------------
(* Liveness: the crons fire for ever and a repeated call succeeds at last.   *)

Fairness ==
  \A r \in Runs :
    /\ WF_refreshVars(StartRefresh(r))
    /\ SF_refreshVars(CheckSeason(r, "ok"))
    /\ SF_refreshVars(FetchStatus(r, "ok"))
    /\ SF_refreshVars(UpdateStatus(r, "ok"))

LiveSpec == Spec /\ Fairness

Invisible == /\ status \notin {"in_season", "complete", "unknown"} /\ ~cancelled /\ season = LeagueSeason
             /\ reported \in {"in_season", "post_season", "complete"}

\* A league of the current season that has started on the platform does not stay
\* invisible to the payout jobs.
StartedLeagueIsSeen == []<>~Invisible
=============================================================================
