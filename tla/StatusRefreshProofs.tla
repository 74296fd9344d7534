------------------------ MODULE StatusRefreshProofs ------------------------
(***************************************************************************)
(* What holds of StatusRefresh for any number of overlapping refreshes.    *)
(***************************************************************************)
EXTENDS StatusRefresh, TLAPS

\* The ranks, one by one.
LEMMA Ranks ==
  /\ leagueStatusRank["pre_draft"] = 0 /\ leagueStatusRank["drafting"] = 1
  /\ leagueStatusRank["in_season"] = 2 /\ leagueStatusRank["post_season"] = 2
  /\ leagueStatusRank["complete"] = 3
BY DEF leagueStatusRank, Ranked

\* nextLeagueStatus, on a status the query selects: what it wants to store is
\* "drafting" or "in_season", and not behind what is stored.
LEMMA NextIsForward ==
  ASSUME NEW stored \in Refreshable, NEW platform \in Reported, NeedsUpdate(stored, platform)
  PROVE  /\ NextStatus(stored, platform) \in {"drafting", "in_season"}
         /\ Rank(NextStatus(stored, platform)) >= Rank(stored)
<1> DEFINE held == Effective(stored)
<1>1. held \in {"pre_draft", "drafting", "post_season"} /\ Rank(stored) = leagueStatusRank[held]
  BY DEF Effective, Rank, Refreshable
<1>2. platform \in Ranked
  BY DEF NeedsUpdate
<1>3. Rank("drafting") = 1 /\ Rank("in_season") = 2
  BY Ranks DEF Rank, Effective
<1>4. CASE held = "post_season"
  BY <1>1, <1>3, <1>4, Ranks DEF NextStatus
<1>5. CASE held # "post_season"
  <2>1. /\ NextStatus(stored, platform) = Canonical(platform)
        /\ leagueStatusRank[Canonical(platform)] > leagueStatusRank[held]
    BY <1>5 DEF NextStatus, NeedsUpdate
  <2>2. Canonical(platform) \in {"pre_draft", "drafting", "in_season"}
    BY <1>2 DEF Canonical, Ranked
  <2> QED
    BY <1>1, <1>3, <2>1, <2>2, <1>5, Ranks
<1> QED
  BY <1>4, <1>5

-----------------------------------------------------------------------------
\* What a run about to write has in hand: a status the query selects and one that
\* is not behind it.
WriteIsForward ==
  \A r \in Runs : pc[r] = "update" =>
    /\ target[r] \in {"drafting", "in_season"}
    /\ Rank(target[r]) >= Rank(read[r])

RInv == TypeOK /\ WriteIsForward

\* Every step keeps it.
LEMMA StepsKeepForward == ASSUME RInv, [Next]_refreshVars PROVE RInv'
<1> USE DEF RInv, TypeOK, WriteIsForward, Goto
<1>1. ASSUME NEW r \in Runs, StartRefresh(r) PROVE RInv'
  BY <1>1 DEF StartRefresh
<1>2. ASSUME NEW r \in Runs, NEW outcome, CheckSeason(r, outcome) PROVE RInv'
  BY <1>2 DEF CheckSeason
<1>3. ASSUME NEW r \in Runs, NEW outcome, FetchStatus(r, outcome) PROVE RInv'
  <2>1. CASE outcome = "ok" /\ NeedsUpdate(read[r], reported)
    <3>1. /\ NextStatus(read[r], reported) \in {"drafting", "in_season"}
          /\ Rank(NextStatus(read[r], reported)) >= Rank(read[r])
      BY <2>1, NextIsForward
    <3> QED
      BY <1>3, <2>1, <3>1 DEF FetchStatus
  <2>2. CASE ~(outcome = "ok" /\ NeedsUpdate(read[r], reported))
    BY <1>3, <2>2 DEF FetchStatus
  <2> QED
    BY <2>1, <2>2
<1>4. ASSUME NEW r \in Runs, NEW outcome, UpdateStatus(r, outcome) PROVE RInv'
  BY <1>4 DEF UpdateStatus, Stored, Ranked
<1>5. ASSUME NEW r \in Runs, Crash(r) PROVE RInv'
  BY <1>5 DEF Crash
<1>6. CASE SeasonEndSettles
  BY <1>6 DEF SeasonEndSettles, Stored, Ranked
<1>7. CASE ImportFetch
  BY <1>7 DEF ImportFetch
<1>8. CASE ImportUpsert
  BY <1>8 DEF ImportUpsert, Stored, Reported
<1>9. CASE CancelOrReactivate
  BY <1>9 DEF CancelOrReactivate
<1>10. CASE PlatformReports
  BY <1>10 DEF PlatformReports
<1>11. CASE SeasonTurns
  BY <1>11, LastSeasonAssumption DEF SeasonTurns
<1>12. CASE UNCHANGED refreshVars
  BY <1>12 DEF refreshVars
<1> QED
  BY <1>1, <1>2, <1>3, <1>4, <1>5, <1>6, <1>7, <1>8, <1>9, <1>10, <1>11, <1>12
  DEF Next, RefreshStep

\* The invariant of the refresh, with TypeOK: a stale read never makes a run write
\* a status behind the one it read.
THEOREM ReadsAreSafe == Spec => []RInv
<1>1. Init => RInv
  BY DEF Init, RInv, TypeOK, WriteIsForward, Refreshable, Stored, Ranked
<1> QED
  BY <1>1, StepsKeepForward, PTL DEF Spec

\* TypeOK: in particular a refresh never has anything but "drafting" or "in_season"
\* to write.
THEOREM TypeCorrect == Spec => []TypeOK
<1>1. RInv => TypeOK
  BY DEF RInv
<1> QED
  BY <1>1, ReadsAreSafe, PTL

-----------------------------------------------------------------------------
\* RefreshMovesForward: whatever came between a run's query and its UPDATE, the
\* write moves the stored status forward.
THEOREM MovesForward == Spec => RefreshMovesForward
<1>1. RInv /\ [Next]_refreshVars =>
        [\A r \in Runs :
           (pc[r] = "update" /\ pc'[r] = "idle" /\ status' # status) =>
             /\ Rank(status') >= Rank(status)
             /\ status' \in {"drafting", "in_season"}]_refreshVars
  <2> SUFFICES ASSUME RInv, Next, NEW s \in Runs,
                      pc[s] = "update", pc'[s] = "idle", status' # status
               PROVE  Rank(status') >= Rank(status) /\ status' \in {"drafting", "in_season"}
    OBVIOUS
  <2>1. ASSUME NEW r \in Runs, NEW outcome, UpdateStatus(r, outcome)
        PROVE  Rank(status') >= Rank(status) /\ status' \in {"drafting", "in_season"}
    <3>1. status = read[r] /\ status' = target[r] /\ pc[r] = "update"
      BY <2>1 DEF UpdateStatus
    <3> QED
      BY <3>1 DEF RInv, WriteIsForward
  <2>2. CASE UNCHANGED status \/ UNCHANGED pc
    BY <2>2
  <2> QED
    BY <2>1, <2>2 DEF Next, RefreshStep, StartRefresh, CheckSeason, FetchStatus,
      Crash, SeasonEndSettles, ImportFetch, ImportUpsert, CancelOrReactivate, PlatformReports,
      SeasonTurns
<1> QED
  BY <1>1, ReadsAreSafe, PTL DEF Spec, RefreshMovesForward

\* SettledStaysClosed: only an import can reopen a league that is settled, never a
\* refresh that read the row before it was.
THEOREM ClosedStaysClosed == Spec => SettledStaysClosed
<1>1. RInv /\ [Next]_refreshVars =>
        [settled /\ status = "complete" /\ status' # "complete" => importing # "none"]_refreshVars
  <2> SUFFICES ASSUME RInv, Next, settled, status = "complete", status' # "complete"
               PROVE  importing # "none"
    OBVIOUS
  <2>1. ASSUME NEW r \in Runs, NEW outcome, UpdateStatus(r, outcome) PROVE importing # "none"
    BY <2>1 DEF UpdateStatus, RInv, TypeOK, Refreshable
  <2>2. CASE ImportUpsert
    BY <2>2 DEF ImportUpsert
  <2>3. CASE UNCHANGED status
    BY <2>3
  <2> QED
    BY <2>1, <2>2, <2>3 DEF Next, RefreshStep, StartRefresh, CheckSeason,
      FetchStatus, Crash, SeasonEndSettles, ImportFetch, CancelOrReactivate, PlatformReports,
      SeasonTurns
<1> QED
  BY <1>1, ReadsAreSafe, PTL DEF Spec, SettledStaysClosed
=============================================================================
