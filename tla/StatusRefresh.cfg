SPECIFICATION LiveSpec
CONSTANTS
  r1 = r1
  Runs = {r1}
  LastSeason = 2
INVARIANT TypeOK
PROPERTIES RefreshMovesForward SettledStaysClosed StartedLeagueIsSeen
