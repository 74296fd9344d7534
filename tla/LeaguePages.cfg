SPECIFICATION Spec
CONSTANTS
  me = me
  other = other
  mine = mine
  theirs = theirs
  l1 = l1
  f1 = f1
  f2 = f2
  None = None
  Users = {me, other}
  Accounts = {mine, theirs}
  Leagues = {l1}
  Platform <- OneLeague
  MaxRows = 2
  Me = me
  Usernames <- EnteredNames
  Seasons = {2025, 2026}
  CurrentYear = 2026
  SeasonOf <- ThisYear
  Fetches = {f1, f2}
SYMMETRY FetchSymmetry
INVARIANTS TypeOK OneRequestAtATime WizardIsCoherent ListIsCurrent NothingHangs EmptyLeagueIsDropped
