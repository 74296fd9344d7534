-------------------------- MODULE LeagueMembership --------------------------
(***************************************************************************)
(* Who is a member of which league: the rows of leagues, league_members and *)
(* platform_profiles, and the handlers LinkPlatformProfile, ImportLeague,  *)
(* GetUserLeagues and DeleteLeague (internal/league/service.go).  An import *)
(* is one transaction; DeleteLeague is three statements in none.           *)
(***************************************************************************)
EXTENDS Naturals

CONSTANTS
  Users,     \* WAGR users
  Accounts,  \* accounts of the fantasy platform
  Leagues,   \* leagues of the fantasy platform
  Platform,  \* the accounts in each league, as the platform answers
  MaxRows    \* bound: how often a league is inserted anew

ASSUME PlatformAssumption == Platform \in [Leagues -> SUBSET Accounts]
ASSUME MaxRowsAssumption == MaxRows \in Nat

\* A row of leagues: of one platform league, and of one insertion of it.
Row == Leagues \X (1..MaxRows)

VARIABLES
  rows,      \* the rows of leagues
  inserted,  \* how often each league was inserted
  members,   \* the accounts with a row of league_members, by league row
  profiles,  \* platform_profiles: the accounts each user has linked
  removal,   \* each user's DeleteLeague: the statement it is at, or its answer
  cut        \* history: rows of which a removal failed half way

membershipVars == <<rows, inserted, members, profiles, removal, cut>>

Idle == [step |-> "none"]
Removal == {Idle} \cup [step : {"delete", "count", "drop", "ok", "error"}, row : Row]

MembershipTypeOK ==
  /\ rows \subseteq Row /\ cut \subseteq Row
  /\ inserted \in [Leagues -> 0..MaxRows]
  /\ members \in [Row -> SUBSET Accounts]
  /\ profiles \in [Users -> SUBSET Accounts]
  /\ removal \in [Users -> Removal]

MembershipInit ==
  /\ rows = {} /\ cut = {}
  /\ inserted = [l \in Leagues |-> 0]
  /\ members = [r \in Row |-> {}]
  /\ profiles = [u \in Users |-> {}]
  /\ removal = [u \in Users |-> Idle]

\* The members some user has linked.
LinkedMembers(r) == members[r] \cap UNION {profiles[u] : u \in Users}

\* GetUserLeagues.
UserLeagues(u) == {r \in rows : members[r] \cap profiles[u] # {}}

\* The upsert adds a profile and takes none away.
LinkPlatformProfile(u, a) ==
  /\ profiles' = [profiles EXCEPT ![u] = @ \cup {a}]
  /\ UNCHANGED <<rows, inserted, members, removal, cut>>

\* The upsert finds the row of an earlier import.  Every member of the platform's
\* league gets a row, those who have removed themselves included, and none loses it.
ImportLeague(l) ==
  \/ \E r \in rows :
       /\ r[1] = l
       /\ members' = [members EXCEPT ![r] = @ \cup Platform[l]]
       /\ UNCHANGED <<rows, inserted, profiles, removal, cut>>
  \/ /\ \A r \in rows : r[1] # l
     /\ inserted[l] < MaxRows
     /\ inserted' = [inserted EXCEPT ![l] = @ + 1]
     /\ rows' = rows \cup {<<l, inserted[l] + 1>>}
     /\ members' = [members EXCEPT ![<<l, inserted[l] + 1>>] = Platform[l]]
     /\ UNCHANGED <<profiles, removal, cut>>

-----------------------------------------------------------------------------
(* DeleteLeague.                                                            *)

\* One removal of each user at a time.
StartRemoval(u, r) ==
  /\ removal[u] = Idle
  /\ removal' = [removal EXCEPT ![u] = [step |-> "delete", row |-> r]]
  /\ UNCHANGED <<rows, inserted, members, profiles, cut>>

\* The handler goes on to its next statement, or answers; an answer that nobody
\* waits for goes nowhere.
Continue(u, step) ==
  \/ removal' = [removal EXCEPT ![u] = [@ EXCEPT !.step = step]]
  \/ step \in {"ok", "error"} /\ removal' = [removal EXCEPT ![u] = Idle]

\* DELETE FROM league_members; no row is an error.
DeleteMembership(u) ==
  LET r == removal[u].row IN
  /\ removal[u].step = "delete"
  /\ \/ r \in UserLeagues(u) /\ Continue(u, "count")
     \/ r \notin UserLeagues(u) /\ Continue(u, "error")
  /\ members' = [members EXCEPT ![r] = @ \ profiles[u]]
  /\ UNCHANGED <<rows, inserted, profiles, cut>>

\* Mutant: the count is of all members, linked or not.
CountAnyMember(u) ==
  LET r == removal[u].row IN
  /\ removal[u].step = "count"
  /\ \/ members[r] = {} /\ Continue(u, "drop")
     \/ members[r] # {} /\ Continue(u, "ok")
  /\ UNCHANGED <<rows, inserted, members, profiles, cut>>

\* SELECT COUNT(*).
CountRemaining(u) ==
  LET r == removal[u].row IN
  /\ removal[u].step = "count"
  /\ \/ LinkedMembers(r) = {} /\ Continue(u, "drop")
     \/ LinkedMembers(r) # {} /\ Continue(u, "ok")
  /\ UNCHANGED <<rows, inserted, members, profiles, cut>>

\* DELETE FROM leagues, and of the members' rows by ON DELETE CASCADE.
DropLeague(u) ==
  LET r == removal[u].row IN
  /\ removal[u].step = "drop" /\ Continue(u, "ok")
  /\ rows' = rows \ {r} /\ cut' = cut \ {r}
  /\ members' = [members EXCEPT ![r] = {}]
  /\ UNCHANGED <<inserted, profiles>>

\* A statement fails, or the process dies: what was done stays done.
CutRemoval(u) ==
  /\ removal[u].step \in {"delete", "count", "drop"} /\ Continue(u, "error")
  /\ cut' = cut \cup (IF removal[u].step = "delete" THEN {} ELSE {removal[u].row} \cap rows)
  /\ UNCHANGED <<rows, inserted, members, profiles>>

\* The answer arrives.
EndRemoval(u) ==
  /\ removal[u].step \in {"ok", "error"}
  /\ removal' = [removal EXCEPT ![u] = Idle]
  /\ UNCHANGED <<rows, inserted, members, profiles, cut>>

RemovalStep(u) == DeleteMembership(u) \/ CountRemaining(u) \/ DropLeague(u) \/ CutRemoval(u)

-----------------------------------------------------------------------------
\* "If no WAGR-linked members remain afterward, the league record itself is also
\* deleted": however removals, imports and links interleave, a league that nobody
\* linked is in has a removal under way, unless one of its removals was cut.
EmptyLeagueIsDropped ==
  \A r \in rows : LinkedMembers(r) = {} =>
    r \in cut \/ \E u \in Users : removal[u].step \in {"count", "drop"} /\ removal[u].row = r
=============================================================================
