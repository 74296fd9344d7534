----------------------------- MODULE LeaguePages -----------------------------
(***************************************************************************)
(* One browser tab on the page that lists a user's leagues (Leagues.tsx)   *)
(* with its import modal (ImportLeagueModal.tsx), against LeagueMembership. *)
(* Any request can be answered late: to a page whose list was fetched again *)
(* since, or to a modal that was closed and opened once more.              *)
(***************************************************************************)
EXTENDS LeagueMembership

CONSTANTS
  Me,           \* the user of this tab
  Usernames,    \* bound: the platform accounts each user enters
  Seasons,      \* SEASON_OPTIONS
  CurrentYear,  \* the first of them
  SeasonOf,     \* the season of each platform league
  Fetches,      \* the fetches of the list; bound: so many are under way at once
  None          \* null

ASSUME UsernamesAssumption == Usernames \in [Users -> SUBSET Accounts] /\ Me \in Users
ASSUME SeasonsAssumption == SeasonOf \in [Leagues -> Seasons] /\ CurrentYear \in Seasons

VARIABLES
  \* the page
  listed,      \* leagues: the rows it lists
  loading, failed, \* loading, error: the list is not shown
  deleting,    \* deletingId: the row whose DELETE is under way
  fetch,       \* each fetch: not under way, sent, or read by the gateway
  behind,      \* history: the list may lag behind the server's
  \* the modal
  open,        \* isOpen
  form,        \* step, season, profile, selectedLeague, and of whom and which
               \* season availableLeagues are; undisturbed is history: they came to
               \* the form that asked for them
  busy,        \* the modal's own loading
  requests     \* the requests it waits for

listVars == <<listed, loading, failed, deleting, fetch, behind>>
modalVars == <<open, form, busy, requests>>
pageVars == <<membershipVars, listVars, modalVars>>

NoFetch == [phase |-> "none"]
Fetch == {NoFetch} \cup [phase : {"sent"}] \cup [phase : {"read"}, value : SUBSET Row]
Connecting == [kind : {"link", "leagues"}, user : Accounts, season : Seasons, undisturbed : BOOLEAN]
Form == [step : 1..3, season : Seasons, profile : Accounts \cup {None},
         available : [user : Accounts, season : Seasons] \cup {None},
         selected : Leagues \cup {None}, undisturbed : BOOLEAN]
Importing == [kind : {"import"}, league : Leagues, answer : {"none", "ok", "error"}]

TypeOK ==
  /\ MembershipTypeOK
  /\ listed \subseteq Row /\ deleting \in Row \cup {None}
  /\ {loading, failed, behind, open, busy} \subseteq BOOLEAN
  /\ fetch \in [Fetches -> Fetch] /\ form \in Form
  /\ requests \subseteq Connecting \cup Importing

\* fetchLeagues.
FetchLeagues == \E f \in Fetches :
  /\ fetch[f] = NoFetch
  /\ fetch' = [fetch EXCEPT ![f] = [phase |-> "sent"]]

NewForm == [step |-> 1, season |-> CurrentYear, profile |-> None, available |-> None,
            selected |-> None, undisturbed |-> TRUE]

\* A page that is mounted fetches its list.
FirstFetch == {[f \in Fetches |-> IF f = g THEN [phase |-> "sent"] ELSE NoFetch] : g \in Fetches}

Init ==
  /\ MembershipInit
  /\ listed = {} /\ loading = TRUE /\ failed = FALSE /\ behind = FALSE
  /\ deleting = None /\ fetch \in FirstFetch
  /\ open = FALSE /\ form = NewForm /\ busy = FALSE /\ requests = {}

\* A reload, or another page and back: what was under way is answered to nobody.
Mount ==
  /\ listed' = {} /\ loading' = TRUE /\ failed' = FALSE /\ behind' = FALSE
  /\ deleting' = None /\ fetch' \in FirstFetch
  /\ open' = FALSE /\ form' = NewForm /\ busy' = FALSE /\ requests' = {}
  /\ UNCHANGED membershipVars

-----------------------------------------------------------------------------
(* The list.                                                                *)

\* The gateway runs GetUserLeagues; the answer is on its way.
ReadList(f) ==
  /\ fetch[f].phase = "sent"
  /\ fetch' = [fetch EXCEPT ![f] = [phase |-> "read", value |-> UserLeagues(Me)]]
  /\ UNCHANGED <<membershipVars, listed, loading, failed, deleting, behind, modalVars>>

\* An answer replaces the list, also one that a later one has overtaken.
ListAnswers(f) ==
  /\ fetch[f].phase = "read"
  /\ listed' = fetch[f].value /\ loading' = FALSE
  /\ behind' = (failed \/ fetch[f].value # UserLeagues(Me) \/ (behind /\ deleting # None))
  /\ fetch' = [fetch EXCEPT ![f] = NoFetch]
  /\ UNCHANGED <<membershipVars, failed, deleting, modalVars>>

\* Mutant: no finally, so a failed fetch leaves the page loading.
ListFailsLoading(f) ==
  /\ fetch[f] # NoFetch
  /\ failed' = TRUE /\ behind' = TRUE
  /\ fetch' = [fetch EXCEPT ![f] = NoFetch]
  /\ UNCHANGED <<membershipVars, listed, loading, deleting, modalVars>>

\* The error is never cleared.
ListFails(f) ==
  /\ fetch[f] # NoFetch
  /\ failed' = TRUE /\ behind' = TRUE /\ loading' = FALSE
  /\ fetch' = [fetch EXCEPT ![f] = NoFetch]
  /\ UNCHANGED <<membershipVars, listed, deleting, modalVars>>

ListShown == ~loading /\ ~failed /\ ~open

\* handleDelete.  The first press only arms the button; one removal at a time, see
\* StartRemoval.
ConfirmRemove(r) ==
  /\ ListShown /\ r \in listed
  /\ StartRemoval(Me, r)
  /\ deleting' = r
  /\ UNCHANGED <<listed, loading, failed, fetch, behind, modalVars>>

\* Mutant: the list is left to the next fetch.
RemoveAnswersUnfiltered ==
  /\ deleting # None /\ EndRemoval(Me)
  /\ \/ removal[Me].step = "ok" /\ UNCHANGED <<failed, behind>>
     \/ failed' = TRUE /\ behind' = TRUE
  /\ deleting' = None
  /\ UNCHANGED <<listed, loading, fetch, modalVars>>

\* The row leaves the list; an error, or a lost answer, hides the whole list.
RemoveAnswers ==
  /\ deleting # None /\ EndRemoval(Me)
  /\ \/ removal[Me].step = "ok" /\ listed' = listed \ {deleting} /\ UNCHANGED <<failed, behind>>
     \/ failed' = TRUE /\ behind' = TRUE /\ UNCHANGED listed
  /\ deleting' = None
  /\ UNCHANGED <<loading, fetch, modalVars>>

-----------------------------------------------------------------------------
(* The import modal.  What a step does not show is None: nothing reads it  *)
(* before it is set again.                                                  *)

\* What is under way was asked for by a form that is no longer what it was.
Disturbed == {IF q.kind = "import" THEN q ELSE [q EXCEPT !.undisturbed = FALSE] : q \in requests}

OpenModal ==
  /\ ~open /\ open' = TRUE
  /\ UNCHANGED <<membershipVars, listVars, form, busy, requests>>

\* Mutant: the effect resets loading as well.
CloseModalIdle ==
  /\ open /\ open' = FALSE /\ form' = NewForm
  /\ requests' = Disturbed /\ busy' = FALSE
  /\ UNCHANGED <<membershipVars, listVars>>

\* Cancel, the cross or the overlay, at any time.  The effect on isOpen resets the
\* form when the modal opens again, all but loading; nobody sees it until then.
CloseModal ==
  /\ open /\ open' = FALSE /\ form' = NewForm
  /\ requests' = Disturbed
  /\ UNCHANGED <<membershipVars, listVars, busy>>

\* The select is not disabled while a request is under way.
SetSeason(s) ==
  /\ open /\ form.step = 1 /\ s # form.season
  /\ form' = [form EXCEPT !.season = s] /\ requests' = Disturbed
  /\ UNCHANGED <<membershipVars, listVars, open, busy>>

\* Mutant: the leagues are always those of the current year.
ConnectThisYear(a) ==
  /\ open /\ form.step = 1 /\ ~busy
  /\ busy' = TRUE
  /\ requests' = requests \cup
       {[kind |-> "link", user |-> a, season |-> CurrentYear, undisturbed |-> TRUE]}
  /\ UNCHANGED <<membershipVars, listVars, open, form>>

\* handleLinkPlatform, which holds the season of this moment.
Connect(a) ==
  /\ open /\ form.step = 1 /\ ~busy
  /\ busy' = TRUE
  /\ requests' = requests \cup
       {[kind |-> "link", user |-> a, season |-> form.season, undisturbed |-> TRUE]}
  /\ UNCHANGED <<membershipVars, listVars, open, form>>

\* A list that changes on the server and not on the page is behind.
MayFallBehind(missed) == behind' = (behind \/ (missed /\ UserLeagues(Me)' # UserLeagues(Me)))

\* The answer to a link, or to the fetch of its leagues, is an error or is lost.
ConnectFails(q) ==
  /\ q.kind # "import"
  /\ \/ UNCHANGED membershipVars
     \/ q.kind = "link" /\ LinkPlatformProfile(Me, q.user)
  /\ MayFallBehind(TRUE)
  /\ busy' = FALSE /\ requests' = requests \ {q}
  /\ UNCHANGED <<listed, loading, failed, deleting, fetch, open, form>>

\* The page does not fetch its list again, although it may be longer now.
LinkAnswers(q) ==
  /\ q.kind = "link" /\ LinkPlatformProfile(Me, q.user)
  /\ MayFallBehind(TRUE)
  /\ form' = IF open THEN [form EXCEPT !.profile = q.user] ELSE form
  /\ requests' = (requests \ {q}) \cup {[q EXCEPT !.kind = "leagues"]}
  /\ UNCHANGED <<listed, loading, failed, deleting, fetch, open, busy>>

LeaguesAnswer(q) ==
  /\ q.kind = "leagues"
  /\ \/ ~open /\ UNCHANGED form
     \/ open /\ form' = [form EXCEPT !.step = 2, !.undisturbed = q.undisturbed,
                                    !.available = [user |-> q.user, season |-> q.season]]
  /\ busy' = FALSE /\ requests' = requests \ {q}
  /\ UNCHANGED <<membershipVars, listVars, open>>

AvailableLeagues ==
  {l \in Leagues : /\ form.available # None /\ form.available.user \in Platform[l]
                  /\ form.available.season = SeasonOf[l]}

\* importedIds, from the list of the page.
ImportedIds == {r[1] : r \in listed}

SelectLeague(l) ==
  /\ open /\ form.step = 2 /\ l \in AvailableLeagues \ ImportedIds
  /\ form' = [form EXCEPT !.step = 3, !.selected = l]
  /\ UNCHANGED <<membershipVars, listVars, open, busy, requests>>

\* Mutant: one step back from any step.
BackOneStep ==
  /\ open /\ form' = [form EXCEPT !.step = @ - 1]
  /\ UNCHANGED <<membershipVars, listVars, open, busy, requests>>

\* Back is not disabled while an import is under way.
Back ==
  /\ open
  /\ \/ form.step = 3 /\ form' = [form EXCEPT !.step = 2, !.selected = None]
     \/ form.step = 2 /\ form' = [NewForm EXCEPT !.season = form.season]
  /\ UNCHANGED <<membershipVars, listVars, open, busy, requests>>

\* handleImport.
PressImport ==
  /\ open /\ form.step = 3 /\ ~busy
  /\ busy' = TRUE
  /\ requests' = requests \cup {[kind |-> "import", league |-> form.selected, answer |-> "none"]}
  /\ UNCHANGED <<membershipVars, listVars, open, form>>

\* The gateway's transaction commits or not; the answer may be lost.
ServeImport(q) ==
  /\ q.kind = "import" /\ q.answer = "none"
  /\ \E answer \in {"ok", "error"} :
       /\ \/ ImportLeague(q.league)
          \/ answer = "error" /\ UNCHANGED membershipVars
       /\ requests' = (requests \ {q}) \cup {[q EXCEPT !.answer = answer]}
       /\ MayFallBehind(answer = "error" \/ deleting # None)
  /\ UNCHANGED <<listed, loading, failed, deleting, fetch, open, form, busy>>

\* onImported and onClose, of whatever modal is open by now.
ImportAnswers(q) ==
  /\ q.kind = "import"
  /\ \/ q.answer = "error" /\ UNCHANGED <<open, form, loading, fetch>>
     \/ /\ q.answer = "ok" /\ FetchLeagues /\ loading' = TRUE
        /\ open' = FALSE /\ form' = NewForm
  /\ busy' = FALSE /\ requests' = requests \ {q}
  /\ UNCHANGED <<membershipVars, listed, failed, deleting, behind>>

-----------------------------------------------------------------------------
(* The gateway at work for this page, and for everybody else: other users, *)
(* other tabs, and what this tab has left behind.                           *)

Awaited(u) == u = Me /\ deleting # None

\* An answer is kept for a page that waits for it.
Gateway ==
  \E u \in Users :
    /\ RemovalStep(u)
    /\ removal'[u].step \in {"ok", "error"} => Awaited(u)
    /\ removal'[u] = Idle => ~Awaited(u)
    /\ MayFallBehind(~Awaited(u))
    /\ UNCHANGED <<listed, loading, failed, deleting, fetch, modalVars>>

\* The modal offers the leagues of a linked account.
Elsewhere ==
  /\ \/ \E u \in Users : \E a \in Usernames[u] : LinkPlatformProfile(u, a)
     \/ \E u \in Users, l \in Leagues : Platform[l] \cap profiles[u] # {} /\ ImportLeague(l)
     \/ \E u \in Users \ {Me} : \E r \in UserLeagues(u) : StartRemoval(u, r)
     \/ ~Awaited(Me) /\ EndRemoval(Me)
  /\ MayFallBehind(TRUE)
  /\ UNCHANGED <<listed, loading, failed, deleting, fetch, modalVars>>

Next ==
  \/ Mount
  \/ \E f \in Fetches : ReadList(f) \/ ListAnswers(f) \/ ListFails(f)
  \/ \E r \in Row : ConfirmRemove(r)
  \/ RemoveAnswers
  \/ OpenModal \/ CloseModal \/ Back \/ PressImport
  \/ \E s \in Seasons : SetSeason(s)
  \/ \E a \in Usernames[Me] : Connect(a)
  \/ \E l \in Leagues : SelectLeague(l)
  \/ \E q \in requests : \/ ConnectFails(q) \/ LinkAnswers(q) \/ LeaguesAnswer(q)
                         \/ ServeImport(q) \/ ImportAnswers(q)
  \/ Gateway \/ Elsewhere

Spec == Init /\ [][Next]_pageVars

-----------------------------------------------------------------------------
\* The buttons of the modal are disabled while a request is under way, and opening
\* it again does not enable them: so it never has two, and no league is imported
\* twice at once from one page.
OneRequestAtATime ==
  /\ \A p, q \in requests : p = q
  /\ busy <=> requests # {}

\* What the modal shows in its second and third step belongs together: the leagues
\* are those of the account and the season in the heading, unless the form was
\* opened again or the season changed while they were on their way; and the league
\* to be imported is one of them.
WizardIsCoherent ==
  /\ form.step > 1 /\ form.undisturbed =>
       form.available = [user |-> form.profile, season |-> form.season]
  /\ form.step = 3 => form.selected \in AvailableLeagues

\* A page that waits for nothing and shows its list shows the server's, after any
\* of its own imports and removals: unless somebody else, a newly linked account,
\* a lost answer or one that was overtaken has left it behind.
ListIsCurrent ==
  fetch = [f \in Fetches |-> NoFetch] /\ deleting = None /\ requests = {} /\ ~behind
    => listed = UserLeagues(Me)

\* The page says that it is loading only while an answer is still to come.
NothingHangs == loading => \E f \in Fetches : fetch[f] # NoFetch
=============================================================================
