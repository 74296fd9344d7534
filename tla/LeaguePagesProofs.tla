-------------------------- MODULE LeaguePagesProofs --------------------------
(***************************************************************************)
(* Proofs about LeaguePages and LeagueMembership, for any users, accounts, *)
(* leagues and seasons, and any number of fetches under way.               *)
(***************************************************************************)
EXTENDS LeaguePages, TLAPS

-----------------------------------------------------------------------------
(* The server: types.                                                       *)

\* What a removal under way knows.
LEMMA RemovalRow ==
  ASSUME MembershipTypeOK, NEW u \in Users, removal[u].step # "none"
  PROVE  /\ removal[u] \in [step : {"delete", "count", "drop", "ok", "error"}, row : Row]
         /\ removal[u].row \in Row
BY DEF MembershipTypeOK, Removal, Idle

\* A handler that goes on keeps the type of its removal.
LEMMA ContinueType ==
  ASSUME MembershipTypeOK, NEW u \in Users, removal[u].step # "none",
         NEW step \in {"count", "drop", "ok", "error"}, Continue(u, step)
  PROVE  removal' \in [Users -> Removal]
<1>1. removal[u] \in [step : {"delete", "count", "drop", "ok", "error"}, row : Row]
  BY RemovalRow
<1>2. [removal[u] EXCEPT !.step = step] \in Removal
  BY <1>1 DEF Removal
<1>3. Idle \in Removal
  BY DEF Removal
<1>4. removal \in [Users -> Removal]
  BY DEF MembershipTypeOK
<1>5. CASE removal' = [removal EXCEPT ![u] = [@ EXCEPT !.step = step]]
  BY <1>2, <1>4, <1>5
<1>6. CASE removal' = [removal EXCEPT ![u] = Idle]
  BY <1>3, <1>4, <1>6
<1>7. QED
  BY <1>5, <1>6 DEF Continue

LEMMA LinkType ==
  ASSUME MembershipTypeOK, NEW u \in Users, NEW a \in Accounts, LinkPlatformProfile(u, a)
  PROVE  MembershipTypeOK'
BY DEF MembershipTypeOK, LinkPlatformProfile

LEMMA ImportType ==
  ASSUME MembershipTypeOK, NEW l \in Leagues, ImportLeague(l)
  PROVE  MembershipTypeOK'
<1> USE PlatformAssumption, MaxRowsAssumption DEF MembershipTypeOK
<1>1. ASSUME NEW r \in rows, members' = [members EXCEPT ![r] = @ \cup Platform[l]],
             UNCHANGED <<rows, inserted, profiles, removal, cut>>
      PROVE  MembershipTypeOK'
  BY <1>1
<1>2. ASSUME inserted[l] < MaxRows, inserted' = [inserted EXCEPT ![l] = @ + 1],
             rows' = rows \cup {<<l, inserted[l] + 1>>},
             members' = [members EXCEPT ![<<l, inserted[l] + 1>>] = Platform[l]],
             UNCHANGED <<profiles, removal, cut>>
      PROVE  MembershipTypeOK'
  <2>1. inserted[l] + 1 \in 1..MaxRows
    BY <1>2
  <2>2. <<l, inserted[l] + 1>> \in Row
    BY <2>1 DEF Row
  <2>3. QED
    BY <1>2, <2>1, <2>2
<1>3. QED
  BY <1>1, <1>2 DEF ImportLeague

LEMMA StartType ==
  ASSUME MembershipTypeOK, NEW u \in Users, NEW r \in Row, StartRemoval(u, r)
  PROVE  MembershipTypeOK'
BY DEF MembershipTypeOK, StartRemoval, Removal

LEMMA EndType ==
  ASSUME MembershipTypeOK, NEW u \in Users, EndRemoval(u)
  PROVE  MembershipTypeOK'
BY DEF MembershipTypeOK, EndRemoval, Removal

LEMMA RemovalStepType ==
  ASSUME MembershipTypeOK, NEW u \in Users, RemovalStep(u)
  PROVE  MembershipTypeOK'
<1> DEFINE r == removal[u].row
<1>1. removal[u].step # "none"
  BY DEF RemovalStep, DeleteMembership, CountRemaining, DropLeague, CutRemoval
<1>2. r \in Row
  BY <1>1, RemovalRow
<1>3. removal' \in [Users -> Removal]
  BY <1>1, ContinueType
     DEF RemovalStep, DeleteMembership, CountRemaining, DropLeague, CutRemoval
<1>4. CASE DeleteMembership(u)
  BY <1>2, <1>3, <1>4 DEF DeleteMembership, MembershipTypeOK
<1>5. CASE CountRemaining(u)
  BY <1>3, <1>5 DEF CountRemaining, MembershipTypeOK
<1>6. CASE DropLeague(u)
  BY <1>2, <1>3, <1>6 DEF DropLeague, MembershipTypeOK
<1>7. CASE CutRemoval(u)
  BY <1>2, <1>3, <1>7 DEF CutRemoval, MembershipTypeOK
<1>8. QED
  BY <1>4, <1>5, <1>6, <1>7 DEF RemovalStep

-----------------------------------------------------------------------------
(* The page: types.                                                         *)

\* The page's part of the type invariant.
PageTypeOK ==
  /\ listed \subseteq Row /\ deleting \in Row \cup {None}
  /\ {loading, failed, behind, open, busy} \subseteq BOOLEAN
  /\ fetch \in [Fetches -> Fetch] /\ form \in Form
  /\ requests \subseteq Connecting \cup Importing

\* In the third step a league is chosen.
LeagueIsChosen == form.step = 3 => form.selected \in Leagues

\* A request is one of the two kinds, and its kind says which.
LEMMA RequestKinds ==
  ASSUME TypeOK, NEW q \in requests
  PROVE  /\ q.kind # "import" => q \in Connecting
         /\ q.kind = "import" => q \in Importing
         /\ q.kind \in {"import", "link", "leagues"}
BY DEF TypeOK, Connecting, Importing

LEMMA DisturbedType ==
  ASSUME TypeOK
  PROVE  Disturbed \subseteq Connecting \cup Importing
<1>1. ASSUME NEW q \in requests, q.kind # "import"
      PROVE  [q EXCEPT !.undisturbed = FALSE] \in Connecting
  BY <1>1, RequestKinds DEF Connecting
<1>2. QED
  BY <1>1, RequestKinds DEF Disturbed

\* An empty form, and what the steps of the wizard make of one.
LEMMA FormType ==
  /\ NewForm \in Form
  /\ form \in Form =>
       /\ \A s \in Seasons : [form EXCEPT !.season = s] \in Form
       /\ \A s \in Seasons : [NewForm EXCEPT !.season = s] \in Form
       /\ \A a \in Accounts : [form EXCEPT !.profile = a] \in Form
       /\ [form EXCEPT !.step = 2, !.selected = None] \in Form
       /\ \A l \in Leagues : [form EXCEPT !.step = 3, !.selected = l] \in Form
<1>1. NewForm \in Form
  BY SeasonsAssumption DEF Form, NewForm
<1>2. ASSUME NEW s \in Seasons, NEW g \in Form PROVE [g EXCEPT !.season = s] \in Form
  BY <1>2 DEF Form
<1>3. ASSUME NEW a \in Accounts, form \in Form PROVE [form EXCEPT !.profile = a] \in Form
  BY <1>3 DEF Form
<1>4. ASSUME NEW n \in 1..3, NEW l \in Leagues \cup {None}, form \in Form
      PROVE  [form EXCEPT !.step = n, !.selected = l] \in Form
  BY <1>4, Zenon DEF Form
<1>5. 2 \in 1..3 /\ 3 \in 1..3
  OBVIOUS
<1>6. QED
  BY <1>1, <1>2, <1>3, <1>4, <1>5

LEMMA FirstFetchType == FirstFetch \subseteq [Fetches -> Fetch]
BY DEF FirstFetch, Fetch, NoFetch

LEMMA TypeInit == Init => TypeOK
<1> SUFFICES ASSUME Init PROVE TypeOK
  OBVIOUS
<1>1. MembershipTypeOK
  BY MaxRowsAssumption DEF Init, MembershipInit, MembershipTypeOK, Removal
<1>2. QED
  BY <1>1, FormType, FirstFetchType DEF Init, TypeOK

LEMMA TypeStep == TypeOK /\ LeagueIsChosen /\ [Next]_pageVars => TypeOK'
<1> SUFFICES ASSUME TypeOK, LeagueIsChosen, [Next]_pageVars PROVE TypeOK'
  OBVIOUS
<1> USE DEF PageTypeOK
<1>0. MembershipTypeOK /\ PageTypeOK /\ (TypeOK' <=> MembershipTypeOK' /\ PageTypeOK')
  BY DEF TypeOK
<1>m. ASSUME UNCHANGED membershipVars PROVE MembershipTypeOK'
  BY <1>0, <1>m DEF MembershipTypeOK, membershipVars
<1>1. CASE Mount
  BY <1>0, <1>1, <1>m, FormType, FirstFetchType DEF Mount
<1>2. ASSUME NEW f \in Fetches, ReadList(f) PROVE TypeOK'
  <2>1. [phase |-> "read", value |-> UserLeagues(Me)] \in Fetch
    BY <1>0 DEF Fetch, UserLeagues, MembershipTypeOK
  <2>2. QED
    BY <1>0, <1>2, <1>m, <2>1 DEF ReadList, modalVars
<1>3. ASSUME NEW f \in Fetches, ListAnswers(f) PROVE TypeOK'
  <2>1. fetch[f] \in Fetch /\ fetch[f].phase = "read"
    BY <1>0, <1>3 DEF ListAnswers
  <2>2. fetch[f].value \subseteq Row
    BY <2>1 DEF Fetch, NoFetch
  <2>3. behind' \in BOOLEAN /\ NoFetch \in Fetch
    BY <1>0, <1>3 DEF ListAnswers, Fetch
  <2>4. QED
    BY <1>0, <1>3, <1>m, <2>2, <2>3 DEF ListAnswers, modalVars
<1>4. ASSUME NEW f \in Fetches, ListFails(f) PROVE TypeOK'
  BY <1>0, <1>4, <1>m DEF ListFails, modalVars, Fetch
<1>5. ASSUME NEW r \in Row, ConfirmRemove(r) PROVE TypeOK'
  BY <1>0, <1>5, StartType, UsernamesAssumption DEF ConfirmRemove, modalVars
<1>6. CASE RemoveAnswers
  BY <1>0, <1>6, EndType, UsernamesAssumption DEF RemoveAnswers, modalVars
<1>7. CASE OpenModal
  BY <1>0, <1>7, <1>m DEF OpenModal, listVars
<1>8. CASE CloseModal
  BY <1>0, <1>8, <1>m, FormType, DisturbedType DEF CloseModal, listVars
<1>9. CASE Back
  BY <1>0, <1>9, <1>m, FormType DEF Back, listVars, Form
<1>10. CASE PressImport
  <2>1. form.selected \in Leagues
    BY <1>10 DEF PressImport, LeagueIsChosen
  <2>2. QED
    BY <1>0, <1>10, <1>m, <2>1 DEF PressImport, listVars, Importing
<1>11. ASSUME NEW s \in Seasons, SetSeason(s) PROVE TypeOK'
  BY <1>0, <1>11, <1>m, FormType, DisturbedType DEF SetSeason, listVars
<1>12. ASSUME NEW a \in Usernames[Me], Connect(a) PROVE TypeOK'
  <2>1. form.season \in Seasons
    BY <1>0 DEF Form
  <2>2. [kind |-> "link", user |-> a, season |-> form.season, undisturbed |-> TRUE] \in Connecting
    BY <2>1, UsernamesAssumption DEF Connecting
  <2>3. QED
    BY <1>0, <1>12, <1>m, <2>2 DEF Connect, listVars
<1>13. ASSUME NEW l \in Leagues, SelectLeague(l) PROVE TypeOK'
  BY <1>0, <1>13, <1>m, FormType DEF SelectLeague, listVars
<1>14. ASSUME NEW q \in requests, ConnectFails(q) PROVE TypeOK'
  BY <1>0, <1>14, <1>m, RequestKinds, LinkType, UsernamesAssumption
     DEF ConnectFails, MayFallBehind, Connecting
<1>15. ASSUME NEW q \in requests, LinkAnswers(q) PROVE TypeOK'
  <2>1. q \in Connecting /\ [q EXCEPT !.kind = "leagues"] \in Connecting
    BY <1>15, RequestKinds DEF LinkAnswers, Connecting
  <2>2. q.user \in Accounts
    BY <2>1 DEF Connecting
  <2>3. form' \in Form
    BY <1>0, <1>15, <2>2, FormType DEF LinkAnswers
  <2>4. QED
    BY <1>0, <1>15, <2>1, <2>2, <2>3, LinkType, UsernamesAssumption
       DEF LinkAnswers, MayFallBehind
<1>16. ASSUME NEW q \in requests, LeaguesAnswer(q) PROVE TypeOK'
  <2>1. q \in Connecting
    BY <1>16, RequestKinds DEF LeaguesAnswer
  <2>2. form' \in Form
    <3>1. q.undisturbed \in BOOLEAN /\ [user |-> q.user, season |-> q.season]
            \in [user : Accounts, season : Seasons]
      BY <2>1 DEF Connecting
    <3>2. form \in Form
      BY <1>0
    <3>3. [form EXCEPT !.step = 2, !.undisturbed = q.undisturbed,
                       !.available = [user |-> q.user, season |-> q.season]] \in Form
      <4>1. 2 \in 1..3
        OBVIOUS
      <4>2. QED
        BY <3>1, <3>2, <4>1, Zenon DEF Form
    <3>4. QED
      BY <1>16, <3>2, <3>3 DEF LeaguesAnswer
  <2>3. QED
    BY <1>0, <1>16, <1>m, <2>2 DEF LeaguesAnswer, listVars
<1>17. ASSUME NEW q \in requests, ServeImport(q) PROVE TypeOK'
  <2>1. PICK answer \in {"ok", "error"} :
          /\ ImportLeague(q.league) \/ UNCHANGED membershipVars
          /\ requests' = (requests \ {q}) \cup {[q EXCEPT !.answer = answer]}
          /\ MayFallBehind(answer = "error" \/ deleting # None)
    BY <1>17 DEF ServeImport
  <2>2. q \in Importing /\ q.league \in Leagues /\ [q EXCEPT !.answer = answer] \in Importing
    BY <1>17, RequestKinds DEF ServeImport, Importing
  <2>3. MembershipTypeOK'
    BY <1>0, <1>m, <2>1, <2>2, ImportType
  <2>4. QED
    BY <1>0, <1>17, <2>1, <2>2, <2>3 DEF ServeImport, MayFallBehind
<1>18. ASSUME NEW q \in requests, ImportAnswers(q) PROVE TypeOK'
  <2>1. fetch' \in [Fetches -> Fetch]
    BY <1>0, <1>18 DEF ImportAnswers, FetchLeagues, Fetch
  <2>2. QED
    BY <1>0, <1>18, <1>m, <2>1, FormType DEF ImportAnswers
<1>19. CASE Gateway
  BY <1>0, <1>19, RemovalStepType DEF Gateway, MayFallBehind, modalVars
<1>20. CASE Elsewhere
  <2>1. MembershipTypeOK'
    <3>1. ASSUME NEW u \in Users, NEW r \in UserLeagues(u) PROVE r \in Row
      BY <1>0, <3>1 DEF UserLeagues, MembershipTypeOK
    <3>2. QED
      BY <1>0, <1>20, <3>1, LinkType, ImportType, StartType, EndType, UsernamesAssumption
         DEF Elsewhere
  <2>2. QED
    BY <1>0, <1>20, <2>1 DEF Elsewhere, MayFallBehind, modalVars
<1>21. CASE UNCHANGED pageVars
  BY <1>0, <1>21, <1>m DEF pageVars, listVars, modalVars
<1>22. QED
  BY <1>1, <1>2, <1>3, <1>4, <1>5, <1>6, <1>7, <1>8, <1>9, <1>10, <1>11, <1>12, <1>13, <1>14,
     <1>15, <1>16, <1>17, <1>18, <1>19, <1>20, <1>21 DEF Next

-----------------------------------------------------------------------------
(* The modal.                                                               *)

\* A form that waits for an account's leagues is in its first step; while it is the
\* form that asked, it shows the season it asked for, and the account once linked.
FormAwaits ==
  \A q \in requests : q.kind # "import" =>
    /\ form.step = 1
    /\ q.undisturbed => /\ open /\ q.season = form.season
                        /\ q.kind = "leagues" => q.user = form.profile

ModalInv == TypeOK /\ OneRequestAtATime /\ FormAwaits /\ WizardIsCoherent

LEMMA ChosenIsOffered == WizardIsCoherent => LeagueIsChosen
BY DEF WizardIsCoherent, LeagueIsChosen, AvailableLeagues

LEMMA ModalInit == Init => ModalInv
BY TypeInit DEF Init, ModalInv, OneRequestAtATime, FormAwaits, WizardIsCoherent, NewForm

LEMMA ModalStep == ModalInv /\ [Next]_pageVars => ModalInv'
<1> SUFFICES ASSUME ModalInv, [Next]_pageVars PROVE ModalInv'
  OBVIOUS
<1>1. TypeOK /\ TypeOK'
  BY ChosenIsOffered, TypeStep DEF ModalInv
<1> DEFINE Rest == OneRequestAtATime /\ FormAwaits /\ WizardIsCoherent
<1> SUFFICES Rest'
  BY <1>1 DEF ModalInv
<1>2. ASSUME UNCHANGED modalVars PROVE Rest'
  BY <1>2 DEF ModalInv, modalVars, OneRequestAtATime, FormAwaits, WizardIsCoherent,
              AvailableLeagues
<1>3. CASE UNCHANGED pageVars
  BY <1>2, <1>3 DEF pageVars
<1> USE DEF OneRequestAtATime, FormAwaits
<1>0. Rest /\ form \in Form
  BY <1>1 DEF ModalInv, TypeOK
<1>4. ASSUME form' = NewForm, requests' = {}, ~busy' PROVE Rest'
  BY <1>4 DEF WizardIsCoherent, NewForm
<1>5. CASE OpenModal
  BY <1>0, <1>5 DEF OpenModal, WizardIsCoherent, AvailableLeagues
<1>6. CASE CloseModal
  <2>1. WizardIsCoherent' /\ form'.step = 1
    BY <1>6 DEF CloseModal, WizardIsCoherent, NewForm
  <2>2. \A q \in requests' : q.kind # "import" => ~q.undisturbed
    BY <1>1, <1>6, RequestKinds DEF CloseModal, Disturbed, Connecting
  <2>3. OneRequestAtATime'
    BY <1>0, <1>6 DEF CloseModal, Disturbed, listVars
  <2>4. QED
    BY <2>1, <2>2, <2>3
<1>7. ASSUME NEW s \in Seasons, SetSeason(s) PROVE Rest'
  <2>1. WizardIsCoherent' /\ form'.step = 1
    BY <1>0, <1>7 DEF SetSeason, WizardIsCoherent, Form
  <2>2. \A q \in requests' : q.kind # "import" => ~q.undisturbed
    BY <1>1, <1>7, RequestKinds DEF SetSeason, Disturbed, Connecting
  <2>3. OneRequestAtATime'
    BY <1>0, <1>7 DEF SetSeason, Disturbed, listVars
  <2>4. QED
    BY <2>1, <2>2, <2>3
<1>8. ASSUME NEW a \in Usernames[Me], Connect(a) PROVE Rest'
  <2>1. requests' = {[kind |-> "link", user |-> a, season |-> form.season, undisturbed |-> TRUE]}
    BY <1>0, <1>8 DEF Connect
  <2>2. busy' /\ open' /\ form' = form /\ form.step = 1
    BY <1>8 DEF Connect
  <2>3. QED
    BY <2>1, <2>2 DEF WizardIsCoherent
<1>9. ASSUME NEW l \in Leagues, SelectLeague(l) PROVE Rest'
  BY <1>0, <1>9 DEF SelectLeague, WizardIsCoherent, AvailableLeagues, Form
<1>10. CASE Back
  <2>1. CASE form.step = 3 /\ form' = [form EXCEPT !.step = 2, !.selected = None]
    BY <1>0, <1>10, <2>1 DEF Back, WizardIsCoherent, Form
  <2>2. CASE form.step = 2 /\ form' = [NewForm EXCEPT !.season = form.season]
    BY <1>0, <1>10, <2>2 DEF Back, WizardIsCoherent, NewForm
  <2>3. QED
    BY <1>10, <2>1, <2>2 DEF Back
<1>11. CASE PressImport
  <2>1. requests' = {[kind |-> "import", league |-> form.selected, answer |-> "none"]}
    BY <1>0, <1>11 DEF PressImport
  <2>2. busy' /\ form' = form
    BY <1>11 DEF PressImport
  <2>3. QED
    BY <1>0, <2>1, <2>2 DEF WizardIsCoherent, AvailableLeagues
<1>12. ASSUME NEW q \in requests, ConnectFails(q) PROVE Rest'
  BY <1>0, <1>12 DEF ConnectFails, WizardIsCoherent, AvailableLeagues
<1>13. ASSUME NEW q \in requests, LinkAnswers(q) PROVE Rest'
  <2>1. requests' = {[q EXCEPT !.kind = "leagues"]} /\ busy' = busy /\ busy
    BY <1>0, <1>13 DEF LinkAnswers
  <2>2. q \in Connecting /\ form.step = 1
    BY <1>0, <1>1, <1>13, RequestKinds DEF LinkAnswers
  <2>3. form'.step = 1 /\ form'.season = form.season /\ (open => form'.profile = q.user)
    BY <1>0, <1>13, <2>2 DEF LinkAnswers, Form
  <2>4. open' = open
    BY <1>13 DEF LinkAnswers
  <2>5. FormAwaits'
    BY <1>0, <1>13, <2>1, <2>2, <2>3, <2>4 DEF LinkAnswers, Connecting
  <2>6. QED
    BY <2>1, <2>3, <2>5 DEF WizardIsCoherent
<1>14. ASSUME NEW q \in requests, LeaguesAnswer(q) PROVE Rest'
  <2>1. requests' = {} /\ ~busy'
    BY <1>0, <1>14 DEF LeaguesAnswer
  <2>2. CASE ~open /\ UNCHANGED form
    BY <1>0, <1>14, <2>1, <2>2 DEF LeaguesAnswer, WizardIsCoherent
  <2>3. CASE form' = [form EXCEPT !.step = 2, !.undisturbed = q.undisturbed,
                                  !.available = [user |-> q.user, season |-> q.season]]
    BY <1>0, <1>14, <2>1, <2>3 DEF LeaguesAnswer, WizardIsCoherent, Form
  <2>4. QED
    BY <1>14, <2>2, <2>3 DEF LeaguesAnswer
<1>15. ASSUME NEW q \in requests, ServeImport(q) PROVE Rest'
  BY <1>0, <1>1, <1>15, RequestKinds DEF ServeImport, WizardIsCoherent, AvailableLeagues, Importing
<1>16. ASSUME NEW q \in requests, ImportAnswers(q) PROVE Rest'
  <2>1. requests' = {} /\ ~busy'
    BY <1>0, <1>16 DEF ImportAnswers
  <2>2. CASE UNCHANGED form
    BY <1>0, <2>1, <2>2 DEF WizardIsCoherent, AvailableLeagues
  <2>3. CASE form' = NewForm
    BY <1>4, <2>1, <2>3
  <2>4. QED
    BY <1>16, <2>2, <2>3 DEF ImportAnswers
<1>17. ASSUME NEW f \in Fetches, ReadList(f) \/ ListAnswers(f) \/ ListFails(f) PROVE Rest'
  BY <1>2, <1>17 DEF ReadList, ListAnswers, ListFails
<1>18. ASSUME NEW r \in Row, ConfirmRemove(r) PROVE Rest'
  BY <1>2, <1>18 DEF ConfirmRemove
<1>19. CASE RemoveAnswers \/ Gateway \/ Elsewhere
  BY <1>2, <1>19 DEF RemoveAnswers, Gateway, Elsewhere
<1>20. CASE Mount
  BY <1>4, <1>20 DEF Mount
<1>21. QED
  BY <1>3, <1>5, <1>6, <1>7, <1>8, <1>9, <1>10, <1>11, <1>12, <1>13, <1>14, <1>15, <1>16,
     <1>17, <1>18, <1>19, <1>20 DEF Next

LEMMA ModalInvariant == Spec => []ModalInv
BY ModalInit, ModalStep, PTL DEF Spec

\* Every state of the page and of the server is of its type, whatever answers late.
THEOREM TypeCorrect == Spec => []TypeOK
<1>1. ModalInv => TypeOK
  BY DEF ModalInv
<1>2. QED
  BY <1>1, ModalInvariant, PTL

\* However often the modal is closed and opened while a request is under way, it
\* never has two: no league is imported twice at once from one page.
THEOREM RequestsAreSerial == Spec => []OneRequestAtATime
<1>1. ModalInv => OneRequestAtATime
  BY DEF ModalInv
<1>2. QED
  BY <1>1, ModalInvariant, PTL

\* Step 2 and step 3 show the leagues of the account and season in their heading,
\* unless the form that asked for them was closed or changed meanwhile; and the
\* league to be imported is always one of those offered.
THEOREM WizardStaysCoherent == Spec => []WizardIsCoherent
<1>1. ModalInv => WizardIsCoherent
  BY DEF ModalInv
<1>2. QED
  BY <1>1, ModalInvariant, PTL

-----------------------------------------------------------------------------
(* The server: no league is left without a linked member.                   *)

\* Somebody is about to drop the league, or failed to.
BeingDropped(r) ==
  r \in cut \/ \E u \in Users : removal[u].step \in {"count", "drop"} /\ removal[u].row = r

LEMMA LinkKeeps ==
  ASSUME MembershipTypeOK, EmptyLeagueIsDropped, NEW u \in Users, NEW a \in Accounts,
         LinkPlatformProfile(u, a)
  PROVE  EmptyLeagueIsDropped'
<1>1. profiles' = [profiles EXCEPT ![u] = @ \cup {a}] /\ profiles \in [Users -> SUBSET Accounts]
  BY DEF LinkPlatformProfile, MembershipTypeOK
<1>2. \A v \in Users : profiles[v] \subseteq profiles'[v]
  BY <1>1
<1>3. ASSUME NEW r \in rows PROVE LinkedMembers(r) \subseteq LinkedMembers(r)'
  BY <1>2 DEF LinkedMembers, LinkPlatformProfile
<1>4. QED
  BY <1>3 DEF EmptyLeagueIsDropped, LinkPlatformProfile

LEMMA ImportKeeps ==
  ASSUME MembershipTypeOK, EmptyLeagueIsDropped, NEW l \in Leagues, ImportLeague(l),
         Platform[l] \cap UNION {profiles[u] : u \in Users} # {}
  PROVE  EmptyLeagueIsDropped'
<1> DEFINE Into(q) == /\ members' = [members EXCEPT ![q] = members'[q]]
                      /\ Platform[l] \subseteq members'[q] /\ rows' \subseteq rows \cup {q}
                      /\ UNCHANGED <<profiles, removal, cut>>
<1>1. \E q \in Row : Into(q)
  <2>1. ASSUME NEW r \in rows, members' = [members EXCEPT ![r] = @ \cup Platform[l]],
               UNCHANGED <<rows, profiles, removal, cut>>
        PROVE  \E q \in Row : Into(q)
    BY <2>1 DEF MembershipTypeOK
  <2>2. ASSUME inserted[l] < MaxRows, rows' = rows \cup {<<l, inserted[l] + 1>>},
               members' = [members EXCEPT ![<<l, inserted[l] + 1>>] = Platform[l]],
               UNCHANGED <<profiles, removal, cut>>
        PROVE  \E q \in Row : Into(q)
    <3>1. inserted[l] + 1 \in 1..MaxRows
      BY <2>2, MaxRowsAssumption DEF MembershipTypeOK
    <3>2. <<l, inserted[l] + 1>> \in Row
      BY <3>1 DEF Row
    <3>3. QED
      BY <2>2, <3>2 DEF MembershipTypeOK
  <2>3. QED
    BY <2>1, <2>2 DEF ImportLeague
<1>2. PICK q \in Row : Into(q)
  BY <1>1
<1>3. LinkedMembers(q)' # {}
  BY <1>2 DEF LinkedMembers
<1>4. ASSUME NEW r \in rows', r # q PROVE r \in rows /\ LinkedMembers(r)' = LinkedMembers(r)
  BY <1>2, <1>4 DEF LinkedMembers, MembershipTypeOK
<1>5. QED
  BY <1>2, <1>3, <1>4 DEF EmptyLeagueIsDropped

\* A removal that starts or ends is not one that is about to drop a league.
LEMMA StartOrEndKeeps ==
  ASSUME MembershipTypeOK, EmptyLeagueIsDropped, NEW u \in Users,
         EndRemoval(u) \/ \E r \in Row : StartRemoval(u, r)
  PROVE  EmptyLeagueIsDropped'
<1>1. removal[u].step \notin {"count", "drop"}
  BY DEF EndRemoval, StartRemoval, Idle
<1>2. \A v \in Users : v # u => removal'[v] = removal[v]
  BY DEF EndRemoval, StartRemoval, MembershipTypeOK
<1>3. UNCHANGED <<rows, members, profiles, cut>>
  BY DEF EndRemoval, StartRemoval
<1>4. QED
  BY <1>1, <1>2, <1>3 DEF EmptyLeagueIsDropped, LinkedMembers

LEMMA RemovalStepKeeps ==
  ASSUME MembershipTypeOK, EmptyLeagueIsDropped, NEW u \in Users, RemovalStep(u)
  PROVE  EmptyLeagueIsDropped'
<1>0. removal[u].step # "none" /\ removal[u].row \in Row
  BY RemovalRow DEF RemovalStep, DeleteMembership, CountRemaining, DropLeague, CutRemoval
<1>1. PICK r \in Row : r = removal[u].row
  BY <1>0
<1>2. \A v \in Users : v # u => removal'[v] = removal[v]
  BY DEF RemovalStep, DeleteMembership, CountRemaining, DropLeague, CutRemoval, Continue,
         MembershipTypeOK
<1>3. ASSUME NEW step \in {"count", "drop"}, Continue(u, step)
      PROVE  removal'[u].step = step /\ removal'[u].row = r
  BY <1>0, <1>1, <1>3, RemovalRow DEF Continue, MembershipTypeOK
<1>4. /\ rows' \subseteq rows /\ rows \subseteq Row /\ profiles' = profiles /\ cut \ {r} \subseteq cut'
      /\ \A s \in Row : s # r => members'[s] = members[s]
  BY <1>1 DEF RemovalStep, DeleteMembership, CountRemaining, DropLeague, CutRemoval,
              MembershipTypeOK
<1>5. \A s \in rows : LinkedMembers(s) = {} => BeingDropped(s)
  BY DEF EmptyLeagueIsDropped, BeingDropped
<1>6. ASSUME NEW s \in rows', s # r, LinkedMembers(s)' = {} PROVE BeingDropped(s)'
  <2>1. s \in rows /\ LinkedMembers(s) = {}
    BY <1>4, <1>6 DEF LinkedMembers
  <2>2. CASE s \in cut
    BY <1>4, <1>6, <2>2 DEF BeingDropped
  <2>3. CASE \E v \in Users : removal[v].step \in {"count", "drop"} /\ removal[v].row = s
    BY <1>1, <1>2, <1>6, <2>3 DEF BeingDropped
  <2>4. QED
    BY <1>5, <2>1, <2>2, <2>3 DEF BeingDropped
<1>7. ASSUME r \in rows', LinkedMembers(r)' = {} PROVE BeingDropped(r)'
  <2>1. CASE DeleteMembership(u)
    <3>1. CASE r \in UserLeagues(u) /\ Continue(u, "count")
      BY <1>1, <1>3, <3>1 DEF BeingDropped
    <3>2. CASE r \notin UserLeagues(u)
      <4>1. members' = members /\ cut' = cut /\ r \in rows
        BY <1>1, <1>4, <1>7, <2>1, <3>2 DEF DeleteMembership, UserLeagues, MembershipTypeOK
      <4>2. LinkedMembers(r) = {} /\ removal[u].step \notin {"count", "drop"}
        BY <1>1, <1>4, <1>7, <2>1, <4>1 DEF LinkedMembers, DeleteMembership
      <4>3. QED
        BY <1>2, <1>5, <4>1, <4>2 DEF BeingDropped
    <3>3. QED
      BY <1>1, <2>1, <3>1, <3>2 DEF DeleteMembership
  <2>2. CASE CountRemaining(u)
    <3>1. LinkedMembers(r) = {}
      BY <1>1, <1>7, <2>2 DEF CountRemaining, LinkedMembers
    <3>2. Continue(u, "drop")
      BY <1>1, <2>2, <3>1 DEF CountRemaining
    <3>3. QED
      BY <1>3, <3>2 DEF BeingDropped
  <2>3. CASE DropLeague(u)
    BY <1>1, <1>7, <2>3 DEF DropLeague
  <2>4. CASE CutRemoval(u)
    <3>1. CASE removal[u].step = "delete"
      <4>1. LinkedMembers(r) = {} /\ r \in rows /\ cut \subseteq cut'
        BY <1>1, <1>4, <1>7, <2>4, <3>1 DEF CutRemoval, LinkedMembers
      <4>2. QED
        BY <1>2, <1>5, <3>1, <4>1 DEF BeingDropped
    <3>2. CASE removal[u].step # "delete"
      BY <1>1, <1>4, <1>7, <2>4, <3>2 DEF CutRemoval, BeingDropped
    <3>3. QED
      BY <3>1, <3>2
  <2>5. QED
    BY <2>1, <2>2, <2>3, <2>4 DEF RemovalStep
<1>8. QED
  BY <1>6, <1>7 DEF EmptyLeagueIsDropped, BeingDropped

\* What the modal offers and imports is of an account its user has linked.
OffersAreLinked ==
  /\ form.available # None => form.available.user \in profiles[Me]
  /\ \A q \in requests :
       /\ q.kind = "leagues" => q.user \in profiles[Me]
       /\ q.kind = "import" => Platform[q.league] \cap profiles[Me] # {}

\* No step takes a linked account away.
LEMMA ProfilesGrow ==
  ASSUME TypeOK, [Next]_pageVars
  PROVE  profiles[Me] \subseteq profiles'[Me]
<1>1. profiles \in [Users -> SUBSET Accounts] /\ Me \in Users
  BY UsernamesAssumption DEF TypeOK, MembershipTypeOK
<1>2. ASSUME NEW u \in Users, NEW a \in Accounts, LinkPlatformProfile(u, a)
      PROVE  profiles[Me] \subseteq profiles'[Me]
  BY <1>1, <1>2 DEF LinkPlatformProfile
<1>3. ASSUME NEW u \in Users, NEW a \in Usernames[u], LinkPlatformProfile(u, a)
      PROVE  profiles[Me] \subseteq profiles'[Me]
  BY <1>2, <1>3, UsernamesAssumption
<1>4. ASSUME NEW q \in requests, LinkPlatformProfile(Me, q.user)
      PROVE  profiles[Me] \subseteq profiles'[Me]
  BY <1>1, <1>4 DEF LinkPlatformProfile
<1>5. ASSUME UNCHANGED profiles PROVE profiles[Me] \subseteq profiles'[Me]
  BY <1>5
<1>6. CASE Gateway
  BY <1>5, <1>6 DEF Gateway, RemovalStep, DeleteMembership, CountRemaining, DropLeague, CutRemoval
<1>7. CASE Elsewhere
  BY <1>3, <1>5, <1>7 DEF Elsewhere, ImportLeague, StartRemoval, EndRemoval
<1>8. ASSUME NEW q \in requests,
             ConnectFails(q) \/ LinkAnswers(q) \/ ServeImport(q)
      PROVE  profiles[Me] \subseteq profiles'[Me]
  BY <1>4, <1>5, <1>8
     DEF ConnectFails, LinkAnswers, ServeImport, ImportLeague, membershipVars
<1>9. CASE RemoveAnswers \/ \E r \in Row : ConfirmRemove(r)
  BY <1>5, <1>9 DEF RemoveAnswers, EndRemoval, ConfirmRemove, StartRemoval
<1>10. CASE UNCHANGED membershipVars
  BY <1>5, <1>10 DEF membershipVars
<1>11. QED
  BY <1>6, <1>7, <1>8, <1>9, <1>10
     DEF Next, Mount, ReadList, ListAnswers, ListFails, OpenModal, CloseModal, Back,
         PressImport, SetSeason, Connect, SelectLeague, LeaguesAnswer, ImportAnswers, pageVars

LEMMA OffersStep ==
  ASSUME ModalInv, OffersAreLinked, [Next]_pageVars
  PROVE  OffersAreLinked'
<1>1. TypeOK /\ profiles[Me] \subseteq profiles'[Me]
  BY ProfilesGrow DEF ModalInv
<1>2. form \in Form
  BY <1>1 DEF TypeOK
<1> USE DEF OffersAreLinked
<1>3. ASSUME UNCHANGED <<form, requests>> PROVE OffersAreLinked'
  BY <1>1, <1>3
<1>4. ASSUME form' \in {form, NewForm}, requests' \subseteq requests PROVE OffersAreLinked'
  BY <1>1, <1>4 DEF NewForm
<1>5. CASE Mount
  BY <1>4, <1>5 DEF Mount
<1>6. ASSUME \A q \in requests' :
               q \in requests \/ \E p \in requests : p.kind # "import" /\ q = [p EXCEPT !.undisturbed = FALSE]
      PROVE  \A q \in requests' :
               /\ q.kind = "leagues" => q.user \in profiles'[Me]
               /\ q.kind = "import" => Platform[q.league] \cap profiles'[Me] # {}
  BY <1>1, <1>6, RequestKinds DEF Connecting
<1>7. CASE CloseModal
  BY <1>6, <1>7 DEF CloseModal, Disturbed, NewForm
<1>8. ASSUME NEW s \in Seasons, SetSeason(s) PROVE OffersAreLinked'
  <2>1. form'.available = form.available
    BY <1>2, <1>8 DEF SetSeason, Form
  <2>2. QED
    BY <1>1, <1>6, <1>8, <2>1 DEF SetSeason, Disturbed
<1>9. ASSUME NEW a \in Usernames[Me], Connect(a) PROVE OffersAreLinked'
  BY <1>1, <1>9 DEF Connect
<1>10. ASSUME NEW l \in Leagues, SelectLeague(l) PROVE OffersAreLinked'
  BY <1>1, <1>2, <1>10 DEF SelectLeague, Form
<1>11. CASE Back
  <2>1. form'.available \in {form.available, None}
    BY <1>2, <1>11 DEF Back, Form, NewForm
  <2>2. QED
    BY <1>1, <1>11, <2>1 DEF Back
<1>12. CASE PressImport
  <2>1. Platform[form.selected] \cap profiles[Me] # {}
    BY <1>12 DEF PressImport, ModalInv, WizardIsCoherent, AvailableLeagues
  <2>2. QED
    BY <1>1, <1>12, <2>1 DEF PressImport
<1>13. ASSUME NEW q \in requests, ConnectFails(q) PROVE OffersAreLinked'
  BY <1>4, <1>13 DEF ConnectFails
<1>14. ASSUME NEW q \in requests, LinkAnswers(q) PROVE OffersAreLinked'
  <2>1. q \in Connecting
    BY <1>1, <1>14, RequestKinds DEF LinkAnswers
  <2>2. q.user \in profiles'[Me]
    BY <1>1, <1>14, UsernamesAssumption
       DEF LinkAnswers, LinkPlatformProfile, TypeOK, MembershipTypeOK
  <2>3. form'.available = form.available
    BY <1>2, <1>14 DEF LinkAnswers, Form
  <2>4. QED
    BY <1>1, <1>14, <2>1, <2>2, <2>3 DEF LinkAnswers, Connecting
<1>15. ASSUME NEW q \in requests, LeaguesAnswer(q) PROVE OffersAreLinked'
  <2>1. CASE form' = [form EXCEPT !.step = 2, !.undisturbed = q.undisturbed,
                                  !.available = [user |-> q.user, season |-> q.season]]
    <3>1. form'.available.user = q.user
      BY <1>2, <2>1 DEF Form
    <3>2. QED
      BY <1>1, <1>15, <3>1 DEF LeaguesAnswer
  <2>2. QED
    BY <1>4, <1>15, <2>1 DEF LeaguesAnswer
<1>16. ASSUME NEW q \in requests, ServeImport(q) PROVE OffersAreLinked'
  BY <1>1, <1>16, RequestKinds DEF ServeImport, Importing
<1>17. ASSUME NEW q \in requests, ImportAnswers(q) PROVE OffersAreLinked'
  BY <1>4, <1>17 DEF ImportAnswers
<1>18. ASSUME NEW f \in Fetches, ReadList(f) \/ ListAnswers(f) \/ ListFails(f)
       PROVE  OffersAreLinked'
  BY <1>3, <1>18 DEF ReadList, ListAnswers, ListFails, modalVars
<1>19. ASSUME NEW r \in Row, ConfirmRemove(r) PROVE OffersAreLinked'
  BY <1>3, <1>19 DEF ConfirmRemove, modalVars
<1>20. CASE RemoveAnswers \/ OpenModal \/ Gateway \/ Elsewhere \/ UNCHANGED pageVars
  BY <1>3, <1>20 DEF RemoveAnswers, OpenModal, Gateway, Elsewhere, pageVars, modalVars
<1>21. QED
  BY <1>5, <1>7, <1>8, <1>9, <1>10, <1>11, <1>12, <1>13, <1>14, <1>15, <1>16, <1>17, <1>18,
     <1>19, <1>20 DEF Next

LEMMA DropStep ==
  ASSUME ModalInv, OffersAreLinked, EmptyLeagueIsDropped, [Next]_pageVars
  PROVE  EmptyLeagueIsDropped'
<1>1. TypeOK /\ MembershipTypeOK /\ Me \in Users
  BY UsernamesAssumption DEF ModalInv, TypeOK
<1>2. ASSUME UNCHANGED membershipVars PROVE EmptyLeagueIsDropped'
  BY <1>2 DEF EmptyLeagueIsDropped, LinkedMembers, membershipVars
<1>3. ASSUME NEW q \in requests, ConnectFails(q) \/ LinkAnswers(q) PROVE EmptyLeagueIsDropped'
  <2>1. q.kind = "link" => q.user \in Accounts
    BY <1>1, RequestKinds DEF Connecting
  <2>2. QED
    BY <1>1, <1>2, <1>3, <2>1, LinkKeeps DEF ConnectFails, LinkAnswers
<1>4. ASSUME NEW q \in requests, ServeImport(q) PROVE EmptyLeagueIsDropped'
  <2>1. q.league \in Leagues /\ Platform[q.league] \cap UNION {profiles[u] : u \in Users} # {}
    BY <1>1, <1>4, RequestKinds DEF ServeImport, Importing, OffersAreLinked
  <2>2. QED
    BY <1>1, <1>2, <1>4, <2>1, ImportKeeps DEF ServeImport
<1>5. CASE Gateway
  BY <1>1, <1>5, RemovalStepKeeps DEF Gateway
<1>6. CASE Elsewhere
  <2>1. ASSUME NEW u \in Users, NEW a \in Usernames[u], LinkPlatformProfile(u, a)
        PROVE  EmptyLeagueIsDropped'
    BY <1>1, <2>1, LinkKeeps, UsernamesAssumption
  <2>2. ASSUME NEW u \in Users, NEW l \in Leagues, Platform[l] \cap profiles[u] # {},
               ImportLeague(l)
        PROVE  EmptyLeagueIsDropped'
    BY <1>1, <2>2, ImportKeeps
  <2>3. ASSUME NEW u \in Users, NEW r \in UserLeagues(u), StartRemoval(u, r)
        PROVE  EmptyLeagueIsDropped'
    <3>1. r \in Row
      BY <1>1 DEF UserLeagues, MembershipTypeOK
    <3>2. QED
      BY <1>1, <2>3, <3>1, StartOrEndKeeps
  <2>4. QED
    BY <1>1, <1>6, <2>1, <2>2, <2>3, StartOrEndKeeps DEF Elsewhere
<1>7. CASE RemoveAnswers \/ \E r \in Row : ConfirmRemove(r)
  BY <1>1, <1>7, StartOrEndKeeps DEF RemoveAnswers, ConfirmRemove
<1>8. QED
  BY <1>2, <1>3, <1>4, <1>5, <1>6, <1>7
     DEF Next, Mount, ReadList, ListAnswers, ListFails, OpenModal, CloseModal, Back,
         PressImport, SetSeason, Connect, SelectLeague, LeaguesAnswer, ImportAnswers, pageVars

\* However removals, imports and links of any number of users interleave, a league
\* that none of its linked members is in has a removal under way that drops it,
\* unless a removal of it failed half way.
THEOREM NoLeagueIsLeftEmpty == Spec => []EmptyLeagueIsDropped
<1> DEFINE Inv == ModalInv /\ OffersAreLinked /\ EmptyLeagueIsDropped
<1>1. Init => Inv
  BY ModalInit DEF Init, MembershipInit, OffersAreLinked, EmptyLeagueIsDropped, NewForm
<1>2. Inv /\ [Next]_pageVars => Inv'
  BY ModalStep, OffersStep, DropStep
<1>3. Inv => EmptyLeagueIsDropped
  OBVIOUS
<1>4. QED
  BY <1>1, <1>2, <1>3, PTL DEF Spec

-----------------------------------------------------------------------------
(* The list.                                                                *)

LEMMA LoadingStep ==
  ASSUME TypeOK, NothingHangs, [Next]_pageVars
  PROVE  NothingHangs'
<1> USE DEF NothingHangs
<1>1. fetch \in [Fetches -> Fetch]
  BY DEF TypeOK
<1>2. ASSUME UNCHANGED <<loading, fetch>> PROVE NothingHangs'
  BY <1>2
<1>3. CASE Mount
  BY <1>3 DEF Mount, FirstFetch, NoFetch
<1>4. ASSUME NEW f \in Fetches, ReadList(f) PROVE NothingHangs'
  BY <1>1, <1>4 DEF ReadList, NoFetch
<1>5. ASSUME NEW f \in Fetches, ListAnswers(f) \/ ListFails(f) PROVE NothingHangs'
  BY <1>5 DEF ListAnswers, ListFails
<1>6. ASSUME NEW q \in requests, ImportAnswers(q) PROVE NothingHangs'
  <2>1. CASE FetchLeagues
    BY <1>1, <2>1 DEF FetchLeagues, NoFetch
  <2>2. QED
    BY <1>2, <1>6, <2>1 DEF ImportAnswers
<1>7. ASSUME NEW q \in requests,
             ConnectFails(q) \/ LinkAnswers(q) \/ LeaguesAnswer(q) \/ ServeImport(q)
      PROVE  NothingHangs'
  BY <1>2, <1>7 DEF ConnectFails, LinkAnswers, LeaguesAnswer, ServeImport, listVars
<1>8. ASSUME NEW r \in Row, ConfirmRemove(r) PROVE NothingHangs'
  BY <1>2, <1>8 DEF ConfirmRemove
<1>9. CASE RemoveAnswers \/ Gateway \/ Elsewhere \/ UNCHANGED pageVars
  BY <1>2, <1>9 DEF RemoveAnswers, Gateway, Elsewhere, pageVars, listVars
<1>10. ASSUME UNCHANGED listVars PROVE NothingHangs'
  BY <1>2, <1>10 DEF listVars
<1>11. QED
  BY <1>3, <1>4, <1>5, <1>6, <1>7, <1>8, <1>9, <1>10
     DEF Next, OpenModal, CloseModal, Back, PressImport, SetSeason, Connect, SelectLeague

\* A page that says it is loading waits for an answer, also after a failed fetch and
\* after imports that overtake one another.
THEOREM LoadingEnds == Spec => []NothingHangs
<1>1. Init => NothingHangs
  BY DEF Init, FirstFetch, NothingHangs, NoFetch
<1>2. QED
  BY <1>1, LoadingStep, TypeCorrect, PTL DEF Spec

\* The page's own removal is of the row it shows as being removed.
RemovalIsAwaited ==
  deleting # None => removal[Me].step # "none" /\ removal[Me].row = deleting

\* The first statement of the page's own removal is done, and none has failed.
Removed == deleting # None /\ removal[Me].step \in {"count", "drop", "ok"}

\* An import is through and the page does not know it yet.
Unfetched ==
  \/ \E f \in Fetches : fetch[f] # NoFetch
  \/ \E q \in requests : q.kind = "import" /\ q.answer = "ok"

\* A page that is not behind differs from the server by the row it removes, or by
\* what the fetch to come will bring.
ListFollows ==
  ~behind =>
    /\ Removed => deleting \notin UserLeagues(Me)
    /\ ~Unfetched =>
         /\ deleting = None \/ removal[Me].step = "delete" => listed = UserLeagues(Me)
         /\ Removed => listed \ {deleting} = UserLeagues(Me)

ListInv == RemovalIsAwaited /\ ListFollows

\* A step that leaves the page's own removal alone, and the list as it is unless
\* it falls behind.
LEMMA OtherSteps ==
  ASSUME ListInv, UNCHANGED <<listed, deleting, fetch, removal[Me]>>, MayFallBehind(TRUE),
         Unfetched => Unfetched'
  PROVE  ListInv'
<1>1. RemovalIsAwaited'
  BY DEF ListInv, RemovalIsAwaited
<1>2. ASSUME ~behind' PROVE ~behind /\ UserLeagues(Me)' = UserLeagues(Me)
  BY <1>2 DEF MayFallBehind
<1>3. QED
  BY <1>1, <1>2 DEF ListInv, ListFollows, Removed

\* A step of the page alone.
LEMMA PageSteps ==
  ASSUME ListInv, UNCHANGED <<membershipVars, listed, deleting, fetch, behind>>,
         Unfetched => Unfetched'
  PROVE  ListInv'
<1>1. UserLeagues(Me)' = UserLeagues(Me)
  BY DEF UserLeagues, membershipVars
<1>2. QED
  BY <1>1 DEF ListInv, ListFollows, Removed, RemovalIsAwaited, membershipVars

\* The page's own removal: its first statement takes its row from the user's leagues,
\* and the others change nothing of them.
LEMMA OwnRemoval ==
  ASSUME MembershipTypeOK, Me \in Users, RemovalStep(Me)
  PROVE  /\ removal'[Me] # Idle => removal'[Me].row = removal[Me].row
         /\ removal'[Me].step \in {"count", "drop", "ok"} =>
              \/ /\ removal[Me].step = "delete"
                 /\ UserLeagues(Me)' = UserLeagues(Me) \ {removal[Me].row}
              \/ /\ removal[Me].step \in {"count", "drop"}
                 /\ removal[Me].row \notin UserLeagues(Me) => UserLeagues(Me)' = UserLeagues(Me)
         /\ removal'[Me].step # "delete"
<1>0. removal[Me].step # "none" /\ removal[Me].row \in Row
  BY RemovalRow DEF RemovalStep, DeleteMembership, CountRemaining, DropLeague, CutRemoval
<1>1. PICK r \in Row : r = removal[Me].row
  BY <1>0
<1>2. ASSUME NEW step \in {"count", "drop", "ok", "error"}, Continue(Me, step)
      PROVE  \/ removal'[Me] = Idle
             \/ removal'[Me].row = r /\ removal'[Me].step = step
  BY <1>0, <1>1, <1>2, RemovalRow DEF Continue, MembershipTypeOK
<1>3. Idle.step = "none"
  BY DEF Idle
<1>4. CASE DeleteMembership(Me)
  <2>1. rows' = rows /\ profiles' = profiles /\ removal[Me].step = "delete"
         /\ members' = [members EXCEPT ![r] = @ \ profiles[Me]]
    BY <1>1, <1>4 DEF DeleteMembership
  <2>2. UserLeagues(Me)' = UserLeagues(Me) \ {r}
    BY <2>1 DEF UserLeagues, MembershipTypeOK
  <2>3. QED
    BY <1>1, <1>2, <1>3, <1>4, <2>1, <2>2 DEF DeleteMembership
<1>5. CASE CountRemaining(Me)
  <2>1. UserLeagues(Me)' = UserLeagues(Me) /\ removal[Me].step = "count"
    BY <1>5 DEF CountRemaining, UserLeagues
  <2>2. QED
    BY <1>1, <1>2, <1>3, <1>5, <2>1 DEF CountRemaining
<1>6. CASE DropLeague(Me)
  <2>1. rows' = rows \ {r} /\ profiles' = profiles /\ removal[Me].step = "drop"
         /\ members' = [members EXCEPT ![r] = {}]
    BY <1>1, <1>6 DEF DropLeague
  <2>2. UserLeagues(Me)' = UserLeagues(Me) \ {r}
    BY <2>1 DEF UserLeagues, MembershipTypeOK
  <2>3. QED
    BY <1>1, <1>2, <1>3, <1>6, <2>1, <2>2 DEF DropLeague
<1>7. CASE CutRemoval(Me)
  BY <1>1, <1>2, <1>3, <1>7 DEF CutRemoval
<1>8. QED
  BY <1>4, <1>5, <1>6, <1>7 DEF RemovalStep

LEMMA ListStep ==
  ASSUME TypeOK, OneRequestAtATime, ListInv, [Next]_pageVars
  PROVE  ListInv'
<1>1. MembershipTypeOK /\ Me \in Users /\ fetch \in [Fetches -> Fetch]
  BY UsernamesAssumption DEF TypeOK
<1>2. CASE Mount
  <2>1. deleting' = None /\ \E f \in Fetches : fetch'[f] # NoFetch
    BY <1>2 DEF Mount, FirstFetch, NoFetch
  <2>2. QED
    BY <2>1 DEF ListInv, RemovalIsAwaited, ListFollows, Removed, Unfetched
<1>3. ASSUME NEW f \in Fetches, ReadList(f) PROVE ListInv'
  <2>1. UserLeagues(Me)' = UserLeagues(Me) /\ fetch'[f] # NoFetch
    BY <1>1, <1>3 DEF ReadList, UserLeagues, membershipVars, NoFetch
  <2>2. QED
    BY <1>3, <2>1
       DEF ReadList, ListInv, RemovalIsAwaited, ListFollows, Removed, Unfetched, membershipVars
<1>4. ASSUME NEW f \in Fetches, ListAnswers(f) PROVE ListInv'
  <2>1. UserLeagues(Me)' = UserLeagues(Me) /\ listed' = fetch[f].value
    BY <1>4 DEF ListAnswers, UserLeagues, membershipVars
  <2>2. ~behind' => /\ listed' = UserLeagues(Me)'
                    /\ deleting # None => ~behind
    BY <1>4, <2>1 DEF ListAnswers
  <2>3. QED
    BY <1>4, <2>1, <2>2
       DEF ListAnswers, ListInv, RemovalIsAwaited, ListFollows, Removed, membershipVars
<1>5. ASSUME NEW f \in Fetches, ListFails(f) PROVE ListInv'
  BY <1>5 DEF ListFails, ListInv, RemovalIsAwaited, ListFollows, membershipVars
<1>6. ASSUME NEW r \in Row, ConfirmRemove(r) PROVE ListInv'
  <2>1. removal'[Me] = [step |-> "delete", row |-> r] /\ deleting' = r
    BY <1>1, <1>6 DEF ConfirmRemove, StartRemoval, MembershipTypeOK
  <2>2. UserLeagues(Me)' = UserLeagues(Me)
    BY <1>6 DEF ConfirmRemove, StartRemoval, UserLeagues
  <2>3. Unfetched' = Unfetched /\ behind' = behind /\ listed' = listed
    BY <1>6 DEF ConfirmRemove, Unfetched, modalVars
  <2>4. deleting = None \/ removal[Me].step = "none"
    BY <1>6 DEF ConfirmRemove, StartRemoval, Idle
  <2>5. deleting = None
    BY <2>4 DEF ListInv, RemovalIsAwaited
  <2>6. QED
    BY <2>1, <2>2, <2>3, <2>5 DEF ListInv, RemovalIsAwaited, ListFollows, Removed
<1>7. CASE RemoveAnswers
  <2>1. UserLeagues(Me)' = UserLeagues(Me)
    BY <1>7 DEF RemoveAnswers, EndRemoval, UserLeagues
  <2>2. Unfetched' = Unfetched /\ deleting' = None /\ deleting # None
    BY <1>7 DEF RemoveAnswers, Unfetched, modalVars
  <2>3. ASSUME ~behind'
        PROVE  ~behind /\ removal[Me].step = "ok" /\ listed' = listed \ {deleting}
    BY <1>7, <2>3 DEF RemoveAnswers
  <2>4. QED
    BY <2>1, <2>2, <2>3 DEF ListInv, RemovalIsAwaited, ListFollows, Removed
<1>8. ASSUME UNCHANGED <<membershipVars, listVars>>, Unfetched => Unfetched' PROVE ListInv'
  BY <1>8, PageSteps DEF listVars
<1>9. ASSUME UNCHANGED <<membershipVars, listVars>>,
             \A q \in requests : q.kind = "import" => q \in requests'
      PROVE  ListInv'
  BY <1>8, <1>9 DEF Unfetched, listVars
<1>10. CASE OpenModal \/ Back \/ PressImport \/ \E l \in Leagues : SelectLeague(l)
  BY <1>9, <1>10 DEF OpenModal, Back, PressImport, SelectLeague
<1>11. CASE CloseModal \/ \E s \in Seasons : SetSeason(s)
  BY <1>9, <1>11 DEF CloseModal, SetSeason, Disturbed
<1>12. ASSUME NEW a \in Usernames[Me], Connect(a) PROVE ListInv'
  BY <1>9, <1>12 DEF Connect
<1>13. ASSUME NEW q \in requests, ConnectFails(q) \/ LinkAnswers(q) PROVE ListInv'
  <2>1. UNCHANGED <<listed, deleting, fetch, removal[Me]>> /\ MayFallBehind(TRUE)
    BY <1>13 DEF ConnectFails, LinkAnswers, LinkPlatformProfile, membershipVars
  <2>2. Unfetched => Unfetched'
    BY <1>13 DEF ConnectFails, LinkAnswers, Unfetched
  <2>3. QED
    BY <2>1, <2>2, OtherSteps
<1>14. ASSUME NEW q \in requests, LeaguesAnswer(q) PROVE ListInv'
  BY <1>9, <1>14 DEF LeaguesAnswer
<1>15. ASSUME NEW q \in requests, ServeImport(q) PROVE ListInv'
  <2>1. PICK answer \in {"ok", "error"} :
          /\ ImportLeague(q.league) \/ (answer = "error" /\ UNCHANGED membershipVars)
          /\ requests' = (requests \ {q}) \cup {[q EXCEPT !.answer = answer]}
          /\ MayFallBehind(answer = "error" \/ deleting # None)
    BY <1>15 DEF ServeImport
  <2>2. q.answer = "none" /\ q.kind = "import" /\ q \in Importing
    BY <1>15, RequestKinds DEF ServeImport
  <2>3. UNCHANGED <<listed, deleting, fetch, removal[Me]>>
    BY <1>15, <2>1 DEF ServeImport, ImportLeague, membershipVars
  <2>4. Unfetched => Unfetched'
    BY <2>1, <2>2, <2>3 DEF Unfetched
  <2>5. CASE answer = "error" \/ deleting # None
    BY <2>1, <2>3, <2>4, <2>5, OtherSteps DEF MayFallBehind
  <2>6. CASE answer = "ok" /\ deleting = None
    <3>1. [q EXCEPT !.answer = answer].kind = "import" /\ [q EXCEPT !.answer = answer].answer = "ok"
      BY <2>2, <2>6 DEF Importing
    <3>2. Unfetched'
      BY <2>1, <3>1 DEF Unfetched
    <3>3. QED
      BY <2>3, <2>6, <3>2 DEF ListInv, RemovalIsAwaited, ListFollows, Removed
  <2>7. QED
    BY <2>5, <2>6
<1>16. ASSUME NEW q \in requests, ImportAnswers(q) PROVE ListInv'
  <2>1. CASE q.answer = "error" /\ UNCHANGED <<loading, fetch>>
    <3>1. Unfetched => Unfetched'
      BY <1>16, <2>1 DEF ImportAnswers, OneRequestAtATime, Unfetched
    <3>2. QED
      BY <1>16, <2>1, <3>1, PageSteps DEF ImportAnswers
  <2>2. CASE FetchLeagues
    <3>1. Unfetched'
      BY <1>1, <2>2 DEF FetchLeagues, Unfetched, NoFetch
    <3>2. UserLeagues(Me)' = UserLeagues(Me)
      BY <1>16 DEF ImportAnswers, UserLeagues, membershipVars
    <3>3. QED
      BY <1>16, <3>1, <3>2
         DEF ImportAnswers, ListInv, RemovalIsAwaited, ListFollows, Removed, membershipVars
  <2>3. QED
    BY <1>16, <2>1, <2>2 DEF ImportAnswers
<1>17. ASSUME NEW u \in Users, RemovalStep(u), ~Awaited(u), MayFallBehind(TRUE),
              UNCHANGED <<listed, loading, failed, deleting, fetch, modalVars>>
       PROVE  ListInv'
  <2>1. CASE u # Me
    <3>1. removal'[Me] = removal[Me]
      BY <1>1, <1>17, <2>1
         DEF RemovalStep, DeleteMembership, CountRemaining, DropLeague, CutRemoval, Continue,
             MembershipTypeOK
    <3>2. QED
      BY <1>17, <3>1, OtherSteps DEF Unfetched, modalVars
  <2>2. CASE u = Me
    <3>1. deleting = None /\ (~behind' => ~behind /\ UserLeagues(Me)' = UserLeagues(Me))
      BY <1>17, <2>2 DEF Awaited, MayFallBehind
    <3>2. QED
      BY <1>17, <3>1 DEF ListInv, RemovalIsAwaited, ListFollows, Removed, Unfetched, modalVars
  <2>3. QED
    BY <2>1, <2>2
<1>18. ASSUME RemovalStep(Me), Awaited(Me), removal'[Me] # Idle, MayFallBehind(FALSE),
              UNCHANGED <<listed, loading, failed, deleting, fetch, modalVars>>
       PROVE  ListInv'
  <2>1. deleting # None /\ behind' = behind /\ removal[Me].row = deleting
    BY <1>18 DEF Awaited, MayFallBehind, ListInv, RemovalIsAwaited, TypeOK
  <2>2. Unfetched' = Unfetched
    BY <1>18 DEF Unfetched, modalVars
  <2>3. removal'[Me].row = deleting /\ removal'[Me].step # "none"
    BY <1>1, <1>18, <2>1, OwnRemoval, RemovalStepType DEF MembershipTypeOK, Removal, Idle
  <2>4. QED
    BY <1>1, <1>18, <2>1, <2>2, <2>3, OwnRemoval
       DEF ListInv, RemovalIsAwaited, ListFollows, Removed
<1>19. CASE Gateway
  <2>1. PICK u \in Users :
          /\ RemovalStep(u)
          /\ removal'[u] = Idle => ~Awaited(u)
          /\ MayFallBehind(~Awaited(u))
          /\ UNCHANGED <<listed, loading, failed, deleting, fetch, modalVars>>
    BY <1>19 DEF Gateway
  <2>2. CASE ~Awaited(u)
    BY <1>17, <2>1, <2>2 DEF MayFallBehind
  <2>3. CASE Awaited(u)
    BY <1>18, <2>1, <2>3 DEF Awaited, MayFallBehind
  <2>4. QED
    BY <2>2, <2>3
<1>20. CASE Elsewhere
  <2>1. CASE removal'[Me] = removal[Me]
    BY <1>20, <2>1, OtherSteps DEF Elsewhere, Unfetched, modalVars
  <2>2. CASE ~Awaited(Me)
    <3>1. deleting' = None /\ (~behind' => ~behind /\ UserLeagues(Me)' = UserLeagues(Me))
      BY <1>20, <2>2 DEF Elsewhere, Awaited, MayFallBehind
    <3>2. QED
      BY <1>20, <2>2, <3>1
         DEF Elsewhere, Awaited, ListInv, RemovalIsAwaited, ListFollows, Removed, Unfetched, modalVars
  <2>3. QED
    BY <1>1, <1>20, <2>1, <2>2
       DEF Elsewhere, LinkPlatformProfile, ImportLeague, StartRemoval, MembershipTypeOK
<1>21. CASE UNCHANGED pageVars
  BY <1>9, <1>21 DEF pageVars, modalVars
<1>22. QED
  BY <1>2, <1>3, <1>4, <1>5, <1>6, <1>7, <1>10, <1>11, <1>12, <1>13, <1>14, <1>15, <1>16,
     <1>19, <1>20, <1>21 DEF Next

\* A page that waits for nothing lists what the server has, whatever its own imports
\* and removals were overtaken by, unless it is behind.
THEOREM ListCatchesUp == Spec => []ListIsCurrent
<1> DEFINE Inv == ModalInv /\ ListInv
<1>1. Init => Inv
  <2>1. Init => deleting = None /\ \E f \in Fetches : fetch[f] # NoFetch
    BY DEF Init, FirstFetch, NoFetch
  <2>2. QED
    BY <2>1, ModalInit DEF ListInv, RemovalIsAwaited, ListFollows, Removed, Unfetched
<1>2. Inv /\ [Next]_pageVars => Inv'
  BY ModalStep, ListStep DEF ModalInv
<1>3. Inv => ListIsCurrent
  BY DEF ListIsCurrent, ListInv, ListFollows, Unfetched
<1>4. QED
  BY <1>1, <1>2, <1>3, PTL DEF Spec
=============================================================================
