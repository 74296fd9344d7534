------------------------- MODULE WeeklyPayoutProofs -------------------------
(***************************************************************************)
(* What holds of WeeklyPayout for every set of runs, rosters and weeks.    *)
(***************************************************************************)
EXTENDS WeeklyPayout, FiniteSetTheorems, TLAPS

\* Events are finitely many, so that what a batch costs is a natural number.
LEMMA EventsAreFinite == IsFiniteSet(Event)
<1> DEFINE Triple == (Weeks \X Rosters) \X Bonuses
           asEvent == [x \in Triple |-> [week |-> x[1][1], roster |-> x[1][2], bonus |-> x[2]]]
<1>1. IsFiniteSet(Weeks)
  BY FS_Interval, LastWeekAssumption DEF Weeks
<1>2. IsFiniteSet(Bonuses)
  <2>1. IsFiniteSet({"weekly_high_score"})
    BY FS_Singleton
  <2>2. IsFiniteSet({"weekly_high_score"} \cup {"score_threshold"})
    BY <2>1, FS_AddElement
  <2>3. Bonuses \in SUBSET ({"weekly_high_score"} \cup {"score_threshold"})
    BY BonusAssumption
  <2> QED
    BY <2>2, <2>3, FS_Subset
<1>3. IsFiniteSet(Weeks \X Rosters)
  BY <1>1, RostersAssumption, FS_Product
<1>4. IsFiniteSet(Triple)
  BY <1>2, <1>3, FS_Product
<1>5. asEvent \in Surjection(Triple, Event)
  <2>1. asEvent \in [Triple -> Event]
    BY DEF Event
  <2>2. ASSUME NEW e \in Event PROVE \E x \in Triple : asEvent[x] = e
    <3>1. <<<<e.week, e.roster>>, e.bonus>> \in Triple
      BY DEF Event
    <3>2. asEvent[<<<<e.week, e.roster>>, e.bonus>>] = e
      BY <3>1 DEF Event
    <3> QED
      BY <3>1, <3>2
  <2> QED
    BY <2>1, <2>2 DEF Surjection
<1> QED
  BY <1>4, <1>5, FS_Surjection

\* What a batch of events costs.
LEMMA BatchCost == ASSUME NEW S \in SUBSET Event PROVE Cardinality(S) \in Nat
BY EventsAreFinite, FS_Subset, FS_CardinalityType

-----------------------------------------------------------------------------
\* Type correctness (TypeOK): the escrow never goes below zero, and a mark is
\* only ever put on an event that is on record.
THEOREM TypeCorrect == Spec => []TypeOK
<1>1. Init => TypeOK
  BY LastWeekAssumption DEF Init, TypeOK, Weeks, Step
<1>2. TypeOK /\ [Next]_weeklyVars => TypeOK'
  <2> SUFFICES ASSUME TypeOK, [Next]_weeklyVars PROVE TypeOK'
    OBVIOUS
  <2> USE DEF TypeOK, Step, Goto, SetBatch, EndRun, leagueVars, eventVars, chainVars, runVars
  <2>1. ASSUME NEW r \in Runs, StartRun(r) PROVE TypeOK'
    BY <2>1, LastWeekAssumption DEF StartRun, Weeks
  <2>2. ASSUME NEW r \in Runs, NEW outcome, FetchMatchups(r, outcome) PROVE TypeOK'
    BY <2>2 DEF FetchMatchups
  <2>3. ASSUME NEW r \in Runs, NEW done, InsertEvents(r, done) PROVE TypeOK'
    BY <2>3 DEF InsertEvents
  <2>4. ASSUME NEW r \in Runs, NEW found, LoadEvents(r, found) PROVE TypeOK'
    BY <2>4 DEF LoadEvents, Unexecuted
  <2>5. ASSUME NEW r \in Runs, NEW outcome, ReadEscrow(r, outcome) \/ GetReceipt(r, outcome)
        PROVE TypeOK'
    BY <2>5 DEF ReadEscrow, GetReceipt
  <2>6. ASSUME NEW r \in Runs, Submit(r) \/ Crash(r) PROVE TypeOK'
    BY <2>6 DEF Submit, Crash
  <2>7. ASSUME NEW r \in Runs, NEW done, MarkEvents(r, done) PROVE TypeOK'
    BY <2>7 DEF MarkEvents
  <2>8. ASSUME NEW r \in Runs, Land(r) PROVE TypeOK'
    <3>1. Cardinality(batch[r]) \in Nat
      BY BatchCost
    <3>2. escrow' \in Nat
      BY <2>8, <3>1 DEF Land
    <3>3. paid' \in [Event -> Nat]
      BY <2>8 DEF Land
    <3>4. tx' \in [Runs -> {"none", "sent", "success", "dead"}]
      BY <2>8 DEF Land
    <3> QED
      BY <2>8, <3>2, <3>3, <3>4 DEF Land
  <2>9. CASE WeekAdvances
    BY <2>9, LastWeekAssumption DEF WeekAdvances
  <2>10. CASE PayEntryFee
    BY <2>10 DEF PayEntryFee
  <2>11. CASE LeagueChanges \/ DeleteLeague
    BY <2>11 DEF LeagueChanges, DeleteLeague
  <2>12. CASE UNCHANGED weeklyVars
    BY <2>12 DEF weeklyVars
  <2> QED
    BY <2>1, <2>2, <2>3, <2>4, <2>5, <2>6, <2>7, <2>8, <2>9, <2>10, <2>11, <2>12
    DEF Next, RunStep
<1> QED
  BY <1>1, <1>2, PTL DEF Spec

-----------------------------------------------------------------------------
(* The inductive invariant.  EventsMatchChain does not say what a            *)
(* transaction under way will pay; these parts do.                           *)

\* What a run is about to pay, or has sent, is on record.
BatchOnRecord ==
  \A r \in Runs :
    (present /\ (pc[r] \in {"escrowBalance", "distribute", "receipt", "mark"} \/ tx[r] = "sent"))
      => batch[r] \subseteq recorded

\* A run has no transaction of its own before it submits one.
NoneUntilSent ==
  \A r \in Runs :
    pc[r] \in {"matchups", "insert", "load", "escrowBalance", "distribute"} => tx[r] = "none"

\* A run marks only after it saw its transaction succeed.
ReceiptSeen == \A r \in Runs : pc[r] = "mark" => tx[r] = "success"

\* The batch of a successful transaction is paid.
SuccessPaid ==
  \A r \in Runs : (tx[r] = "success" /\ pc[r] \in {"receipt", "mark"})
                   => \A e \in batch[r] : paid[e] > 0

WInv == EventsMatchChain /\ BatchOnRecord /\ NoneUntilSent /\ ReceiptSeen /\ SuccessPaid

\* Every step of the specification keeps the books and the chain together.
LEMMA StepsKeepBooks ==
  ASSUME TypeOK, TypeOK', WInv, [Next]_weeklyVars
  PROVE  WInv'
<1> USE DEF WInv, EventsMatchChain, BatchOnRecord, NoneUntilSent, ReceiptSeen, SuccessPaid,
            TypeOK, Step, Goto, SetBatch, EndRun, leagueVars, eventVars, chainVars, runVars
<1>1. ASSUME NEW r \in Runs, StartRun(r) PROVE WInv'
  BY <1>1 DEF StartRun
<1>2. ASSUME NEW r \in Runs, NEW outcome, FetchMatchups(r, outcome) PROVE WInv'
  BY <1>2 DEF FetchMatchups
<1>3. ASSUME NEW r \in Runs, NEW done, InsertEvents(r, done) PROVE WInv'
  BY <1>3 DEF InsertEvents
<1>4. ASSUME NEW r \in Runs, NEW found, LoadEvents(r, found) PROVE WInv'
  BY <1>4 DEF LoadEvents, Unexecuted
<1>5. ASSUME NEW r \in Runs, NEW outcome, ReadEscrow(r, outcome) \/ GetReceipt(r, outcome)
      PROVE WInv'
  BY <1>5 DEF ReadEscrow, GetReceipt
<1>6. ASSUME NEW r \in Runs, Submit(r) \/ Crash(r) PROVE WInv'
  BY <1>6 DEF Submit, Crash
<1>7. ASSUME NEW r \in Runs, NEW done, MarkEvents(r, done) PROVE WInv'
  BY <1>7 DEF MarkEvents
<1>8. ASSUME NEW r \in Runs, Land(r) PROVE WInv'
  <2>1. \A e \in Event : paid'[e] >= paid[e]
    BY <1>8 DEF Land
  <2>2. tx'[r] = "success" => \A e \in batch[r] : paid'[e] > 0
    BY <1>8 DEF Land
  <2>3. \A e \in Event : paid'[e] > 0 => paid[e] > 0 \/ e \in batch[r]
    BY <1>8 DEF Land
  <2>4. /\ UNCHANGED <<present, recorded, executed, pc, batch>>
        /\ tx[r] = "sent"
        /\ \A s \in Runs : s # r => tx'[s] = tx[s]
    BY <1>8 DEF Land
  <2>5. tx'[r] \in {"success", "dead"}
    BY <1>8 DEF Land
  <2>6. EventsMatchChain'
    BY <2>1, <2>3, <2>4
  <2>7. BatchOnRecord' /\ NoneUntilSent' /\ ReceiptSeen'
    BY <2>4, <2>5
  <2>8. SuccessPaid'
    BY <2>1, <2>2, <2>4
  <2> QED
    BY <2>6, <2>7, <2>8
<1>9. CASE WeekAdvances
  BY <1>9 DEF WeekAdvances
<1>10. CASE PayEntryFee
  BY <1>10 DEF PayEntryFee
<1>11. CASE LeagueChanges
  BY <1>11 DEF LeagueChanges
<1>12. CASE DeleteLeague
  BY <1>12 DEF DeleteLeague
<1>13. CASE UNCHANGED weeklyVars
  BY <1>13 DEF weeklyVars
<1> QED
  BY <1>1, <1>2, <1>3, <1>4, <1>5, <1>6, <1>7, <1>8, <1>9, <1>10, <1>11, <1>12, <1>13
  DEF Next, RunStep

\* EventsMatchChain for any number of overlapping runs: a mark stands for a
\* payment, and a payment for an event on record.
THEOREM BooksAreHonest == Spec => []EventsMatchChain
<1>1. Init => WInv
  BY DEF Init, WInv, EventsMatchChain, BatchOnRecord, NoneUntilSent, ReceiptSeen, SuccessPaid
<1>2. TypeOK /\ TypeOK' /\ WInv /\ [Next]_weeklyVars => WInv'
  BY StepsKeepBooks
<1>3. WInv => EventsMatchChain
  BY DEF WInv
<1> QED
  BY <1>1, <1>2, <1>3, TypeCorrect, PTL DEF Spec

-----------------------------------------------------------------------------
(* Runs one after the other.                                                 *)

\* What is about to be paid has no mark yet.
FreshBatch ==
  \A r \in Runs : (pc[r] \in {"escrowBalance", "distribute"} \/ tx[r] = "sent")
                   => batch[r] \cap executed = {}

OneAtATime == \A r, s \in Runs : r = s

\* With runs one after the other no batch holds a marked event when it is paid.
LEMMA StepsKeepFresh ==
  ASSUME OneAtATime, TypeOK, WInv, FreshBatch, [Next]_weeklyVars
  PROVE  FreshBatch'
<1> USE DEF OneAtATime, WInv, NoneUntilSent, ReceiptSeen, FreshBatch,
            TypeOK, Step, Goto, SetBatch, EndRun, leagueVars, eventVars, chainVars, runVars
<1>1. ASSUME NEW r \in Runs, StartRun(r) PROVE FreshBatch'
  BY <1>1 DEF StartRun
<1>2. ASSUME NEW r \in Runs, NEW outcome, FetchMatchups(r, outcome) PROVE FreshBatch'
  BY <1>2 DEF FetchMatchups
<1>3. ASSUME NEW r \in Runs, NEW done, InsertEvents(r, done) PROVE FreshBatch'
  BY <1>3 DEF InsertEvents
<1>4. ASSUME NEW r \in Runs, NEW found, LoadEvents(r, found) PROVE FreshBatch'
  BY <1>4 DEF LoadEvents, Unexecuted
<1>5. ASSUME NEW r \in Runs, NEW outcome, ReadEscrow(r, outcome) \/ GetReceipt(r, outcome)
      PROVE FreshBatch'
  BY <1>5 DEF ReadEscrow, GetReceipt
<1>6. ASSUME NEW r \in Runs, Submit(r) \/ Crash(r) PROVE FreshBatch'
  BY <1>6 DEF Submit, Crash
<1>7. ASSUME NEW r \in Runs, NEW done, MarkEvents(r, done) PROVE FreshBatch'
  BY <1>7 DEF MarkEvents
<1>8. ASSUME NEW r \in Runs, Land(r) PROVE FreshBatch'
  BY <1>8 DEF Land
<1>9. CASE WeekAdvances \/ PayEntryFee \/ LeagueChanges \/ DeleteLeague
  BY <1>9 DEF WeekAdvances, PayEntryFee, LeagueChanges, DeleteLeague
<1>10. CASE UNCHANGED weeklyVars
  BY <1>10 DEF weeklyVars
<1> QED
  BY <1>1, <1>2, <1>3, <1>4, <1>5, <1>6, <1>7, <1>8, <1>9, <1>10 DEF Next, RunStep

\* MarkedIsNeverRepaid, for runs that do not overlap: an event that got its mark
\* is never paid again, whatever crashed in between.
THEOREM SerialRunsNeverRepay == OneAtATime => (Spec => MarkedIsNeverRepaid)
<1> SUFFICES ASSUME OneAtATime PROVE Spec => MarkedIsNeverRepaid
  OBVIOUS
<1>1. Init => WInv /\ FreshBatch
  BY DEF Init, WInv, EventsMatchChain, BatchOnRecord, NoneUntilSent, ReceiptSeen, SuccessPaid,
         FreshBatch
<1>2. TypeOK /\ TypeOK' /\ WInv /\ FreshBatch /\ [Next]_weeklyVars => WInv' /\ FreshBatch'
  BY StepsKeepBooks, StepsKeepFresh
<1>3. TypeOK /\ FreshBatch /\ [Next]_weeklyVars
        => [\A e \in executed : paid'[e] = paid[e]]_weeklyVars
  <2> SUFFICES ASSUME TypeOK, FreshBatch, Next PROVE \A e \in executed : paid'[e] = paid[e]
    OBVIOUS
  <2>1. ASSUME NEW r \in Runs, Land(r) PROVE \A e \in executed : paid'[e] = paid[e]
    <3>1. executed \subseteq Event /\ batch[r] \cap executed = {} /\ paid \in [Event -> Nat]
      BY <2>1 DEF Land, FreshBatch, TypeOK
    <3> QED
      BY <2>1, <3>1 DEF Land
  <2>2. CASE UNCHANGED paid
    BY <2>2
  <2> QED
    BY <2>1, <2>2 DEF Next, RunStep, StartRun, FetchMatchups, InsertEvents, LoadEvents,
      ReadEscrow, Submit, GetReceipt, MarkEvents, Crash, WeekAdvances, PayEntryFee,
      LeagueChanges, DeleteLeague, leagueVars, eventVars, chainVars, runVars
<1> QED
  BY <1>1, <1>2, <1>3, TypeCorrect, PTL DEF Spec, MarkedIsNeverRepaid
=============================================================================
