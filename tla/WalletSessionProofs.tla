-------------------------- MODULE WalletSessionProofs --------------------------
(***************************************************************************)
(* Proofs about WalletSession, for any accounts and any number of          *)
(* attempts and button presses.                                            *)
(***************************************************************************)
EXTENDS WalletSession, TLAPS

\* A user who is signed in on a page that did not move on sits on a connected and
\* idle page: nothing is under way that could put another account beside theirs.
UserIsSettled ==
  ~late /\ user # None => isConnected /\ pc = "idle"

\* A wallet is only there on a connected page.
WalletIsConnected == wallet # None => isConnected

WInv == TypeOK /\ OneIdentity /\ UserIsSettled /\ WalletIsConnected

LEMMA WInit == Init => WInv
BY NoneAssumption DEF Init, WInv, TypeOK, OneIdentity, UserIsSettled, WalletIsConnected,
                      MaybeAccount, MaybeAttempt

LEMMA WStep == WInv /\ [Next]_walletVars => WInv'
<1> SUFFICES ASSUME WInv, [Next]_walletVars PROVE WInv'
  OBVIOUS
<1> USE NoneAssumption DEF WInv, TypeOK, OneIdentity, UserIsSettled, WalletIsConnected,
                           MaybeAccount, MaybeAttempt, Connecting, Authenticating,
                           ConnectOffered, RetryOffered, AdoptWallet
<1>1. CASE Reload
  BY <1>1 DEF Reload
<1>2. CASE TimeoutFires
  BY <1>2 DEF TimeoutFires, Resolves, pageVars
<1>3. CASE PressRetry
  BY <1>3 DEF PressRetry, pageVars, strategyVars
<1>4. CASE Await
  BY <1>4 DEF Await, ConnectFails, pageVars, strategyVars
<1>5. ASSUME NEW outcome \in {"ok", "error"}, Open(outcome) PROVE WInv'
  BY <1>5 DEF Open, ConnectFails, pageVars, strategyVars
<1>6. ASSUME NEW outcome \in {"ok", "error"}, FetchKey(outcome) PROVE WInv'
  BY <1>6 DEF FetchKey, ConnectFails, pageVars, strategyVars
<1>7. ASSUME NEW outcome \in {"ok", "error"}, GetNonce(outcome) PROVE WInv'
  BY <1>7 DEF GetNonce, SignInStep, pageVars, strategyVars
<1>8. ASSUME NEW outcome \in {"ok", "error"}, Sign(outcome) PROVE WInv'
  BY <1>8 DEF Sign, SignInStep, pageVars, strategyVars
<1>9. ASSUME NEW outcome \in {"ok", "error"}, Verify(outcome) PROVE WInv'
  BY <1>9 DEF Verify, strategyVars
<1>10. ASSUME NEW outcome \in {"ok", "error"}, MeAnswers(outcome) PROVE WInv'
  BY <1>10 DEF MeAnswers, MovedOn, flowVars, strategyVars
<1>11. ASSUME NEW c \in Attempts, PressConnect(c) PROVE WInv'
  BY <1>11 DEF PressConnect, pageVars
<1>12. ASSUME NEW c \in Attempts, PollSees(c) PROVE WInv'
  BY <1>12 DEF PollSees, Resolves, pageVars
<1>13. ASSUME NEW c \in Attempts, SessionEnds(c) PROVE WInv'
  BY <1>13 DEF SessionEnds, pageVars, flowVars
<1>14. ASSUME NEW c \in Attempts, NEW a \in Accounts, SessionStarts(c, a) PROVE WInv'
  BY <1>14 DEF SessionStarts, Resolves, pageVars
<1>15. ASSUME NEW p \in Presses, PressDisconnect(p) PROVE WInv'
  BY <1>15 DEF PressDisconnect, Clear, flowVars
<1>16. ASSUME NEW p \in Presses, DisconnectEnds(p) PROVE WInv'
  BY <1>16 DEF DisconnectEnds, Clear, flowVars
<1>17. CASE UNCHANGED walletVars
  BY <1>17 DEF walletVars, pageVars, flowVars, strategyVars
<1>18. QED
  BY <1>1, <1>2, <1>3, <1>4, <1>5, <1>6, <1>7, <1>8, <1>9, <1>10, <1>11, <1>12, <1>13,
     <1>14, <1>15, <1>16, <1>17 DEF Next, FlowStep

\* Every state is of its type: whatever interleaving of timers, polls, listeners
\* and buttons of the wallet page.
THEOREM TypeCorrect == Spec => []TypeOK
<1>1. WInv => TypeOK
  BY DEF WInv
<1>2. QED
  BY <1>1, WInit, WStep, PTL DEF Spec

\* User, token and wallet belong to one account on a page on which no answer was
\* applied that it no longer waited for.
THEOREM IdentitiesDoNotMix == Spec => []OneIdentity
<1>1. WInv => OneIdentity
  BY DEF WInv
<1>2. QED
  BY <1>1, WInit, WStep, PTL DEF Spec

-----------------------------------------------------------------------------
(* The retry, with one disconnect() at a time.                              *)

OneAtATime == \A p, q \in Presses : p = q

\* connect() owns the connector until it has set the wallet, and the wallet keeps
\* it; a disconnect() under way is one of the wallet that is still there.
ConnectorIsHeld ==
  /\ pc \in Connecting => connector # None /\ wallet = None
  /\ wallet # None => connector # None /\ isConnected
  /\ \A p \in Presses : leaving[p] # None => wallet # None

\* From the answer of the wallet on, the flow works for a real account.
AccountIsKnown == pc \in {"key"} \cup Authenticating => account # None

RInv == RetryIsPossible /\ ConnectorIsHeld /\ AccountIsKnown

LEMMA RStep ==
  ASSUME OneAtATime, TypeOK, RInv, [Next]_walletVars
  PROVE  RInv'
<1> USE NoneAssumption DEF OneAtATime, RInv, TypeOK, RetryIsPossible, ConnectorIsHeld,
                           AccountIsKnown, MaybeAccount, MaybeAttempt, Connecting, Authenticating,
                           ConnectOffered, RetryOffered, AdoptWallet
<1>1. CASE Reload
  BY <1>1 DEF Reload
<1>2. CASE TimeoutFires
  BY <1>2 DEF TimeoutFires, Resolves, pageVars
<1>3. CASE PressRetry
  BY <1>3 DEF PressRetry, pageVars, strategyVars
<1>4. CASE Await
  BY <1>4 DEF Await, ConnectFails, pageVars, strategyVars
<1>5. ASSUME NEW outcome \in {"ok", "error"}, Open(outcome) PROVE RInv'
  BY <1>5 DEF Open, ConnectFails, pageVars, strategyVars
<1>6. ASSUME NEW outcome \in {"ok", "error"}, FetchKey(outcome) PROVE RInv'
  BY <1>6 DEF FetchKey, ConnectFails, pageVars, strategyVars
<1>7. ASSUME NEW outcome \in {"ok", "error"}, GetNonce(outcome) PROVE RInv'
  BY <1>7 DEF GetNonce, SignInStep, pageVars, strategyVars
<1>8. ASSUME NEW outcome \in {"ok", "error"}, Sign(outcome) PROVE RInv'
  BY <1>8 DEF Sign, SignInStep, pageVars, strategyVars
<1>9. ASSUME NEW outcome \in {"ok", "error"}, Verify(outcome) PROVE RInv'
  BY <1>9 DEF Verify, strategyVars
<1>10. ASSUME NEW outcome \in {"ok", "error"}, MeAnswers(outcome) PROVE RInv'
  BY <1>10 DEF MeAnswers, MovedOn, flowVars, strategyVars
<1>11. ASSUME NEW c \in Attempts, PressConnect(c) PROVE RInv'
  BY <1>11 DEF PressConnect, pageVars
<1>12. ASSUME NEW c \in Attempts, PollSees(c) PROVE RInv'
  BY <1>12 DEF PollSees, Resolves, pageVars
<1>13. ASSUME NEW c \in Attempts, SessionEnds(c) PROVE RInv'
  BY <1>13 DEF SessionEnds, pageVars, flowVars
<1>14. ASSUME NEW c \in Attempts, NEW a \in Accounts, SessionStarts(c, a) PROVE RInv'
  BY <1>14 DEF SessionStarts, Resolves, pageVars
<1>15. ASSUME NEW p \in Presses, PressDisconnect(p) PROVE RInv'
  BY <1>15 DEF PressDisconnect, Clear, flowVars
<1>16. ASSUME NEW p \in Presses, DisconnectEnds(p) PROVE RInv'
  BY <1>16 DEF DisconnectEnds, Clear, flowVars
<1>17. CASE UNCHANGED walletVars
  BY <1>17 DEF walletVars, pageVars, flowVars, strategyVars
<1>18. QED
  BY <1>1, <1>2, <1>3, <1>4, <1>5, <1>6, <1>7, <1>8, <1>9, <1>10, <1>11, <1>12, <1>13,
     <1>14, <1>15, <1>16, <1>17 DEF Next, FlowStep

\* RetryIsPossible, for calls of disconnect() that do not overlap: the page never
\* offers a retry without a wallet and a connector to sign with.
THEOREM RetryKeepsItsWallet == OneAtATime => (Spec => []RetryIsPossible)
<1> SUFFICES ASSUME OneAtATime PROVE Spec => []RetryIsPossible
  OBVIOUS
<1>1. Init => RInv
  BY NoneAssumption DEF Init, RInv, RetryIsPossible, ConnectorIsHeld, AccountIsKnown,
                        RetryOffered, MaybeAccount, MaybeAttempt, Connecting, Authenticating
<1>2. TypeOK /\ RInv /\ [Next]_walletVars => RInv'
  BY RStep
<1>3. RInv => RetryIsPossible
  BY DEF RInv
<1>4. QED
  BY <1>1, <1>2, <1>3, TypeCorrect, PTL DEF Spec
=============================================================================
