---------------------------- MODULE WalletSession ----------------------------
(***************************************************************************)
(* The wallet connection and the sign-in of one browser page:              *)
(* WalletProvider.tsx with the buttons of ConnectWallet.tsx, connect,      *)
(* disconnect and signMessage of HederaStrategy.ts, and the handlers of    *)
(* internal/auth behind them.  Every await is a step of its own, so an     *)
(* answer may find a page that is no longer the one that asked.            *)
(***************************************************************************)
EXTENDS FiniteSets

CONSTANTS Accounts,  \* Hedera accounts, and the users that sign in with them
          Attempts,  \* bound: the calls of connect() in the life of one page
          Presses,   \* bound: the calls of disconnect() under way at a time
          None

ASSUME NoneAssumption == None \notin Accounts \cup Attempts

VARIABLES
  token,        \* wagr_token, in the state and in localStorage: whose it is
  user,         \* the signed-in user; isAuthenticated = !!user
  isConnected,
  wallet,       \* the account in walletState; activeStrategy is set with it
  restoring,    \* whose token fetchCurrentUser is asking about
  pc,           \* the await that connect() or authenticate() is in
  account,      \* the account that call works for
  attempt,      \* the connector that connect() waits for
  promise,      \* its connectionPromise: "pending", "rejected" or an account
  timer,        \* connectionTimeout is armed
  connector,    \* the strategy's connector: the attempt that made it
  opened,       \* the connectors made so far; each has its session listener
  polling,      \* those whose poll interval still runs
  session,      \* the account of a connector's first signer
  leaving,      \* the connector a disconnect() under way waits for
  late          \* history: an answer was applied to a page that had moved on

pageVars == <<token, user, isConnected, wallet, restoring, late>>
flowVars == <<pc, account, attempt, promise>>
strategyVars == <<timer, connector, opened, polling, session, leaving>>
walletVars == <<pageVars, flowVars, strategyVars>>

Connecting == {"open", "wait", "key"}
Authenticating == {"nonce", "sign", "verify"}

isConnecting == pc \in Connecting

MaybeAccount == Accounts \cup {None}
MaybeAttempt == Attempts \cup {None}

TypeOK ==
  /\ {token, user, wallet, restoring, account} \subseteq MaybeAccount
  /\ isConnected \in BOOLEAN /\ timer \in BOOLEAN /\ late \in BOOLEAN
  /\ pc \in {"idle"} \cup Connecting \cup Authenticating
  /\ {attempt, connector} \subseteq MaybeAttempt
  /\ promise \in {"pending", "rejected"} \cup Accounts
  /\ opened \subseteq Attempts /\ polling \subseteq opened
  /\ session \in [Attempts -> MaybeAccount]
  /\ leaving \in [Presses -> MaybeAttempt]

Init ==
  /\ token \in MaybeAccount /\ restoring = token
  /\ user = None /\ wallet = None /\ isConnected = FALSE /\ late = FALSE
  /\ pc = "idle" /\ account = None /\ attempt = None /\ promise = "rejected"
  /\ timer = FALSE /\ connector = None /\ opened = {} /\ polling = {}
  /\ session = [c \in Attempts |-> None] /\ leaving = [p \in Presses |-> None]

\* The page is loaded again; localStorage keeps the token.
Reload ==
  /\ UNCHANGED token /\ restoring' = token
  /\ user' = None /\ wallet' = None /\ isConnected' = FALSE /\ late' = FALSE
  /\ pc' = "idle" /\ account' = None /\ attempt' = None /\ promise' = "rejected"
  /\ timer' = FALSE /\ connector' = None /\ opened' = {} /\ polling' = {}
  /\ session' = [c \in Attempts |-> None] /\ leaving' = [p \in Presses |-> None]

-----------------------------------------------------------------------------
(* Restoring the session: fetchCurrentUser on mount, GET /api/auth/me.      *)

\* The page is no longer the one that asked about its token.
MovedOn == pc # "idle" \/ user # None \/ wallet # None \/ token # restoring

\* "ok": the user of the token.  Any other answer, and none at all, clears the
\* token that is there by then.
MeAnswers(outcome) ==
  /\ restoring # None
  /\ IF outcome = "ok"
     THEN user' = restoring /\ isConnected' = TRUE /\ UNCHANGED token
     ELSE token' = None /\ UNCHANGED <<user, isConnected>>
  /\ late' = (late \/ MovedOn)
  /\ restoring' = None
  /\ UNCHANGED <<wallet, flowVars, strategyVars>>

-----------------------------------------------------------------------------
(* connect(): the promise, its timeout, its poll and its listener.          *)

\* "Connect Wallet"; the button waits for a connect or a sign-in under way.
ConnectOffered == ~isConnected /\ pc = "idle"

PressConnect(c) ==
  /\ ConnectOffered /\ c \notin opened
  /\ pc' = "open" /\ attempt' = c /\ promise' = "pending"
  /\ timer' = TRUE /\ connector' = c
  /\ opened' = opened \cup {c} /\ polling' = polling \cup {c}
  /\ UNCHANGED <<pageVars, account, session, leaving>>

Resolves(c, outcome) ==
  promise' = IF c = attempt /\ promise = "pending" THEN outcome ELSE promise

\* The 90 seconds are over.
TimeoutFires ==
  /\ timer
  /\ timer' = FALSE
  /\ polling' = polling \ {attempt}
  /\ Resolves(attempt, "rejected")
  /\ UNCHANGED <<pageVars, pc, account, attempt, connector, opened, session, leaving>>

\* Mutant: the poll takes whatever signers[0] says.
PollUnchecked(c) ==
  /\ c \in polling /\ connector # None
  /\ timer' = FALSE /\ polling' = polling \ {c}
  /\ Resolves(c, session[connector])
  /\ UNCHANGED <<pageVars, pc, account, attempt, connector, opened, session, leaving>>

\* The poll of attempt c looks at the strategy's connector, whoever made it, and
\* clears the timeout, whoever armed it.
PollSees(c) ==
  /\ c \in polling
  /\ connector # None /\ session[connector] # None
  /\ timer' = FALSE /\ polling' = polling \ {c}
  /\ Resolves(c, session[connector])
  /\ UNCHANGED <<pageVars, pc, account, attempt, connector, opened, session, leaving>>

\* The wallet approves a session on connector c, or an earlier one is found by its
\* init.  The interface leaves open whether the listener given to
\* onSessionConnected is ever called; if it is, it is never removed.
SessionStarts(c, a) ==
  /\ c \in opened /\ session[c] = None
  /\ session' = [session EXCEPT ![c] = a]
  /\ \/ UNCHANGED <<timer, polling, promise>>
     \/ timer' = FALSE /\ polling' = polling \ {c} /\ Resolves(c, a)
  /\ UNCHANGED <<pageVars, pc, account, attempt, connector, opened, leaving>>

SessionEnds(c) ==
  /\ session[c] # None
  /\ session' = [session EXCEPT ![c] = None]
  /\ UNCHANGED <<pageVars, flowVars, timer, connector, opened, polling, leaving>>

\* The catch and finally blocks: the timeout is cleared, the poll is not.
ConnectFails ==
  /\ pc' = "idle" /\ attempt' = None /\ timer' = FALSE
  /\ UNCHANGED <<pageVars, account, promise, connector, opened, polling, session, leaving>>

\* init and openModal, which the timeout does not interrupt.
Open(outcome) ==
  /\ pc = "open"
  /\ \/ outcome = "ok" /\ pc' = "wait"
        /\ UNCHANGED <<pageVars, account, attempt, promise, strategyVars>>
     \/ outcome = "error" /\ ConnectFails

\* Mutant: a rejected promise leaves isConnecting set.
AwaitWithoutFinally ==
  /\ pc = "wait" /\ promise \in Accounts
  /\ pc' = "key" /\ account' = promise
  /\ UNCHANGED <<pageVars, attempt, promise, strategyVars>>

\* await connectionPromise.
Await ==
  /\ pc = "wait"
  /\ \/ promise = "rejected" /\ ConnectFails
     \/ /\ promise \in Accounts
        /\ pc' = "key" /\ account' = promise
        /\ UNCHANGED <<pageVars, attempt, promise, strategyVars>>

\* connect() has its wallet and goes on to authenticateWith.
AdoptWallet ==
  /\ wallet' = account /\ isConnected' = TRUE
  /\ pc' = "nonce" /\ attempt' = None
  /\ UNCHANGED <<token, user, restoring, late, account, promise, strategyVars>>

\* fetchPublicKeyFromMirrorNode.
FetchKey(outcome) ==
  /\ pc = "key"
  /\ \/ outcome = "error" /\ ConnectFails
     \/ outcome = "ok" /\ AdoptWallet

-----------------------------------------------------------------------------
(* authenticateWith(): nonce, signature, verification.                      *)

\* Somebody is connected and not signed in: "Retry Sign In".
RetryOffered == isConnected /\ user = None

\* Mutant: the button is there for a user who was signed in before.
RetryOfKnownUser ==
  /\ RetryOffered /\ pc = "idle" /\ wallet # None /\ token # None
  /\ pc' = "nonce" /\ account' = wallet
  /\ UNCHANGED <<pageVars, attempt, promise, strategyVars>>

\* authenticate() throws without a wallet.
PressRetry ==
  /\ RetryOffered /\ pc = "idle" /\ wallet # None
  /\ pc' = "nonce" /\ account' = wallet
  /\ UNCHANGED <<pageVars, attempt, promise, strategyVars>>

\* The step goes on, or throws and leaves the page as it is.
SignInStep(from, outcome, to) ==
  /\ pc = from
  /\ pc' = IF outcome = "ok" THEN to ELSE "idle"
  /\ UNCHANGED <<pageVars, account, attempt, promise, strategyVars>>

GetNonce(outcome) == SignInStep("nonce", outcome, "sign")

\* A wallet signs for the account of its session only.
Sign(outcome) ==
  /\ outcome = "ok" => connector # None /\ session[connector] = account
  /\ SignInStep("sign", outcome, "verify")

\* VerifySignature's token and user, applied to the page as it is by now.
Verify(outcome) ==
  /\ pc = "verify"
  /\ pc' = "idle"
  /\ \/ outcome = "error" /\ UNCHANGED <<token, user, late>>
     \/ /\ outcome = "ok"
        /\ token' = account /\ user' = account
        /\ late' = (late \/ wallet # account)
  /\ UNCHANGED <<isConnected, wallet, restoring, account, attempt, promise, strategyVars>>

-----------------------------------------------------------------------------
(* disconnect(): the strategy's, then the page's.                           *)

\* Mutant: the user stays.
ClearButUser ==
  /\ token' = None /\ wallet' = None /\ isConnected' = FALSE /\ late' = FALSE
  /\ UNCHANGED user

Clear ==
  /\ token' = None /\ user' = None /\ wallet' = None
  /\ isConnected' = FALSE /\ late' = FALSE

\* Without a wallet or a connector there is nothing to wait for.
PressDisconnect(p) ==
  /\ isConnected /\ leaving[p] = None
  /\ IF wallet # None /\ connector # None
     THEN /\ leaving' = [leaving EXCEPT ![p] = connector]
          /\ UNCHANGED <<token, user, wallet, isConnected, late>>
     ELSE Clear /\ UNCHANGED leaving
  /\ UNCHANGED <<restoring, flowVars, timer, connector, opened, polling, session>>

\* Mutant: an error of the connector ends disconnect() before the page is cleared.
DisconnectUncaught(p) ==
  /\ leaving[p] # None
  /\ leaving' = [leaving EXCEPT ![p] = None]
  /\ connector' = None /\ timer' = FALSE
  /\ UNCHANGED <<pageVars, flowVars, opened, polling, session>>

\* The connector has answered: the strategy drops whatever connector and timeout
\* it has by now.  An error is logged, and the session may live on.
DisconnectEnds(p) ==
  /\ leaving[p] # None
  /\ leaving' = [leaving EXCEPT ![p] = None]
  /\ connector' = None /\ timer' = FALSE
  /\ \/ session' = [session EXCEPT ![leaving[p]] = None]
     \/ UNCHANGED session
  /\ Clear
  /\ UNCHANGED <<restoring, flowVars, opened, polling>>

-----------------------------------------------------------------------------
FlowStep ==
  \/ Await
  \/ \E outcome \in {"ok", "error"} :
       Open(outcome) \/ FetchKey(outcome) \/ GetNonce(outcome) \/ Sign(outcome) \/ Verify(outcome)

Next ==
  \/ Reload \/ TimeoutFires \/ PressRetry \/ FlowStep
  \/ \E outcome \in {"ok", "error"} : MeAnswers(outcome)
  \/ \E c \in Attempts : PressConnect(c) \/ PollSees(c) \/ SessionEnds(c)
  \/ \E c \in Attempts, a \in Accounts : SessionStarts(c, a)
  \/ \E p \in Presses : PressDisconnect(p) \/ DisconnectEnds(p)

Spec == Init /\ [][Next]_walletVars

-----------------------------------------------------------------------------
(* Safety.                                                                  *)

\* Whoever is signed in holds a token of their own and has their own wallet
\* connected, unless an answer came to a page that had moved on: a restored
\* session that answers during or after a new connect, or a verification that
\* answers after a disconnect.  No other interleaving mixes two accounts.
OneIdentity ==
  ~late /\ user # None => token = user /\ wallet \in {user, None}

\* As long as the page offers "Retry Sign In" there is a wallet to sign in with
\* and a connector to sign on, whatever failed before ("wallet stays connected
\* for retry").  One disconnect() at a time; two are a hazard.
RetryIsPossible ==
  RetryOffered => wallet # None /\ connector # None

-----------------------------------------------------------------------------
(* Liveness.  Timers fire, awaited calls answer, a user who can retry does,  *)
(* and what is retried for ever does not fail for ever.                      *)

Fairness ==
  /\ WF_walletVars(TimeoutFires) /\ WF_walletVars(FlowStep) /\ WF_walletVars(PressRetry)
  /\ \A c \in Attempts : WF_walletVars(PollSees(c))
  /\ \A p \in Presses : WF_walletVars(DisconnectEnds(p))
  /\ SF_walletVars(GetNonce("ok")) /\ SF_walletVars(Sign("ok")) /\ SF_walletVars(Verify("ok"))

LiveSpec == Spec /\ Fairness

\* The timeout of a connect() that still waits was cleared by somebody else: the
\* listener of an earlier attempt, or a poll whose session was gone again.
Robbed == promise = "pending" /\ ~timer

\* connect() does not keep its button disabled for ever, whatever the wallet does,
\* unless its timeout was taken from it.
ConnectEnds == []<>~(isConnecting /\ ~Robbed)

\* A wallet that stays connected gets its user signed in, however often nonce,
\* signature or verification fail before.
SignInCompletes ==
  []<>~(/\ isConnected /\ user = None
        /\ connector # None /\ session[connector] = wallet)
=============================================================================
