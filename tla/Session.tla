------------------------------- MODULE Session -------------------------------
(***************************************************************************)
(* The signed-in session of weft-loom-app-windows: tray processes, the     *)
(* `--sign-in` children they spawn, the dashboards they open, and the      *)
(* Windows Credential Manager entries through which the processes share a  *)
(* session token (tray.go, main.go, auth.go, keychain_windows.go).         *)
(*                                                                         *)
(* main() takes no single-instance lock, so any number of trays of one     *)
(* Windows account may run side by side, and a child outlives a tray that  *)
(* is killed under it.                                                     *)
(***************************************************************************)
EXTENDS Integers

CONSTANTS
    Trays,          \* tray processes
    Targets,        \* Credential Manager targets "<service>\<account>"
    NoAuth,         \* what a config without an Enabled() auth block names
    TargetOf,       \* the target of each tray's --config
    DefaultTarget,  \* the target of defaultConfigPath()
    NoToken,        \* no entry, and the empty in-memory token
    Lifetimes,      \* expires_in of the tokens an issuer mints; 0 is "omitted"
    Skew,           \* the margin Expired() allows for
    Faults,         \* operations that may fail: "config", "read", "delete"
    MaxNow,         \* bound on the clock
    MaxTokens       \* bound on the tokens minted

ASSUME SessionAssumption ==
    /\ NoAuth \notin Targets
    /\ TargetOf \in [Trays -> Targets \cup {NoAuth}]
    /\ DefaultTarget \in Targets \cup {NoAuth}
    /\ Lifetimes \subseteq Nat
    /\ Skew \in Nat
    /\ Faults \subseteq {"config", "read", "delete"}
    /\ MaxNow \in Nat
    /\ MaxTokens \in Nat

Token == [id : Nat, target : Targets, exp : Nat]

ASSUME NoTokenAssumption == NoToken \notin Token

VARIABLES
    now,        \* wall clock
    minted,     \* tokens minted so far; the next one gets the next id
    store,      \* Credential Manager: the token blob of each target
    phase,      \* where each tray's select loop is
    authOn,     \* authCfg.Enabled() as the tray loaded it
    authToken,  \* onReady's loop-local copy of the token
    mOpen,      \* "Open Dashboard" is enabled
    mSignIn,    \* "Sign in" is visible
    mSignOut,   \* "Sign out" is visible
    child,      \* the --sign-in process of each tray
    dashboards, \* running --dashboard processes and the token each was given
    signedOut   \* history: ids of the sessions a Sign out deleted

memory == <<authOn, authToken, mOpen, mSignIn, mSignOut>>
vars == <<now, minted, store, phase, memory, child, dashboards, signedOut>>

Maybe(S) == S \cup {NoToken}

Phases == {"off", "select", "signin"}

\* "start": before the cache check; "window": the login window is up; "stored":
\* a token was written; "calling": one was, and the UI thread is inside a bound
\* call that waits for a server; "ok" and "failed": exit code 0 or not.
Stages == {"none", "start", "window", "stored", "calling", "ok", "failed"}

TypeOK ==
    /\ now \in Nat
    /\ minted \in Nat
    /\ store \in [Targets -> Maybe(Token)]
    /\ phase \in [Trays -> Phases]
    /\ authOn \in [Trays -> BOOLEAN]
    /\ authToken \in [Trays -> Maybe(Token)]
    /\ mOpen \in [Trays -> BOOLEAN]
    /\ mSignIn \in [Trays -> BOOLEAN]
    /\ mSignOut \in [Trays -> BOOLEAN]
    /\ child \in [Trays -> Stages]
    /\ dashboards \subseteq [tray : Trays, token : Maybe(Token)]
    /\ signedOut \subseteq Nat

-----------------------------------------------------------------------------

(***************************************************************************)
(* Token.Expired with its 30-second skew; a zero ExpiresAt never expires.  *)
(***************************************************************************)
Expired(tok) == tok.exp # 0 /\ now + Skew > tok.exp

\* What the server decides, without the client's margin.
Lapsed(tok) == tok.exp # 0 /\ now > tok.exp

(***************************************************************************)
(* The test all three readers make of an entry: found, not Expired(), and  *)
(* a non-empty Bearer().  No flow stores a token without a bearer, so that *)
(* last conjunct is left out.                                              *)
(***************************************************************************)
Usable(entry) == entry # NoToken /\ ~Expired(entry)

\* Does the operation succeed this time?
Outcomes(op) == IF op \in Faults THEN BOOLEAN ELSE {TRUE}

\* What a guarded read of an entry yields; an error counts as a miss.
Read(target, readable) ==
    IF readable /\ Usable(store[target]) THEN store[target] ELSE NoToken

-----------------------------------------------------------------------------

Init ==
    /\ now = 0
    /\ minted = 0
    /\ store = [x \in Targets |-> NoToken]
    /\ phase = [t \in Trays |-> "off"]
    /\ authOn = [t \in Trays |-> FALSE]
    /\ authToken = [t \in Trays |-> NoToken]
    /\ mOpen = [t \in Trays |-> FALSE]
    /\ mSignIn = [t \in Trays |-> FALSE]
    /\ mSignOut = [t \in Trays |-> FALSE]
    /\ child = [t \in Trays |-> "none"]
    /\ dashboards = {}
    /\ signedOut = {}

\* onReady's menu for a tray that has loaded `on` and `tok`.
Begin(t, on, tok, open) ==
    /\ authOn' = [authOn EXCEPT ![t] = on]
    /\ authToken' = [authToken EXCEPT ![t] = tok]
    /\ mOpen' = [mOpen EXCEPT ![t] = open]
    /\ mSignIn' = [mSignIn EXCEPT ![t] = on /\ tok = NoToken]
    /\ mSignOut' = [mSignOut EXCEPT ![t] = on /\ tok # NoToken]
    /\ phase' = [phase EXCEPT ![t] = "select"]
    /\ UNCHANGED <<now, minted, store, child, dashboards, signedOut>>

\* What main() reads for a tray whose config did or did not load.
Cached(t, on, readable) ==
    IF on THEN Read(TargetOf[t], readable) ELSE NoToken

\* Mutant: Open Dashboard starts out enabled whatever the token.
BootUngated(t) ==
    /\ phase[t] = "off"
    /\ child[t] = "none"
    /\ LET on == TargetOf[t] # NoAuth IN Begin(t, on, Cached(t, on, TRUE), TRUE)

(***************************************************************************)
(* main() loads the auth config (a failure continues without auth), reads  *)
(* the cached token, and onReady builds the menu from the two.  A tray     *)
(* started beside the orphan of a killed one is another member of Trays.   *)
(***************************************************************************)
Boot(t) ==
    /\ phase[t] = "off"
    /\ child[t] = "none"
    /\ \E loaded \in Outcomes("config"), readable \in Outcomes("read") :
         LET on  == loaded /\ TargetOf[t] # NoAuth
             tok == Cached(t, on, readable)
         IN  Begin(t, on, tok, ~on \/ tok # NoToken)

\* openDashboard hands the live in-memory token to a new process, unchecked.
ClickOpen(t) ==
    /\ phase[t] = "select"
    /\ mOpen[t]
    /\ dashboards' = dashboards \cup {[tray |-> t, token |-> authToken[t]]}
    /\ UNCHANGED <<now, minted, store, phase, memory, child, signedOut>>

\* spawnSignInAndReload starts `exe --sign-in` and blocks the loop on it.
ClickSignIn(t) ==
    /\ phase[t] = "select"
    /\ mSignIn[t]
    /\ phase' = [phase EXCEPT ![t] = "signin"]
    /\ child' = [child EXCEPT ![t] = "start"]
    /\ UNCHANGED <<now, minted, store, memory, dashboards, signedOut>>

\* The handler is done with the child; tok, if any, becomes the session.
Resume(t, tok) ==
    /\ IF tok # NoToken
       THEN /\ authToken' = [authToken EXCEPT ![t] = tok]
            /\ mSignIn' = [mSignIn EXCEPT ![t] = FALSE]
            /\ mSignOut' = [mSignOut EXCEPT ![t] = TRUE]
            /\ mOpen' = [mOpen EXCEPT ![t] = TRUE]
       ELSE UNCHANGED <<authToken, mSignIn, mSignOut, mOpen>>
    /\ phase' = [phase EXCEPT ![t] = "select"]
    /\ child' = [child EXCEPT ![t] = "none"]
    /\ UNCHANGED <<now, minted, store, authOn, dashboards, signedOut>>

\* Mutant: the token is read back without looking at its expiry.
ReturnsUnchecked(t) ==
    /\ phase[t] = "signin"
    /\ child[t] \in {"ok", "failed"}
    /\ Resume(t, IF child[t] = "ok" THEN store[TargetOf[t]] ELSE NoToken)

\* Mutant: the child's entry is read back instead of the tray's.
ReturnsDefault(t) ==
    /\ phase[t] = "signin"
    /\ child[t] \in {"ok", "failed"}
    /\ Resume(t, IF child[t] = "ok" THEN Read(DefaultTarget, TRUE) ELSE NoToken)

\* Mutant: a failed child is waited for again instead of reported.
ReturnsOnlyOk(t) ==
    /\ phase[t] = "signin"
    /\ child[t] = "ok"
    /\ Resume(t, Read(TargetOf[t], TRUE))

\* Mutant: the child is started but not waited for.
ReturnsEarly(t) ==
    /\ phase[t] = "signin"
    /\ Resume(t, Read(TargetOf[t], TRUE))

(***************************************************************************)
(* cmd.Run has returned.  On exit code 0 the tray reads its own entry back *)
(* and, if that is usable, adopts it and flips the menu.                   *)
(***************************************************************************)
SignInReturns(t) ==
    /\ phase[t] = "signin"
    /\ child[t] \in {"ok", "failed"}
    /\ \E readable \in Outcomes("read") :
         Resume(t, IF child[t] = "ok" THEN Read(TargetOf[t], readable)
                                     ELSE NoToken)

\* The tray drops its token and turns the menu over.
SignedOutMenu(t) ==
    /\ authToken' = [authToken EXCEPT ![t] = NoToken]
    /\ mSignOut' = [mSignOut EXCEPT ![t] = FALSE]
    /\ mSignIn' = [mSignIn EXCEPT ![t] = TRUE]
    /\ UNCHANGED <<now, minted, phase, authOn, child, dashboards>>

\* The entry is gone, and the session with it.
Delete(t) ==
    /\ store' = [store EXCEPT ![TargetOf[t]] = NoToken]
    /\ signedOut' = signedOut \cup {authToken[t].id}

\* Mutant: Delete reports success for an entry that it leaves there.
SignOutKeepsEntry(t) ==
    /\ phase[t] = "select"
    /\ mSignOut[t]
    /\ SignedOutMenu(t)
    /\ mOpen' = [mOpen EXCEPT ![t] = FALSE]
    /\ signedOut' = signedOut \cup {authToken[t].id}
    /\ UNCHANGED store

\* Mutant: Open Dashboard stays enabled.
SignOutKeepsOpen(t) ==
    /\ phase[t] = "select"
    /\ mSignOut[t]
    /\ SignedOutMenu(t)
    /\ Delete(t)
    /\ UNCHANGED mOpen

\* Delete the entry (a failure is only logged), drop the token, flip the menu.
ClickSignOut(t) ==
    /\ phase[t] = "select"
    /\ mSignOut[t]
    /\ SignedOutMenu(t)
    /\ mOpen' = [mOpen EXCEPT ![t] = FALSE]
    /\ \E deleted \in Outcomes("delete") :
         IF deleted THEN Delete(t) ELSE UNCHANGED <<store, signedOut>>

\* The tray process is gone and its memory with it.
Vanish(t) ==
    /\ phase' = [phase EXCEPT ![t] = "off"]
    /\ authOn' = [authOn EXCEPT ![t] = FALSE]
    /\ authToken' = [authToken EXCEPT ![t] = NoToken]
    /\ mOpen' = [mOpen EXCEPT ![t] = FALSE]
    /\ mSignIn' = [mSignIn EXCEPT ![t] = FALSE]
    /\ mSignOut' = [mSignOut EXCEPT ![t] = FALSE]
    /\ UNCHANGED <<now, minted, store, child, dashboards, signedOut>>

\* The loop is selecting when Quit is clicked (or the context is done); systray
\* drops a click on Quit that comes while the loop is inside cmd.Run.
Quit(t) ==
    /\ phase[t] = "select"
    /\ Vanish(t)

\* Task Manager or a crash, at any point; the child lives on.
Kill(t) ==
    /\ phase[t] # "off"
    /\ Vanish(t)

\* An orphaned child that has exited frees its slot.
Reap(t) ==
    /\ phase[t] = "off"
    /\ child[t] \in {"ok", "failed"}
    /\ child' = [child EXCEPT ![t] = "none"]
    /\ UNCHANGED <<now, minted, store, phase, memory, dashboards, signedOut>>

-----------------------------------------------------------------------------

(***************************************************************************)
(* The child gets no --config, so runSignIn loads the default one: it dies *)
(* without an auth block there, returns at once on a usable cached token,  *)
(* and shows the login window otherwise.                                   *)
(***************************************************************************)
ChildStarts(t) ==
    /\ child[t] = "start"
    /\ \E loaded \in Outcomes("config"), readable \in Outcomes("read") :
         child' = [child EXCEPT ![t] =
                     IF ~loaded \/ DefaultTarget = NoAuth THEN "failed"
                     ELSE IF Read(DefaultTarget, readable) # NoToken THEN "ok"
                     ELSE "window"]
    /\ UNCHANGED <<now, minted, store, phase, memory, dashboards, signedOut>>

\* Set(DefaultTarget) with a freshly minted token, by the UI thread or by the
\* goroutine of a round while the UI thread is inside a call.
Stores(t, exp) ==
    /\ minted < MaxTokens
    /\ store' = [store EXCEPT ![DefaultTarget] =
                    [id |-> minted + 1, target |-> DefaultTarget, exp |-> exp]]
    /\ minted' = minted + 1
    /\ \E stage \in {"stored", "calling"} :
         /\ child[t] \in {"window", stage}
         /\ child' = [child EXCEPT ![t] = stage]
    /\ UNCHANGED <<now, phase, memory, dashboards, signedOut>>

\* Mutant: the skew is taken off at minting, for an omitted expires_in too.
StoresSkewed(t) == \E life \in Lifetimes : Stores(t, now + life - Skew)

\* A flow in the window obtained a token and wrote it to the store; a second
\* flow of the same window may do so too.
ChildStores(t) ==
    \E life \in Lifetimes : Stores(t, IF life = 0 THEN 0 ELSE now + life)

\* The window ends without a token: dismissed (exit 0) or on an error.
ChildGivesUp(t) ==
    /\ child[t] = "window"
    /\ \E exit \in {"ok", "failed"} : child' = [child EXCEPT ![t] = exit]
    /\ UNCHANGED <<now, minted, store, phase, memory, dashboards, signedOut>>

\* After the write the operator goes Back and clicks again, before the window
\* gets to its Terminate: the UI thread is inside OIDC discovery or the keypair
\* POST, on http.DefaultClient without a timeout.
ChildCalls(t) ==
    /\ child[t] = "stored"
    /\ child' = [child EXCEPT ![t] = "calling"]
    /\ UNCHANGED <<now, minted, store, phase, memory, dashboards, signedOut>>

\* The server answers, if it ever does.
ChildAnswered(t) ==
    /\ child[t] = "calling"
    /\ child' = [child EXCEPT ![t] = "stored"]
    /\ UNCHANGED <<now, minted, store, phase, memory, dashboards, signedOut>>

\* The window ends after the write; a competing flow's error may win.
ChildFinishes(t) ==
    /\ child[t] = "stored"
    /\ \E exit \in {"ok", "failed"} : child' = [child EXCEPT ![t] = exit]
    /\ UNCHANGED <<now, minted, store, phase, memory, dashboards, signedOut>>

\* Task Manager or a crash, at any point of the child's life.
ChildDies(t) ==
    /\ child[t] \in {"start", "window", "stored", "calling"}
    /\ child' = [child EXCEPT ![t] = "failed"]
    /\ UNCHANGED <<now, minted, store, phase, memory, dashboards, signedOut>>

\* The operator closes a dashboard window.
CloseDashboard ==
    /\ \E d \in dashboards : dashboards' = dashboards \ {d}
    /\ UNCHANGED <<now, minted, store, phase, memory, child, signedOut>>

Tick ==
    /\ now < MaxNow
    /\ now' = now + 1
    /\ UNCHANGED <<minted, store, phase, memory, child, dashboards, signedOut>>

Next ==
    \/ \E t \in Trays :
         \/ Boot(t) \/ ClickOpen(t) \/ ClickSignIn(t) \/ SignInReturns(t)
         \/ ClickSignOut(t) \/ Quit(t) \/ Kill(t) \/ Reap(t)
         \/ ChildStarts(t) \/ ChildStores(t) \/ ChildGivesUp(t)
         \/ ChildCalls(t) \/ ChildAnswered(t) \/ ChildFinishes(t)
         \/ ChildDies(t)
    \/ CloseDashboard
    \/ Tick

(***************************************************************************)
(* Program steps that no human or network is needed for.  Clicks, closing  *)
(* the window, what happens inside it, the answers of servers, kills and   *)
(* the clock are not fair.  That a child which stored its token and is in  *)
(* no call exits is what LoginWindow's ResultEndsProcess shows.            *)
(***************************************************************************)
Fairness ==
    \A t \in Trays :
      /\ WF_vars(SignInReturns(t))
      /\ WF_vars(ChildStarts(t))
      /\ WF_vars(ChildFinishes(t))

Spec == Init /\ [][Next]_vars /\ Fairness

-----------------------------------------------------------------------------

(***************************************************************************)
(* The menu tells the truth.  While auth is configured, Open Dashboard and *)
(* Sign out are offered exactly when the tray holds a token and Sign in    *)
(* exactly when it holds none, and the loop blocks on a child only from    *)
(* the signed-out menu, on one child at a time; without auth only Open     *)
(* Dashboard is there.  Each click handler flips the items one by one.     *)
(***************************************************************************)
MenuAgrees ==
    \A t \in Trays :
      /\ phase[t] # "off" /\ authOn[t] =>
           /\ mOpen[t] = (authToken[t] # NoToken)
           /\ mSignOut[t] = (authToken[t] # NoToken)
           /\ mSignIn[t] = (authToken[t] = NoToken)
      /\ phase[t] # "off" /\ ~authOn[t] =>
           mOpen[t] /\ ~mSignOut[t] /\ ~mSignIn[t] /\ authToken[t] = NoToken
      /\ phase[t] = "signin" => mSignIn[t] /\ child[t] # "none"
      /\ phase[t] = "select" => child[t] = "none"

(***************************************************************************)
(* Clusters signed in side by side stay apart (keychain_windows.go): an    *)
(* entry, a tray and a dashboard hold only tokens minted for their own     *)
(* Credential Manager target, whatever config the children ran with.       *)
(***************************************************************************)
TargetsStayApart ==
    /\ \A x \in Targets : store[x] # NoToken => store[x].target = x
    /\ \A t \in Trays : authToken[t] # NoToken =>
                          authToken[t].target = TargetOf[t]
    /\ \A d \in dashboards : d.token # NoToken =>
                               d.token.target = TargetOf[d.tray]

(***************************************************************************)
(* Sign out forgets: a session that a Sign out deleted is in no entry, so  *)
(* neither a restart, another tray nor a sign-in child that was already    *)
(* running can bring it back.  A Sign out whose CredDelete failed, which   *)
(* the tray only logs, deletes nothing and takes no deleted session back.  *)
(***************************************************************************)
SignedOutForgotten ==
    \A x \in Targets : store[x] # NoToken => store[x].id \notin signedOut

\* A target stands behind every tray with auth and every login window.
Grounded ==
    \A t \in Trays :
      /\ authOn[t] => TargetOf[t] \in Targets
      /\ phase[t] = "off" => authToken[t] = NoToken
      /\ child[t] \in {"window", "stored", "calling"} => DefaultTarget \in Targets

\* One session, one entry: no id is in two entries, or held by a tray and
\* found in the entry of another target.
OneEntryPerSession ==
    /\ \A x \in Targets : store[x] # NoToken => store[x].id <= minted
    /\ \A t \in Trays : authToken[t] # NoToken => authToken[t].id <= minted
    /\ \A i \in signedOut : i <= minted
    /\ \A x, y \in Targets :
         store[x] # NoToken /\ store[y] # NoToken /\ store[x].id = store[y].id
           => x = y
    /\ \A t \in Trays, x \in Targets :
         authToken[t] # NoToken /\ store[x] # NoToken
           /\ authToken[t].id = store[x].id => x = TargetOf[t]

(***************************************************************************)
(* A token enters a tray's memory only from the tray's own entry and only  *)
(* with the skew to spare (main and spawnSignInAndReload); from then on it *)
(* is never swapped for another one without going through signed out.      *)
(***************************************************************************)
Adopts(t) == authToken'[t] # authToken[t] /\ authToken'[t] # NoToken

AdoptsOnlyFresh ==
    [][\A t \in Trays : Adopts(t) =>
         /\ authToken[t] = NoToken
         /\ authToken'[t] = store[TargetOf[t]]
         /\ ~Expired(authToken'[t])]_vars

Face(t) ==
    IF phase[t] = "off" THEN "off"
    ELSE IF ~authOn[t] THEN "plain"
    ELSE IF authToken[t] # NoToken THEN "in"
    ELSE IF phase[t] = "signin" THEN "signing" ELSE "out"

Shown == [t \in Trays |-> Face(t)]
Window(tray, token) == [tray |-> tray, token |-> token # NoToken]
Windows == {Window(d.tray, d.token) : d \in dashboards}

Lifecycle == INSTANCE TrayLifecycle WITH face <- Shown, windows <- Windows

(***************************************************************************)
(* The tray keeps the promises of TrayLifecycle: among them the gate on    *)
(* Open Dashboard, without which it "would render OIDC chrome instead of   *)
(* the SPA" (tray.go), and that only a sign-in or a restart brings a       *)
(* signed-out tray a token.                                                *)
(***************************************************************************)
LifecycleSpec == Lifecycle!Spec

SignIns == INSTANCE SignInChild WITH
    Children <- Trays, stage <- child, writes <- minted

(***************************************************************************)
(* The trays use their children only the way SignInChild allows: a child   *)
(* is collected after it exited and before the next one is spawned, and no *)
(* token is minted outside a login window (spawnSignInAndReload).          *)
(***************************************************************************)
SignInSpec == SignIns!Spec

(***************************************************************************)
(* Once the token is persisted the sign-in needs no human: the select loop *)
(* that is blocked in cmd.Run comes back, or the tray is gone, unless the  *)
(* child's UI thread is inside a bound call that a server never answers;   *)
(* then w.Run does not return and the tray stays blocked.                  *)
(***************************************************************************)
PersistedSignInReturns ==
    \A t \in Trays :
      (phase[t] = "signin" /\ child[t] = "stored") ~>
        (phase[t] # "signin" \/ child[t] = "calling")

-----------------------------------------------------------------------------

(***************************************************************************)
(* README: Open Dashboard is "disabled until a non-expired session token   *)
(* is cached ... (so clicking it can never land on the dex sign-in page)". *)
(* That is, a dashboard is given a token the server still accepts.         *)
(***************************************************************************)
OpenNeverLandsOnSignIn ==
    [][\A d \in dashboards' \ dashboards :
         d.token # NoToken => ~Lapsed(d.token)]_vars

(***************************************************************************)
(* tray.go on spawnSignInAndReload: "on success the new token is in        *)
(* Credential Manager and we read it back into the tray's in-memory cache".*)
(* A child that exits 0 having just stored a token that is still usable    *)
(* leaves the tray signed in.                                              *)
(***************************************************************************)
SignInReachesTray ==
    [][\A t \in Trays :
         /\ phase[t] = "signin" /\ phase'[t] = "select"
         /\ child[t] = "ok"
         /\ DefaultTarget # NoAuth
         /\ Usable(store[DefaultTarget])
         => authToken'[t] # NoToken]_vars
=============================================================================
