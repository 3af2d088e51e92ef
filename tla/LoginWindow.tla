----------------------------- MODULE LoginWindow -----------------------------
(***************************************************************************)
(* The inside of `--sign-in` processes: the login window of auth_login.go, *)
(* the keypair call that blocks its UI thread, and the goroutine that each *)
(* OIDC round leaves behind: awaitCallback's one-shot listener on the      *)
(* loopback redirect port, Finish, the token exchange, the store, and the  *)
(* race of all of them into setResult (auth_login.go, auth_oidc.go,        *)
(* auth_keypair.go, main.go).                                              *)
(*                                                                         *)
(* The redirect port and the Credential Manager entry are shared by every  *)
(* process that runs with the same config.                                 *)
(***************************************************************************)
EXTENDS FiniteSets, Naturals

CONSTANTS
    Children,       \* --sign-in processes; also names a child's keypair flow
    Rounds,         \* OIDC rounds
    OwnerOf,        \* the child whose window may start a round
    KeypairOffered, \* keypair_fallback
    Faults,         \* what may fail: "issuer", "gateway", "write", "read",
                    \* "listen" (a bad redirect URI, a foreign program's port)
    None            \* no entry, an empty channel, a free port

ASSUME LoginAssumption ==
    /\ OwnerOf \in [Rounds -> Children]
    /\ Rounds \cap Children = {}
    /\ KeypairOffered \in BOOLEAN
    /\ Faults \subseteq {"issuer", "gateway", "write", "read", "listen"}

VARIABLES
    win,     \* main thread of each child
    page,    \* what the window shows, see Pages
    ui,      \* the bound call the UI thread is inside
    round,   \* the goroutine of each round
    got,     \* awaitCallback's channel: None or the request it captured
    port,    \* the round whose listener is bound to the redirect port
    entry,   \* the flow whose token is in the Credential Manager
    written, \* flows that wrote their token (history)
    result,  \* resultSet, result and resultErr of each child
    ret      \* what the process made of it when it exited

vars == <<win, page, ui, round, got, port, entry, written, result, ret>>

Flows == Rounds \cup Children

Windows == {"start", "run", "returned", "destroyed", "exited"}
Calls == {"idle", "discover", "post", "write", "report"}
Stages == {"new", "spawned", "awaiting", "got", "exchange", "write", "report",
           "fail", "done"}

\* login.html, login.html with its buttons left disabled, the page a listener
\* answers with, the browser's "connection refused", or a round's IdP page.
Pages == {"login", "spent", "landed", "refused"} \cup Rounds

\* A request to the redirect port: whose redirect it is (None for a request
\* that carries no state of ours) and whether it brings a code.
Requests == [state : Rounds \cup {None}, code : BOOLEAN]

\* The names in use are told apart.
ASSUME NamesAssumption ==
    /\ None \notin Flows \cup Requests
    /\ Flows \cap {"unset", "error", "cached", "killed"} = {}
    /\ Rounds \cap {"login", "spent", "landed", "refused"} = {}

TypeOK ==
    /\ win \in [Children -> Windows]
    /\ page \in [Children -> Pages]
    /\ ui \in [Children -> Calls]
    /\ round \in [Rounds -> Stages]
    /\ got \in [Rounds -> {None} \cup Requests]
    /\ port \in {None} \cup Rounds
    /\ entry \in {None} \cup Flows
    /\ written \subseteq Flows
    /\ result \in [Children -> {"unset", "error"} \cup Flows]
    /\ ret \in [Children -> {"unset", "error", "cached", "killed"} \cup Flows]

RoundsOf(c) == {r \in Rounds : OwnerOf[r] = c}
FlowsOf(c) == RoundsOf(c) \cup {c}
Alive(c) == win[c] \in {"run", "returned", "destroyed"}

\* May the operation succeed, may it fail?
Outcomes(op) == IF op \in Faults THEN BOOLEAN ELSE {TRUE}

\* The window reacts to the operator only between two bound calls.
Responsive(c) == win[c] = "run" /\ ui[c] = "idle"

\* The UI thread is inside a call that a server may never answer.
Waiting(c) == win[c] = "run" /\ ui[c] \in {"discover", "post"}

Init ==
    /\ win = [c \in Children |-> "start"]
    /\ page = [c \in Children |-> "login"]
    /\ ui = [c \in Children |-> "idle"]
    /\ round = [r \in Rounds |-> "new"]
    /\ got = [r \in Rounds |-> None]
    /\ port = None
    /\ entry = None
    /\ written = {}
    /\ result = [c \in Children |-> "unset"]
    /\ ret = [c \in Children |-> "unset"]

-----------------------------------------------------------------------------
(* Main thread.                                                            *)

\* Mutant: the cached token is written back before the process ends.
BeginRestores(c) ==
    /\ win[c] = "start"
    /\ IF entry # None
       THEN /\ win' = [win EXCEPT ![c] = "exited"]
            /\ ret' = [ret EXCEPT ![c] = "cached"]
            /\ entry' = c /\ written' = written \cup {c}
       ELSE /\ win' = [win EXCEPT ![c] = "run"]
            /\ UNCHANGED <<ret, entry, written>>
    /\ UNCHANGED <<page, ui, round, got, port, result>>

\* Authenticate: a usable cached token ends the process, else show the window.
Begin(c) ==
    /\ win[c] = "start"
    /\ \E readable \in Outcomes("read") :
         IF readable /\ entry # None
         THEN /\ win' = [win EXCEPT ![c] = "exited"]
              /\ ret' = [ret EXCEPT ![c] = "cached"]
         ELSE /\ win' = [win EXCEPT ![c] = "run"]
              /\ UNCHANGED ret
    /\ UNCHANGED <<page, ui, round, got, port, entry, written, result>>

\* The first flow to report wins; it also asks the loop to terminate.
SetResult(c, res) ==
    result' = IF result[c] = "unset" THEN [result EXCEPT ![c] = res] ELSE result

\* Mutant: only a token terminates the loop.
RunReturnsOnToken(c) ==
    /\ Responsive(c)
    /\ result[c] \notin {"unset", "error"}
    /\ win' = [win EXCEPT ![c] = "returned"]
    /\ UNCHANGED <<page, ui, round, got, port, entry, written, result, ret>>

\* The loop gets to the Terminate of setResult.
RunReturns(c) ==
    /\ Responsive(c)
    /\ result[c] # "unset"
    /\ win' = [win EXCEPT ![c] = "returned"]
    /\ UNCHANGED <<page, ui, round, got, port, entry, written, result, ret>>

\* The operator closes the window, whatever the goroutines are doing.
CloseWindow(c) ==
    /\ Responsive(c)
    /\ win' = [win EXCEPT ![c] = "returned"]
    /\ UNCHANGED <<page, ui, round, got, port, entry, written, result, ret>>

\* The result is read under the lock, then the deferred Destroy runs.
Capture(c) ==
    /\ win[c] = "returned"
    /\ ret' = [ret EXCEPT ![c] = result[c]]
    /\ win' = [win EXCEPT ![c] = "destroyed"]
    /\ UNCHANGED <<page, ui, round, got, port, entry, written, result>>

\* The port goes back with the process, whatever its goroutines were doing.
Gone(c) ==
    /\ win' = [win EXCEPT ![c] = "exited"]
    /\ port' = IF port \in RoundsOf(c) THEN None ELSE port
    /\ UNCHANGED <<page, ui, round, got, entry, written, result>>

\* runSignIn returns, or log.Fatal on an error.
Exit(c) == win[c] = "destroyed" /\ Gone(c) /\ UNCHANGED ret

\* Task Manager or a crash.
Kill(c) ==
    /\ win[c] # "exited"
    /\ Gone(c)
    /\ ret' = [ret EXCEPT ![c] = "killed"]

ExitFailed(c) == win[c] = "exited" /\ ret[c] \in {"error", "killed"}

-----------------------------------------------------------------------------
(* Calls the page makes into Go.  They run on the UI thread.               *)

\* A bound call moves on and does nothing else.
Call(c, from, to) ==
    /\ win[c] = "run"
    /\ ui[c] = from
    /\ ui' = [ui EXCEPT ![c] = to]

ClickKeypair(c) ==
    /\ KeypairOffered
    /\ page[c] = "login"
    /\ Call(c, "idle", "post")
    /\ UNCHANGED <<win, page, round, got, port, entry, written, result, ret>>

\* The gateway answers the assertion; an error is shown on the login page.
PostAnswered(c) ==
    /\ \E minted \in Outcomes("gateway") :
         Call(c, "post", IF minted THEN "write" ELSE "idle")
    /\ UNCHANGED <<win, page, round, got, port, entry, written, result, ret>>

\* store.Set: what a flow does with its token.
Write(f) == entry' = f /\ written' = written \cup {f}

KeypairWrites(c) ==
    /\ \E stored \in Outcomes("write") :
         /\ Call(c, "write", IF stored THEN "report" ELSE "idle")
         /\ IF stored THEN Write(c) ELSE UNCHANGED <<entry, written>>
    /\ UNCHANGED <<win, page, round, got, port, result, ret>>

\* setResult; login.html leaves its buttons disabled after a success.
KeypairReports(c) ==
    /\ Call(c, "report", "idle")
    /\ page' = [page EXCEPT ![c] = "spent"]
    /\ SetResult(c, c)
    /\ UNCHANGED <<win, round, got, port, entry, written, ret>>

ClickOIDC(c) ==
    /\ page[c] = "login"
    /\ \E r \in RoundsOf(c) : round[r] = "new"
    /\ Call(c, "idle", "discover")
    /\ UNCHANGED <<win, page, round, got, port, entry, written, result, ret>>

\* startOIDC failed: the error is shown on the login page, no goroutine runs.
DiscoveryFails(c) ==
    /\ "issuer" \in Faults
    /\ Call(c, "discover", "idle")
    /\ UNCHANGED <<win, page, round, got, port, entry, written, result, ret>>

\* startOIDC made a round: its goroutine is spawned, and the page goes to the
\* identity provider without waiting for the listener to be there.
RoundStarts(r) ==
    LET c == OwnerOf[r] IN
    /\ round[r] = "new"
    /\ Call(c, "discover", "idle")
    /\ round' = [round EXCEPT ![r] = "spawned"]
    /\ page' = [page EXCEPT ![c] = r]
    /\ UNCHANGED <<win, got, port, entry, written, result, ret>>

\* WebView2's Back: the login page is loaded again, the round lives on.
GoBack(c) ==
    /\ Responsive(c)
    /\ page[c] \in {"landed", "refused"} \cup Rounds
    /\ page' = [page EXCEPT ![c] = "login"]
    /\ UNCHANGED <<win, ui, round, got, port, entry, written, result, ret>>

-----------------------------------------------------------------------------
(* The goroutine of a round.                                               *)

Running(r, stage) == Alive(OwnerOf[r]) /\ round[r] = stage

\* The redirect URI is parsed and net.Listen called: it fails when a process
\* holds the port, a sign-in's or a foreign one.
Listen(r) ==
    /\ Running(r, "spawned")
    /\ \E usable \in Outcomes("listen") :
         IF usable /\ port = None
         THEN port' = r /\ round' = [round EXCEPT ![r] = "awaiting"]
         ELSE round' = [round EXCEPT ![r] = "fail"] /\ UNCHANGED port
    /\ UNCHANGED <<win, page, ui, got, entry, written, result, ret>>

\* The handler takes the first request, whoever sent it; later ones, and those
\* that find no listener, are lost.
Deliver(req) ==
    got' = IF port # None /\ got[port] = None
           THEN [got EXCEPT ![port] = req] ELSE got

\* The identity provider sends the window's round back with a code or an error.
Redirect(c) ==
    /\ Responsive(c)
    /\ page[c] \in Rounds
    /\ \E code \in BOOLEAN : Deliver([state |-> page[c], code |-> code])
    /\ page' = [page EXCEPT ![c] = IF port = None THEN "refused" ELSE "landed"]
    /\ UNCHANGED <<win, ui, round, port, entry, written, result, ret>>

\* Some other local request to the port.
Stray ==
    /\ port # None
    /\ Deliver([state |-> None, code |-> FALSE])
    /\ UNCHANGED <<win, page, ui, round, port, entry, written, result, ret>>

\* Mutant: awaitCallback times out without its deferred Close.
TimeoutLeaks(r) ==
    /\ Running(r, "awaiting")
    /\ round' = [round EXCEPT ![r] = "fail"]
    /\ UNCHANGED <<win, page, ui, got, port, entry, written, result, ret>>

\* Mutant: no timeout arm in the select.
NoTimeout(r) ==
    /\ Running(r, "awaiting")
    /\ got[r] # None
    /\ round' = [round EXCEPT ![r] = "fail"]
    /\ port' = None
    /\ UNCHANGED <<win, page, ui, got, entry, written, result, ret>>

\* Five minutes are over; the deferred Shutdown and Close free the port.
Timeout(r) ==
    /\ Running(r, "awaiting")
    /\ round' = [round EXCEPT ![r] = "fail"]
    /\ port' = None
    /\ UNCHANGED <<win, page, ui, got, entry, written, result, ret>>

Wake(r) ==
    /\ Running(r, "awaiting")
    /\ got[r] # None
    /\ round' = [round EXCEPT ![r] = "got"]
    /\ port' = None
    /\ UNCHANGED <<win, page, ui, got, entry, written, result, ret>>

\* Mutant: any code is exchanged, whatever state came with it.
FinishAnyState(r) ==
    /\ Running(r, "got")
    /\ round' = [round EXCEPT ![r] = IF got[r].code THEN "exchange" ELSE "fail"]
    /\ UNCHANGED <<win, page, ui, got, port, entry, written, result, ret>>

\* Finish: no provider error, our own state nonce, and a code.
Finish(r) ==
    /\ Running(r, "got")
    /\ round' = [round EXCEPT ![r] = IF got[r] = [state |-> r, code |-> TRUE]
                                     THEN "exchange" ELSE "fail"]
    /\ UNCHANGED <<win, page, ui, got, port, entry, written, result, ret>>

\* The token endpoint answers.
ExchangeAnswered(r) ==
    /\ Running(r, "exchange")
    /\ \E minted \in Outcomes("issuer") :
         round' = [round EXCEPT ![r] = IF minted THEN "write" ELSE "fail"]
    /\ UNCHANGED <<win, page, ui, got, port, entry, written, result, ret>>

\* Mutant: a failed write is logged and the token reported all the same.
RoundWritesMaybe(r) ==
    /\ Running(r, "write")
    /\ round' = [round EXCEPT ![r] = "report"]
    /\ \E stored \in Outcomes("write") :
         IF stored THEN Write(r) ELSE UNCHANGED <<entry, written>>
    /\ UNCHANGED <<win, page, ui, got, port, result, ret>>

\* Mutant: the test of Set's error is inverted.
RoundWritesInverted(r) ==
    /\ Running(r, "write")
    /\ \E stored \in Outcomes("write") :
         /\ round' = [round EXCEPT ![r] = IF stored THEN "fail" ELSE "report"]
         /\ IF stored THEN Write(r) ELSE UNCHANGED <<entry, written>>
    /\ UNCHANGED <<win, page, ui, got, port, result, ret>>

RoundWrites(r) ==
    /\ Running(r, "write")
    /\ \E stored \in Outcomes("write") :
         /\ round' = [round EXCEPT ![r] = IF stored THEN "report" ELSE "fail"]
         /\ IF stored THEN Write(r) ELSE UNCHANGED <<entry, written>>
    /\ UNCHANGED <<win, page, ui, got, port, result, ret>>

\* Mutant: a failed round reports the stage it ended in, not an error.
RoundReportsStage(r) ==
    /\ \/ Running(r, "report") /\ SetResult(OwnerOf[r], r)
       \/ Running(r, "fail") /\ SetResult(OwnerOf[r], round[r])
    /\ round' = [round EXCEPT ![r] = "done"]
    /\ UNCHANGED <<win, page, ui, got, port, entry, written, ret>>

\* setResult with the token, or with the error of an earlier step.
RoundReports(r) ==
    /\ \/ Running(r, "report") /\ SetResult(OwnerOf[r], r)
       \/ Running(r, "fail") /\ SetResult(OwnerOf[r], "error")
    /\ round' = [round EXCEPT ![r] = "done"]
    /\ UNCHANGED <<win, page, ui, got, port, entry, written, ret>>

Next ==
    \/ \E c \in Children :
         \/ Begin(c) \/ RunReturns(c) \/ CloseWindow(c) \/ Capture(c)
         \/ Exit(c) \/ Kill(c)
         \/ ClickKeypair(c) \/ PostAnswered(c) \/ KeypairWrites(c)
         \/ KeypairReports(c) \/ ClickOIDC(c) \/ DiscoveryFails(c) \/ GoBack(c)
         \/ Redirect(c)
    \/ \E r \in Rounds :
         \/ RoundStarts(r) \/ Listen(r) \/ Timeout(r) \/ Wake(r) \/ Finish(r)
         \/ ExchangeAnswered(r) \/ RoundWrites(r) \/ RoundReports(r)
    \/ Stray

(***************************************************************************)
(* The process's own steps and its five-minute timer.  The operator, the   *)
(* servers and stray requests are not fair: http.DefaultClient sets no     *)
(* timeout, so an answer may never come.                                   *)
(***************************************************************************)
Fairness ==
    /\ \A c \in Children :
         /\ WF_vars(RunReturns(c))
         /\ WF_vars(Capture(c))
         /\ WF_vars(Exit(c))
         /\ WF_vars(KeypairWrites(c))
         /\ WF_vars(KeypairReports(c))
    /\ \A r \in Rounds :
         /\ WF_vars(Listen(r))
         /\ WF_vars(Timeout(r))
         /\ WF_vars(Wake(r))
         /\ WF_vars(Finish(r))
         /\ WF_vars(RoundWrites(r))
         /\ WF_vars(RoundReports(r))

Spec == Init /\ [][Next]_vars /\ Fairness

-----------------------------------------------------------------------------

(***************************************************************************)
(* A round exchanges and stores only on its own redirect: whatever mix of  *)
(* rounds, processes and stray requests met on the port, the token a round *)
(* writes came from a code sent back with that round's state (Finish).     *)
(***************************************************************************)
OwnStateOnly ==
    \A r \in Rounds :
      round[r] \in {"exchange", "write", "report"} \/ r \in written =>
        got[r] = [state |-> r, code |-> TRUE]

(***************************************************************************)
(* A token is reported only after it was persisted, and only by a flow of  *)
(* this window: exit code 0 with a token means the tray can read it back   *)
(* (setResult after store.Set in both flows).                              *)
(***************************************************************************)
ReportedIsPersisted ==
    \A c \in Children, f \in Flows :
      result[c] = f \/ ret[c] = f => f \in written /\ f \in FlowsOf(c)

(***************************************************************************)
(* The redirect port is held exactly while a live round awaits on it, so a *)
(* round that ended in any way, or a process that died, blocks no later    *)
(* sign-in (awaitCallback's deferred Shutdown and Close).                  *)
(***************************************************************************)
PortAccounted ==
    \A r \in Rounds : port = r <=> Running(r, "awaiting")

(***************************************************************************)
(* A process that stored a flow's token and still fails was failed by      *)
(* another OIDC round of the same window: no flow turns its own success    *)
(* into an error.                                                          *)
(***************************************************************************)
OwnSuccessIsNoFailure ==
    \A c \in Children : \A f \in FlowsOf(c) \cap written :
      result[c] = "error" => \E r \in RoundsOf(c) \ {f} : round[r] = "done"

(***************************************************************************)
(* Whatever the operator and the identity provider do or fail to do, a     *)
(* round lets go of the redirect port (the timer in awaitCallback).        *)
(***************************************************************************)
AwaitEnds == \A r \in Rounds : port = r ~> port # r

(***************************************************************************)
(* Once a flow has stored its token or reported an error, the window goes  *)
(* away and the process exits, unless the UI thread is inside a bound call *)
(* that a server never answers (w.Run returns only between two calls).     *)
(***************************************************************************)
ResultEndsProcess ==
    \A c \in Children :
      (FlowsOf(c) \cap written # {} \/ result[c] # "unset") ~>
        (win[c] = "exited" \/ Waiting(c))

Stage(c) ==
    IF win[c] = "start" THEN "start"
    ELSE IF win[c] = "exited" THEN IF ExitFailed(c) THEN "failed" ELSE "ok"
    ELSE IF FlowsOf(c) \cap written = {} THEN "window"
    ELSE IF Waiting(c) THEN "calling" ELSE "stored"

SignIns == INSTANCE SignInChild WITH
    stage  <- [c \in Children |-> Stage(c)],
    writes <- Cardinality(written)

(***************************************************************************)
(* Seen from outside, the process is the SignInChild that Session assumes. *)
(***************************************************************************)
SignInSpec == SignIns!Spec

-----------------------------------------------------------------------------

(***************************************************************************)
(* auth_login.go: runLoginWebView "returns the Token cached in Keychain by *)
(* whichever auth flow the operator picked".  An error is returned only    *)
(* when no flow of the window cached a token.                              *)
(***************************************************************************)
ErrorStoresNothing ==
    \A c \in Children :
      win[c] = "exited" /\ ret[c] = "error" => FlowsOf(c) \cap written = {}
=============================================================================
