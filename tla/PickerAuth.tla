------------------------------ MODULE PickerAuth ------------------------------
(***************************************************************************)
(* Authenticate with an injected Picker (auth.go): the cached token, the   *)
(* picker's choice, and runOIDC's race between a goroutine on the loopback *)
(* listener and one on the picker's own web view, which report to the      *)
(* caller over two channels of capacity one.  Production passes no Picker; *)
(* no test of the repository reaches runOIDC.                              *)
(***************************************************************************)
EXTENDS Naturals, Sequences

CONSTANTS
    Faults \* what may fail: "read", "gateway", "issuer", "write"

ASSUME PickerAssumption ==
    Faults \subseteq {"read", "gateway", "issuer", "write"}

VARIABLES
    pc,        \* the caller, in Authenticate and runOIDC
    racer,     \* the two goroutines of runOIDC
    cbCh,      \* callback URLs: which goroutine captured it
    errCh,     \* errors: which goroutine failed
    callback,  \* callbackURL: the goroutine it came from
    cancelled, \* ctx.Done() is closed
    entry,     \* the store holds a usable token
    ret        \* what Authenticate returned

vars == <<pc, racer, cbCh, errCh, callback, cancelled, entry, ret>>

Racers == {"listener", "webview"}

Steps == {"cache", "pick", "keypair", "discover", "race", "second", "finish",
          "store", "returned"}

\* "url" and "error": about to send; "done": returned.
Stages == {"off", "running", "url", "error", "done"}

Returns == {"unset", "cached", "token", "dismissed", "failed", "cancelled",
            "bothFailed", "timeout"}

TypeOK ==
    /\ pc \in Steps
    /\ racer \in [Racers -> Stages]
    /\ cbCh \in Seq(Racers) /\ Len(cbCh) <= 1
    /\ errCh \in Seq(Racers) /\ Len(errCh) <= 1
    /\ callback \in Racers \cup {"none"}
    /\ cancelled \in BOOLEAN
    /\ entry \in BOOLEAN
    /\ ret \in Returns

Outcomes(op) == IF op \in Faults THEN BOOLEAN ELSE {TRUE}

Init ==
    /\ pc = "cache"
    /\ racer = [g \in Racers |-> "off"]
    /\ cbCh = <<>>
    /\ errCh = <<>>
    /\ callback = "none"
    /\ cancelled = FALSE
    /\ entry \in BOOLEAN
    /\ ret = "unset"

-----------------------------------------------------------------------------
(* The caller.                                                             *)

Goto(step) ==
    /\ pc' = step
    /\ UNCHANGED <<racer, cbCh, errCh, callback, cancelled, entry, ret>>

Return(res) ==
    /\ pc' = "returned"
    /\ ret' = res
    /\ UNCHANGED <<racer, cbCh, errCh, callback, cancelled, entry>>

\* A failed read is logged and counts as a miss.
TryCache ==
    /\ pc = "cache"
    /\ \E readable \in Outcomes("read") :
         IF readable /\ entry THEN Return("cached") ELSE Goto("pick")

\* The OpenPubkey choice falls through to OIDC after the stub's error.
Pick ==
    /\ pc = "pick"
    /\ \/ Return("dismissed")
       \/ Goto("keypair")
       \/ Goto("discover")

RunKeypair ==
    /\ pc = "keypair"
    /\ \E minted \in Outcomes("gateway") :
         IF minted THEN Goto("store") ELSE Return("failed")

\* startOIDC, then both goroutines are started.
StartOIDC ==
    /\ pc = "discover"
    /\ \/ /\ pc' = "race"
          /\ racer' = [g \in Racers |-> "running"]
          /\ UNCHANGED <<cbCh, errCh, callback, cancelled, entry, ret>>
       \/ "issuer" \in Faults /\ Return("failed")

ReceiveCallback ==
    /\ cbCh # <<>>
    /\ pc' = "finish"
    /\ callback' = Head(cbCh)
    /\ cbCh' = Tail(cbCh)
    /\ UNCHANGED <<racer, errCh, cancelled, entry, ret>>

\* Mutant: the first error is returned at once.
RaceBails ==
    /\ pc = "race"
    /\ \/ cancelled /\ Return("cancelled")
       \/ ReceiveCallback
       \/ /\ errCh # <<>>
          /\ pc' = "returned"
          /\ errCh' = Tail(errCh)
          /\ ret' = "bothFailed"
          /\ UNCHANGED <<racer, cbCh, callback, cancelled, entry>>

\* The outer select.
Race ==
    /\ pc = "race"
    /\ \/ cancelled /\ Return("cancelled")
       \/ ReceiveCallback
       \/ /\ errCh # <<>>
          /\ pc' = "second"
          /\ errCh' = Tail(errCh)
          /\ UNCHANGED <<racer, cbCh, callback, cancelled, entry, ret>>

\* Mutant: no timer beside the two channels.
SecondUntimed ==
    /\ pc = "second"
    /\ \/ ReceiveCallback
       \/ /\ errCh # <<>>
          /\ pc' = "returned"
          /\ errCh' = Tail(errCh)
          /\ ret' = "bothFailed"
          /\ UNCHANGED <<racer, cbCh, callback, cancelled, entry>>

\* The inner select, after the first error: it does not look at the context.
Second ==
    /\ pc = "second"
    /\ \/ ReceiveCallback
       \/ /\ errCh # <<>>
          /\ pc' = "returned"
          /\ errCh' = Tail(errCh)
          /\ ret' = "bothFailed"
          /\ UNCHANGED <<racer, cbCh, callback, cancelled, entry>>
       \/ Return("timeout")

Finish ==
    /\ pc = "finish"
    /\ \E minted \in Outcomes("issuer") :
         IF minted THEN Goto("store") ELSE Return("failed")

\* A failed write is logged; the token is returned all the same.
Store ==
    /\ pc = "store"
    /\ pc' = "returned"
    /\ ret' = "token"
    /\ \E stored \in Outcomes("write") : entry' = (stored \/ entry)
    /\ UNCHANGED <<racer, cbCh, errCh, callback, cancelled>>

-----------------------------------------------------------------------------
(* The goroutines.                                                         *)

Turn(g, stage) ==
    /\ racer' = [racer EXCEPT ![g] = stage]
    /\ UNCHANGED <<pc, cbCh, errCh, callback, cancelled, entry, ret>>

\* awaitCallback: a redirect came; or no port, five minutes, a cancelled ctx.
ListenerCaptures == racer["listener"] = "running" /\ Turn("listener", "url")
ListenerFails == racer["listener"] = "running" /\ Turn("listener", "error")

\* OpenAuthWebView: the redirect prefix, an error, or "" for a closed window,
\* which reports nothing.
WebViewReturns ==
    /\ racer["webview"] = "running"
    /\ \E stage \in {"url", "error", "done"} : Turn("webview", stage)

\* Mutant: channels made without a buffer, so that somebody must be receiving.
RoomUnbuffered(ch) == pc \in {"race", "second"} /\ ch = <<>>

\* Mutant: a place for each of the two goroutines.
RoomForBoth(ch) == Len(ch) < 2

\* A send into a channel of capacity one does not block.
Room(ch) == Len(ch) < 1

SendURL(g) ==
    /\ racer[g] = "url"
    /\ Room(cbCh)
    /\ cbCh' = Append(cbCh, g)
    /\ racer' = [racer EXCEPT ![g] = "done"]
    /\ UNCHANGED <<pc, errCh, callback, cancelled, entry, ret>>

SendError(g) ==
    /\ racer[g] = "error"
    /\ Room(errCh)
    /\ errCh' = Append(errCh, g)
    /\ racer' = [racer EXCEPT ![g] = "done"]
    /\ UNCHANGED <<pc, cbCh, callback, cancelled, entry, ret>>

Cancel ==
    /\ ~cancelled
    /\ cancelled' = TRUE
    /\ UNCHANGED <<pc, racer, cbCh, errCh, callback, entry, ret>>

Caller ==
    \/ TryCache \/ Pick \/ RunKeypair \/ StartOIDC \/ Race \/ Second \/ Finish
    \/ Store

Next ==
    \/ Caller
    \/ ListenerCaptures \/ ListenerFails \/ WebViewReturns
    \/ \E g \in Racers : SendURL(g) \/ SendError(g)
    \/ Cancel

(***************************************************************************)
(* The caller's own steps, its inner timer, and the listener's timer are   *)
(* the program's; the picker, its window and the servers are not.          *)
(***************************************************************************)
Fairness ==
    /\ WF_vars(Race)
    /\ WF_vars(Second)
    /\ WF_vars(ListenerFails)
    /\ \A g \in Racers : WF_vars(SendURL(g)) /\ WF_vars(SendError(g))

Spec == Init /\ [][Next]_vars /\ Fairness

-----------------------------------------------------------------------------

(***************************************************************************)
(* No goroutine of a round is left blocked on its channel for good: after  *)
(* the caller stopped receiving, whoever is still to report finds room.    *)
(* Only a caller that left because its context was cancelled may leave one *)
(* behind: two captured URLs, one place.                                   *)
(***************************************************************************)
NobodyIsStuck ==
    pc \in {"finish", "store", "returned"} /\ ret # "cancelled" =>
      \A g \in Racers :
        /\ racer[g] = "url" => Room(cbCh)
        /\ racer[g] = "error" => Room(errCh)

(***************************************************************************)
(* runOIDC: "Don't bail on the first error ... Only bail if the second one *)
(* also fails": no captured callback is thrown away for an error.          *)
(***************************************************************************)
BailsWhenBothFailed ==
    ret = "bothFailed" =>
      /\ cbCh = <<>>
      /\ \A g \in Racers : racer[g] = "done"

(***************************************************************************)
(* The race ends whatever the window does: the listener's timer and then   *)
(* the inner one, although a window closed early reports nothing at all.   *)
(***************************************************************************)
RaceEnds == pc = "race" ~> pc \notin {"race", "second"}
=============================================================================
