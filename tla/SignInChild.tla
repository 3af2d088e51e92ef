----------------------------- MODULE SignInChild -----------------------------
(***************************************************************************)
(* The `--sign-in` process as the rest of the system sees it: the stages   *)
(* it goes through and when it may write a token.  Session is written      *)
(* against this interface and LoginWindow, which models the inside of the  *)
(* process, implements it.                                                 *)
(***************************************************************************)
EXTENDS Naturals

CONSTANTS Children

VARIABLES
    stage,  \* of each child
    writes  \* tokens written to the Credential Manager so far

vars == <<stage, writes>>

\* "start": before the cache check; "window": the login window is up; "stored":
\* it has written a token; "calling": it has, and its window waits for a server
\* that may never answer; "ok" and "failed": exit code 0 or not.
Stages == {"none", "start", "window", "stored", "calling", "ok", "failed"}

TypeOK == stage \in [Children -> Stages] /\ writes \in Nat

Init == stage \in [Children -> {"none", "start"}] /\ writes = 0

Turn(c, from, to) ==
    /\ stage[c] \in from
    /\ \E s \in to : stage' = [stage EXCEPT ![c] = s]

Spawn(c) == Turn(c, {"none"}, {"start"}) /\ UNCHANGED writes

Show(c) == Turn(c, {"start"}, {"window"}) /\ UNCHANGED writes

Store(c) ==
    /\ \/ Turn(c, {"window", "stored"}, {"stored"})
       \/ Turn(c, {"window", "calling"}, {"calling"})
    /\ writes' = writes + 1

Call(c) == Turn(c, {"stored"}, {"calling"}) /\ UNCHANGED writes

Answer(c) == Turn(c, {"calling"}, {"stored"}) /\ UNCHANGED writes

\* Out of a call only its death takes a child.
End(c) ==
    /\ \/ Turn(c, {"start", "window", "stored"}, {"ok", "failed"})
       \/ Turn(c, {"calling"}, {"failed"})
    /\ UNCHANGED writes

Collect(c) == Turn(c, {"ok", "failed"}, {"none"}) /\ UNCHANGED writes

Next ==
    \E c \in Children :
      \/ Spawn(c) \/ Show(c) \/ Store(c) \/ Call(c) \/ Answer(c) \/ End(c)
      \/ Collect(c)

Spec == Init /\ [][Next]_vars
=============================================================================
