---------------------------- MODULE TrayLifecycle ----------------------------
(***************************************************************************)
(* What one Windows account's trays promise their operator, whatever the   *)
(* other trays, the sign-in children and the Credential Manager do: which  *)
(* of the tray's faces may follow which, and that a tray with an auth      *)
(* block opens a dashboard only while it is signed in, and then hands it a *)
(* token.                                                                  *)
(***************************************************************************)
CONSTANTS Trays

VARIABLES
    face,    \* what each tray shows
    windows  \* open dashboards: whose, and whether they were given a token

vars == <<face, windows>>

\* "plain": no auth configured; "out" and "in": signed out and in;
\* "signing": signed out, with the login window up.
Faces == {"off", "plain", "out", "signing", "in"}

TypeOK ==
    /\ face \in [Trays -> Faces]
    /\ windows \subseteq [tray : Trays, token : BOOLEAN]

Init ==
    /\ face = [t \in Trays |-> "off"]
    /\ windows = {}

Show(t, f) ==
    /\ face' = [face EXCEPT ![t] = f]
    /\ UNCHANGED windows

Start(t) == face[t] = "off" /\ \E f \in {"plain", "out", "in"} : Show(t, f)

Stop(t) == face[t] # "off" /\ Show(t, "off")

BeginSignIn(t) == face[t] = "out" /\ Show(t, "signing")

EndSignIn(t) == face[t] = "signing" /\ \E f \in {"out", "in"} : Show(t, f)

SignOut(t) == face[t] = "in" /\ Show(t, "out")

Open(t) ==
    /\ face[t] \in {"plain", "in"}
    /\ windows' = windows \cup {[tray |-> t, token |-> face[t] = "in"]}
    /\ UNCHANGED face

Close ==
    /\ \E w \in windows : windows' = windows \ {w}
    /\ UNCHANGED face

Next ==
    \/ \E t \in Trays :
         \/ Start(t) \/ Stop(t) \/ BeginSignIn(t) \/ EndSignIn(t)
         \/ SignOut(t) \/ Open(t)
    \/ Close

Spec == Init /\ [][Next]_vars
=============================================================================
