------------------------------- MODULE Keypair -------------------------------
(***************************************************************************)
(* The ed25519 key of the keypair fallback (auth_keypair.go,               *)
(* keypair_windows.go, main.go): sign-in windows and `--print-pubkey` runs *)
(* each look for the key in the Credential Manager, make one on a miss and *)
(* store it, and then sign or print with the key they hold in memory.  The *)
(* lookup and the store are two calls, and nothing locks the entry.        *)
(***************************************************************************)
EXTENDS Naturals

CONSTANTS
    Windows,  \* --sign-in processes whose keypair button is used
    Gated,    \* those with auth.gateway in their config
    Printers, \* --print-pubkey runs
    Issuers,  \* auth.issuer of the configs in use
    IssuerOf, \* the one in each process's config
    Default,  \* the account of a config without an issuer
    Faults,   \* what may fail: "config", "read", "generate", "write", "sign",
              \* "gateway"
    MaxTries, \* bound: lookups per process
    None,     \* no key
    Corrupt   \* a blob that is not 64 bytes long

Processes == Windows \cup Printers
Accounts == Issuers \cup {Default}

\* A key is told apart by who generated it, and in which try.
Keys == [by : Processes, try : 1 .. MaxTries]

ASSUME KeypairAssumption ==
    /\ IssuerOf \in [Processes -> Issuers]
    /\ Windows \cap Printers = {}
    /\ Gated \subseteq Windows
    /\ Default \notin Issuers
    /\ Faults \subseteq {"config", "read", "generate", "write", "sign", "gateway"}
    /\ MaxTries \in Nat
    /\ None \notin Keys /\ Corrupt \notin Keys /\ None # Corrupt

VARIABLES
    entry,   \* per account: no key, a blob of the wrong length, or a key
    op,      \* what each process is about to do, see Steps
    account, \* keypairAccountFor the config the process has read
    key,     \* the key in the process's memory
    tries,   \* lookups of each process
    stored,  \* per account: keys ever stored (history)
    used     \* per account: keys printed or signed with (history)

vars == <<entry, op, account, key, tries, stored, used>>

\* "idle": the window waits for a click.
Steps == {"off", "idle", "get", "set", "use", "post"}

TypeOK ==
    /\ entry \in [Accounts -> {None, Corrupt} \cup Keys]
    /\ op \in [Processes -> Steps]
    /\ account \in [Processes -> Accounts]
    /\ key \in [Processes -> {None} \cup Keys]
    /\ tries \in [Processes -> 0 .. MaxTries]
    /\ stored \in [Accounts -> SUBSET Keys]
    /\ used \in [Accounts -> SUBSET Keys]
    /\ \A p \in Processes : key[p] # None <=> op[p] \in {"set", "use", "post"}

\* May the operation succeed, may it fail?
Outcomes(operation) == IF operation \in Faults THEN BOOLEAN ELSE {TRUE}

Init ==
    /\ entry \in [Accounts -> {None, Corrupt}]
    /\ op = [p \in Processes |-> "off"]
    /\ account = IssuerOf
    /\ key = [p \in Processes |-> None]
    /\ tries = [p \in Processes |-> 0]
    /\ stored = [a \in Accounts |-> {}]
    /\ used = [a \in Accounts |-> {}]

-----------------------------------------------------------------------------

\* loadOrCreateKeypair is entered.
Look(p) ==
    /\ tries[p] < MaxTries
    /\ tries' = [tries EXCEPT ![p] = @ + 1]
    /\ op' = [op EXCEPT ![p] = "get"]

\* runSignIn comes up only with an issuer in its config.
Open(w) ==
    /\ op[w] = "off"
    /\ op' = [op EXCEPT ![w] = "idle"]
    /\ account' = [account EXCEPT ![w] = IssuerOf[w]]
    /\ UNCHANGED <<entry, key, tries, stored, used>>

\* The button; after an error it can be clicked again.  Without a gateway to
\* post to, runKeypair shows an error before it looks for the key.
Click(w) ==
    /\ op[w] = "idle"
    /\ IF w \in Gated THEN Look(w) ELSE UNCHANGED <<op, tries>>
    /\ UNCHANGED <<entry, account, key, stored, used>>

\* printPubkeyAndExit: a config that cannot be read stands for an empty one.
PrintPubkey(p) ==
    /\ op[p] = "off"
    /\ Look(p)
    /\ \E readable \in Outcomes("config") :
         account' = [account EXCEPT ![p] = IF readable THEN IssuerOf[p] ELSE Default]
    /\ UNCHANGED <<entry, key, stored, used>>

\* Where an error, or the end of the flow, leaves the process.
Rest(p) == IF p \in Windows THEN "idle" ELSE "off"

\* Mutant: the key stays in memory.
ForgetsNothing(p, step) ==
    /\ op' = [op EXCEPT ![p] = step]
    /\ UNCHANGED key

Drop(p, step) ==
    /\ op' = [op EXCEPT ![p] = step]
    /\ key' = [key EXCEPT ![p] = None]

Hold(p, k, step) ==
    /\ op' = [op EXCEPT ![p] = step]
    /\ key' = [key EXCEPT ![p] = k]

Fresh(p) == [by |-> p, try |-> tries[p]]

\* Mutant: a failed read counts as a miss, as it does for the session token.
GetOrMiss(p) ==
    /\ op[p] = "get"
    /\ \E readable \in Outcomes("read") :
         IF readable /\ entry[account[p]] = Corrupt THEN Drop(p, Rest(p))
         ELSE IF readable /\ entry[account[p]] # None
         THEN Hold(p, entry[account[p]], "use")
         ELSE Hold(p, Fresh(p), "set")
    /\ UNCHANGED <<entry, account, tries, stored, used>>

\* store.Get: an error or a blob of the wrong length ends the flow, a miss
\* generates a key, which may fail, and a hit is used as it is.
Get(p) ==
    /\ op[p] = "get"
    /\ \E readable \in Outcomes("read"), made \in Outcomes("generate") :
         IF ~readable \/ entry[account[p]] = Corrupt THEN Drop(p, Rest(p))
         ELSE IF entry[account[p]] # None THEN Hold(p, entry[account[p]], "use")
         ELSE IF made THEN Hold(p, Fresh(p), "set")
         ELSE Drop(p, Rest(p))
    /\ UNCHANGED <<entry, account, tries, stored, used>>

\* Mutant: the key is used although it could not be stored.
SetBestEffort(p) ==
    /\ op[p] = "set"
    /\ \E written \in Outcomes("write") :
         /\ op' = [op EXCEPT ![p] = "use"]
         /\ IF written
            THEN /\ entry' = [entry EXCEPT ![account[p]] = key[p]]
                 /\ stored' = [stored EXCEPT ![account[p]] = @ \cup {key[p]}]
            ELSE UNCHANGED <<entry, stored>>
    /\ UNCHANGED <<account, key, tries, used>>

\* store.Set overwrites whatever is there by now.
Set(p) ==
    /\ op[p] = "set"
    /\ \E written \in Outcomes("write") :
         IF written
         THEN /\ op' = [op EXCEPT ![p] = "use"]
              /\ entry' = [entry EXCEPT ![account[p]] = key[p]]
              /\ stored' = [stored EXCEPT ![account[p]] = @ \cup {key[p]}]
              /\ UNCHANGED key
         ELSE Drop(p, Rest(p)) /\ UNCHANGED <<entry, stored>>
    /\ UNCHANGED <<account, tries, used>>

\* The public half goes to stdout, or an assertion is signed and posted.
Use(p) ==
    /\ op[p] = "use"
    /\ used' = [used EXCEPT ![account[p]] = @ \cup {key[p]}]
    /\ IF p \in Windows THEN op' = [op EXCEPT ![p] = "post"] /\ UNCHANGED key
                        ELSE Drop(p, "off")
    /\ UNCHANGED <<entry, account, tries, stored>>

\* SignAssertion failed: the error is shown and nothing is posted.
SignFails(w) ==
    /\ op[w] = "use"
    /\ "sign" \in Faults
    /\ Drop(w, "idle")
    /\ UNCHANGED <<entry, account, tries, stored, used>>

\* The gateway mints a token, which ends the window, or refuses: 404, another
\* status, an unreadable body, no id_token.
Answered(w) ==
    /\ op[w] = "post"
    /\ \E minted \in Outcomes("gateway") : Drop(w, IF minted THEN "off" ELSE "idle")
    /\ UNCHANGED <<entry, account, tries, stored, used>>

\* The window is closed, the run is killed: what is in memory is gone.
End(p) ==
    /\ op[p] # "off"
    /\ Drop(p, "off")
    /\ UNCHANGED <<entry, account, tries, stored, used>>

Next ==
    \/ \E w \in Windows : Open(w) \/ Click(w) \/ SignFails(w) \/ Answered(w)
    \/ \E p \in Printers : PrintPubkey(p)
    \/ \E p \in Processes : Get(p) \/ Set(p) \/ Use(p) \/ End(p)

Spec == Init /\ [][Next]_vars

-----------------------------------------------------------------------------

(***************************************************************************)
(* No assertion is signed and no public key is printed with a key that was *)
(* not stored before: what the operator registers on the gateway exists    *)
(* beyond the process (runKeypair and printPubkeyAndExit go on only after  *)
(* store.Set succeeded).                                                   *)
(***************************************************************************)
UsedWasStored == \A a \in Accounts : used[a] \subseteq stored[a]

(***************************************************************************)
(* However often a process runs, fails and retries, it puts at most one    *)
(* key of its own under an account: a key is lost to a rival that looked   *)
(* before it was there, never to a retry (loadOrCreateKeypair generates on *)
(* a genuine miss only).                                                   *)
(***************************************************************************)
OneKeyEach ==
    \A a \in Accounts : \A k, l \in stored[a] : k.by = l.by => k = l

\* An account has a key and nobody is between a miss and the store.
Settled(a) ==
    /\ entry[a] \in Keys
    /\ \A p \in Processes : ~(account[p] = a /\ op[p] = "set")

(***************************************************************************)
(* Once an account is settled it stays so, with the same key: no later     *)
(* launch, failing read, retry or crash replaces the key the operator has  *)
(* registered.  Two first uses at the same moment are the only way to lose *)
(* one.                                                                    *)
(***************************************************************************)
SettledKeyStays ==
    [][\A a \in Accounts : Settled(a) => Settled(a)' /\ entry'[a] = entry[a]]_vars
=============================================================================
