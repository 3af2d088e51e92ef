---------------------------- MODULE KeypairProofs ----------------------------
(***************************************************************************)
(* Proofs about Keypair, for any number of windows, printers and accounts. *)
(***************************************************************************)
EXTENDS Keypair, TLAPS

\* A key that waits to be stored is the process's own, and its account has none
\* of this process yet.
OwnInHand ==
    \A p \in Processes : op[p] = "set" =>
      key[p].by = p /\ \A k \in stored[account[p]] : k.by # p

\* A key in use was stored.
UseBacked ==
    \A p \in Processes : op[p] \in {"use", "post"} => key[p] \in stored[account[p]]

\* An entry is the last key stored; before the first there is none.
EntryBacked ==
    \A a \in Accounts : IF entry[a] \in Keys THEN entry[a] \in stored[a]
                                             ELSE stored[a] = {}

Counted == \A p \in Processes : op[p] = "get" => tries[p] \in 1 .. MaxTries

KeypairInv ==
    /\ TypeOK /\ Counted
    /\ OwnInHand /\ UseBacked /\ EntryBacked
    /\ UsedWasStored /\ OneKeyEach

LEMMA InitKeypairInv == Init => KeypairInv
<1> SUFFICES ASSUME Init PROVE KeypairInv
  OBVIOUS
<1>1. \A p \in Processes : op[p] = "off" /\ key[p] = None
  BY DEF Init
<1>2. \A a \in Accounts : entry[a] \in {None, Corrupt} /\ stored[a] = {} /\ used[a] = {}
  BY DEF Init
<1>3. account \in [Processes -> Accounts]
  BY KeypairAssumption DEF Init, Accounts
<1>4. TypeOK
  BY <1>1, <1>3, KeypairAssumption DEF Init, TypeOK, Steps
<1>5. EntryBacked
  BY <1>2, KeypairAssumption DEF EntryBacked
<1> QED
  BY <1>1, <1>2, <1>4, <1>5 DEF KeypairInv, Counted, OwnInHand, UseBacked,
     UsedWasStored, OneKeyEach

\* A step of p that stores nothing, prints nothing and leaves p without a key.
LEMMA KeepsEmptyHanded ==
    ASSUME KeypairInv, NEW p \in Processes, NEW s \in {"off", "idle", "get"},
           op' = [op EXCEPT ![p] = s], key' = [key EXCEPT ![p] = None],
           tries' \in [Processes -> 0 .. MaxTries],
           s = "get" => tries'[p] \in 1 .. MaxTries,
           \A q \in Processes \ {p} : tries'[q] = tries[q],
           account' \in [Processes -> Accounts],
           \A q \in Processes \ {p} : account'[q] = account[q],
           UNCHANGED <<entry, stored, used>>
    PROVE  KeypairInv'
<1> USE DEF KeypairInv
<1>1. op'[p] = s /\ \A q \in Processes \ {p} : op'[q] = op[q] /\ key'[q] = key[q]
  BY DEF TypeOK
<1>2. TypeOK'
  BY <1>1 DEF TypeOK, Steps
<1>3. Counted' /\ OwnInHand' /\ UseBacked'
  BY <1>1 DEF Counted, OwnInHand, UseBacked
<1>4. EntryBacked' /\ UsedWasStored' /\ OneKeyEach'
  BY DEF EntryBacked, UsedWasStored, OneKeyEach
<1> QED
  BY <1>2, <1>3, <1>4

\* Drop is such a step.
LEMMA KeepsDrop ==
    ASSUME KeypairInv, NEW p \in Processes, NEW s \in {"off", "idle"}, Drop(p, s),
           UNCHANGED <<entry, account, tries, stored, used>>
    PROVE  KeypairInv'
BY KeepsEmptyHanded DEF Drop, KeypairInv, TypeOK

\* Entering loadOrCreateKeypair with nothing in hand.
LEMMA KeepsLook ==
    ASSUME KeypairInv, NEW p \in Processes, op[p] \in {"off", "idle"}, Look(p),
           account' \in [Processes -> Accounts],
           \A q \in Processes \ {p} : account'[q] = account[q],
           UNCHANGED <<entry, key, stored, used>>
    PROVE  KeypairInv'
<1>1. key' = [key EXCEPT ![p] = None]
  BY DEF KeypairInv, TypeOK
<1>2. tries' \in [Processes -> 0 .. MaxTries] /\ tries'[p] \in 1 .. MaxTries
  BY KeypairAssumption DEF Look, KeypairInv, TypeOK
<1> QED
  BY <1>1, <1>2, KeepsEmptyHanded DEF Look, KeypairInv, TypeOK

LEMMA FreshIsKey ==
    ASSUME KeypairInv, NEW p \in Processes, op[p] = "get"
    PROVE  Fresh(p) \in Keys
BY DEF KeypairInv, Counted, Fresh, Keys

LEMMA KeepsGet ==
    ASSUME KeypairInv, NEW p \in Processes, Get(p)
    PROVE  KeypairInv'
<1> USE DEF KeypairInv
<1> DEFINE e == entry[account[p]]
<1>1. account[p] \in Accounts /\ e \in {None, Corrupt} \cup Keys
  BY DEF TypeOK
<1>2. CASE Drop(p, Rest(p))
  BY <1>2, KeepsDrop DEF Get, Rest
<1>3. CASE e = None /\ Hold(p, Fresh(p), "set")
  <2>1. op'[p] = "set" /\ key'[p] = Fresh(p) /\ Fresh(p) \in Keys
    BY <1>3, FreshIsKey DEF Get, Hold, TypeOK
  <2>2. \A q \in Processes \ {p} : op'[q] = op[q] /\ key'[q] = key[q]
    BY <1>3 DEF Hold, TypeOK
  <2>3. stored[account[p]] = {}
    BY <1>1, <1>3, KeypairAssumption DEF EntryBacked
  <2>4. TypeOK'
    BY <1>3, <2>1, <2>2, KeypairAssumption DEF Get, Hold, TypeOK, Steps
  <2>5. Fresh(p).by = p
    BY DEF Fresh
  <2> QED
    BY <2>1, <2>2, <2>3, <2>4, <2>5 DEF Get, Counted, OwnInHand, UseBacked,
       EntryBacked, UsedWasStored, OneKeyEach
<1>4. CASE e \in Keys /\ Hold(p, e, "use")
  <2>1. op'[p] = "use" /\ key'[p] = e
    BY <1>4 DEF Hold, TypeOK
  <2>2. \A q \in Processes \ {p} : op'[q] = op[q] /\ key'[q] = key[q]
    BY <1>4 DEF Hold, TypeOK
  <2>3. e \in stored[account[p]]
    BY <1>1, <1>4 DEF EntryBacked
  <2>4. TypeOK'
    BY <1>4, <2>1, <2>2, KeypairAssumption DEF Get, Hold, TypeOK, Steps
  <2> QED
    BY <2>1, <2>2, <2>3, <2>4 DEF Get, Counted, OwnInHand, UseBacked,
       EntryBacked, UsedWasStored, OneKeyEach
<1> QED
  BY <1>1, <1>2, <1>3, <1>4 DEF Get

LEMMA KeepsSet ==
    ASSUME KeypairInv, NEW p \in Processes, Set(p)
    PROVE  KeypairInv'
<1> USE DEF KeypairInv
<1> DEFINE a == account[p]
<1>1. CASE Drop(p, Rest(p)) /\ UNCHANGED <<entry, stored>>
  BY <1>1, KeepsDrop DEF Set, Rest
<1>2. CASE /\ op' = [op EXCEPT ![p] = "use"]
           /\ entry' = [entry EXCEPT ![a] = key[p]]
           /\ stored' = [stored EXCEPT ![a] = @ \cup {key[p]}]
           /\ UNCHANGED key
  <2>1. a \in Accounts /\ key[p] \in Keys /\ key[p].by = p
    BY KeypairAssumption DEF Set, TypeOK, OwnInHand
  <2>2. op'[p] = "use" /\ \A q \in Processes \ {p} : op'[q] = op[q]
    BY <1>2 DEF TypeOK
  <2>3. /\ entry'[a] = key[p] /\ stored'[a] = stored[a] \cup {key[p]}
        /\ \A b \in Accounts \ {a} : entry'[b] = entry[b] /\ stored'[b] = stored[b]
    BY <1>2, <2>1 DEF TypeOK
  <2>4. TypeOK'
    BY <1>2, <2>1, <2>2, KeypairAssumption DEF Set, TypeOK, Steps
  <2>5. Counted'
    BY <2>2 DEF Set, Counted
  <2>6. OwnInHand'
    BY <1>2, <2>1, <2>2, <2>3 DEF Set, OwnInHand, TypeOK
  <2>7. UseBacked'
    BY <1>2, <2>1, <2>2, <2>3 DEF Set, UseBacked, TypeOK
  <2>8. EntryBacked'
    BY <2>1, <2>3 DEF EntryBacked
  <2>9. UsedWasStored'
    BY <2>3 DEF Set, UsedWasStored
  <2>10. OneKeyEach'
    BY <2>1, <2>3 DEF Set, OneKeyEach, OwnInHand
  <2> QED
    BY <2>4, <2>5, <2>6, <2>7, <2>8, <2>9, <2>10
<1> QED
  BY <1>1, <1>2 DEF Set

LEMMA KeepsUse ==
    ASSUME KeypairInv, NEW p \in Processes, Use(p)
    PROVE  KeypairInv'
<1> USE DEF KeypairInv
<1> DEFINE a == account[p]
<1>1. a \in Accounts /\ key[p] \in Keys /\ key[p] \in stored[a]
  BY KeypairAssumption DEF Use, TypeOK, UseBacked
<1>2. /\ used'[a] = used[a] \cup {key[p]}
      /\ \A b \in Accounts \ {a} : used'[b] = used[b]
      /\ used' \in [Accounts -> SUBSET Keys]
  BY <1>1 DEF Use, TypeOK
<1>3. PICK s \in {"off", "post"} :
        /\ op' = [op EXCEPT ![p] = s]
        /\ key' = IF s = "off" THEN [key EXCEPT ![p] = None] ELSE key
  BY DEF Use, Drop
<1>4. op'[p] = s /\ \A q \in Processes \ {p} : op'[q] = op[q] /\ key'[q] = key[q]
  BY <1>3 DEF TypeOK
<1>5. s = "post" => key'[p] = key[p]
  BY <1>3
<1>6. TypeOK'
  BY <1>1, <1>2, <1>3, <1>4, KeypairAssumption DEF Use, TypeOK, Steps
<1>7. Counted' /\ OwnInHand' /\ UseBacked'
  BY <1>1, <1>4, <1>5 DEF Use, Counted, OwnInHand, UseBacked
<1>8. EntryBacked' /\ UsedWasStored' /\ OneKeyEach'
  BY <1>1, <1>2 DEF Use, EntryBacked, UsedWasStored, OneKeyEach
<1> QED
  BY <1>6, <1>7, <1>8

LEMMA KeypairStep == KeypairInv /\ [Next]_vars => KeypairInv'
<1> SUFFICES ASSUME KeypairInv, [Next]_vars PROVE KeypairInv'
  OBVIOUS
<1>1. ASSUME NEW w \in Windows, Open(w) PROVE KeypairInv'
  <2>1. w \in Processes /\ key' = [key EXCEPT ![w] = None]
    BY <1>1 DEF Open, Processes, KeypairInv, TypeOK
  <2>2. /\ account' \in [Processes -> Accounts]
        /\ \A q \in Processes \ {w} : account'[q] = account[q]
    BY <1>1, <2>1, KeypairAssumption DEF Open, Accounts, KeypairInv, TypeOK
  <2> QED
    BY <1>1, <2>1, <2>2, KeepsEmptyHanded DEF Open, KeypairInv, TypeOK
<1>6. CASE UNCHANGED vars
  BY <1>6 DEF vars, KeypairInv, TypeOK, Counted, OwnInHand, UseBacked,
              EntryBacked, UsedWasStored, OneKeyEach
<1>2. ASSUME NEW w \in Windows, Click(w) PROVE KeypairInv'
  <2>1. CASE Look(w)
    BY <1>2, <2>1, KeepsLook DEF Click, Processes, KeypairInv, TypeOK
  <2>2. CASE UNCHANGED <<op, tries>>
    BY <1>2, <2>2, <1>6 DEF Click, vars
  <2> QED
    BY <1>2, <2>1, <2>2 DEF Click
<1>3. ASSUME NEW w \in Windows, SignFails(w) \/ Answered(w) PROVE KeypairInv'
  BY <1>3, KeepsDrop DEF SignFails, Answered, Processes
<1>4. ASSUME NEW p \in Printers, PrintPubkey(p) PROVE KeypairInv'
  <2>1. p \in Processes
    BY DEF Processes
  <2>2. /\ account' \in [Processes -> Accounts]
        /\ \A q \in Processes \ {p} : account'[q] = account[q]
    <3>1. PICK a \in Accounts : account' = [account EXCEPT ![p] = a]
      BY <1>4, <2>1, KeypairAssumption DEF PrintPubkey, Accounts
    <3> QED
      BY <3>1 DEF KeypairInv, TypeOK
  <2> QED
    BY <1>4, <2>1, <2>2, KeepsLook DEF PrintPubkey
<1>5. ASSUME NEW p \in Processes, End(p) PROVE KeypairInv'
  BY <1>5, KeepsDrop DEF End
<1> QED
  BY <1>1, <1>2, <1>3, <1>4, <1>5, <1>6, KeepsGet, KeepsSet, KeepsUse DEF Next

LEMMA AlwaysKeypairInv == Spec => []KeypairInv
<1>1. Init => KeypairInv
  BY InitKeypairInv
<1>2. KeypairInv /\ [Next]_vars => KeypairInv'
  BY KeypairStep
<1> QED
  BY <1>1, <1>2, PTL DEF Spec

\* A process has a key in memory exactly while it stores or uses it, and every
\* entry is empty, of the wrong length or a key of one of the processes.
THEOREM KeypairTyped == Spec => []TypeOK
<1>1. KeypairInv => TypeOK
  BY DEF KeypairInv
<1> QED
  BY <1>1, AlwaysKeypairInv, PTL

\* Whatever is printed or signed with was stored first.
THEOREM OnlyStoredKeysAreUsed == Spec => []UsedWasStored
<1>1. KeypairInv => UsedWasStored
  BY DEF KeypairInv
<1> QED
  BY <1>1, AlwaysKeypairInv, PTL

\* No process stores two keys of its own under one account, however many times
\* it fails and is retried.
THEOREM RetriesKeepTheKey == Spec => []OneKeyEach
<1>1. KeypairInv => OneKeyEach
  BY DEF KeypairInv
<1> QED
  BY <1>1, AlwaysKeypairInv, PTL

LEMMA SettledStep ==
    ASSUME KeypairInv, [Next]_vars, NEW a \in Accounts, Settled(a)
    PROVE  Settled(a)' /\ entry'[a] = entry[a]
<1> USE DEF KeypairInv
<1>1. entry[a] \in Keys /\ entry[a] # None /\ entry[a] # Corrupt
  BY KeypairAssumption DEF Settled
<1>2. ASSUME NEW p \in Processes, Set(p) PROVE Settled(a)' /\ entry'[a] = entry[a]
  <2>1. account[p] # a
    BY <1>2 DEF Set, Settled
  <2>2. entry'[a] = entry[a]
    BY <1>2, <2>1 DEF Set, TypeOK
  <2>3. op'[p] # "set" /\ \A q \in Processes \ {p} : op'[q] = op[q]
    BY <1>2 DEF Set, Drop, Rest, TypeOK
  <2> QED
    BY <1>2, <2>2, <2>3 DEF Set, Settled
<1>3. ASSUME NEW p \in Processes, Get(p) PROVE Settled(a)' /\ entry'[a] = entry[a]
  <2>1. \A q \in Processes \ {p} : op'[q] = op[q]
    BY <1>3 DEF Get, Hold, Drop, TypeOK
  <2>2. CASE account[p] = a
    <3>1. op'[p] # "set"
      BY <1>1, <1>3, <2>2 DEF Get, Hold, Drop, Rest, TypeOK
    <3> QED
      BY <1>3, <2>1, <3>1 DEF Get, Settled
  <2>3. CASE account[p] # a
    BY <1>3, <2>1, <2>3 DEF Get, Settled
  <2> QED
    BY <2>2, <2>3
<1>4. ASSUME NEW p \in Processes, Use(p) \/ End(p) PROVE Settled(a)' /\ entry'[a] = entry[a]
  <2>1. op'[p] # "set" /\ \A q \in Processes \ {p} : op'[q] = op[q]
    BY <1>4 DEF Use, End, Drop, TypeOK
  <2> QED
    BY <1>4, <2>1 DEF Use, End, Settled
<1>5. ASSUME NEW p \in Processes,
             \/ Open(p) \/ Click(p) \/ SignFails(p) \/ Answered(p)
             \/ PrintPubkey(p)
      PROVE  Settled(a)' /\ entry'[a] = entry[a]
  <2>1. op'[p] # "set" /\ \A q \in Processes \ {p} : op'[q] = op[q]
    BY <1>5 DEF Open, Click, Look, SignFails, Answered, Drop, PrintPubkey, TypeOK
  <2>2. \A q \in Processes \ {p} : account'[q] = account[q]
    BY <1>5 DEF Open, Click, SignFails, Answered, PrintPubkey, TypeOK
  <2>3. UNCHANGED entry
    BY <1>5 DEF Open, Click, SignFails, Answered, PrintPubkey
  <2> QED
    BY <2>1, <2>2, <2>3 DEF Settled
<1>6. CASE UNCHANGED vars
  BY <1>6 DEF vars, Settled
<1> QED
  BY <1>2, <1>3, <1>4, <1>5, <1>6 DEF Next, Processes

\* Once an account has a key and nobody is about to store another, it keeps that
\* key for good.
THEOREM RegisteredKeyStays == Spec => SettledKeyStays
<1>1. KeypairInv /\ [Next]_vars =>
        [\A a \in Accounts : Settled(a) => Settled(a)' /\ entry'[a] = entry[a]]_vars
  BY SettledStep
<1> QED
  BY <1>1, AlwaysKeypairInv, PTL DEF Spec, SettledKeyStays
=============================================================================
