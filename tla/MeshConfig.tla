------------------------------ MODULE MeshConfig ------------------------------
(***************************************************************************)
(* The pure part of wgmesh.go: parseAddrs, and uapiConfig, which renders a *)
(* WGConfig as the lines of wireguard-go's configuration protocol.  Beside *)
(* it stand what the device makes of such lines, one after the other, and  *)
(* what the config means as a whole.                                       *)
(***************************************************************************)
EXTENDS Integers, SequencesExt

CONSTANTS
    Peers,     \* public and private keys of 32 bytes, in base64
    Secrets,   \* preshared keys of 32 bytes, in base64
    Hosts,     \* endpoints IP:port
    Networks,  \* CIDRs
    Unset,     \* an empty string
    NotBase64, \* a key with a character outside the alphabet
    TooShort,  \* base64 of fewer than 32 bytes
    NotAnIP,   \* an address or endpoint that is a name
    Rejected   \* no device configuration

Text == Peers \cup Secrets \cup Hosts \cup Networks
        \cup {Unset, NotBase64, TooShort, NotAnIP}

WGPeer == [pub : Text, psk : Text, endpoint : Text, keepalive : Int, allowed : Seq(Text)]

\* What encoding/json makes of the file, as far as uapiConfig reads it.
IsWGConfig(c) == c.private \in Text /\ c.peers \in Seq(WGPeer)

\* A line: the field, and the value it sets.
Opt(present, field, value) == IF present THEN <<[set |-> field, to |-> value]>> ELSE <<>>

\* Mutant: the preshared key is written before the peer is opened.
PeerLinesSecretFirst(p) ==
    Opt(p.psk # Unset, "preshared_key", p.psk)
    \o Opt(TRUE, "public_key", p.pub)
    \o Opt(p.endpoint # Unset, "endpoint", p.endpoint)
    \o Opt(p.keepalive > 0, "persistent_keepalive_interval", p.keepalive)
    \o [i \in DOMAIN p.allowed |-> [set |-> "allowed_ip", to |-> p.allowed[i]]]

PeerLines(p) ==
    Opt(TRUE, "public_key", p.pub)
    \o Opt(p.psk # Unset, "preshared_key", p.psk)
    \o Opt(p.endpoint # Unset, "endpoint", p.endpoint)
    \o Opt(p.keepalive > 0, "persistent_keepalive_interval", p.keepalive)
    \o [i \in DOMAIN p.allowed |-> [set |-> "allowed_ip", to |-> p.allowed[i]]]

\* b64ToHex fails for one of the keys; an empty private or public key decodes
\* to nothing and is written all the same.
Unrenderable(c) ==
    \/ c.private = NotBase64
    \/ \E i \in DOMAIN c.peers : NotBase64 \in {c.peers[i].pub, c.peers[i].psk}

uapiConfig(c) ==
    Opt(TRUE, "private_key", c.private)
    \o FlattenSeq([i \in DOMAIN c.peers |-> PeerLines(c.peers[i])])

\* parseAddrs returns no error: blank entries are skipped, a mask is cut off.
Parsable(ss) == \A i \in DOMAIN ss : ss[i] # NotAnIP

-----------------------------------------------------------------------------
(* wireguard-go: a public_key line opens a peer, which the lines after it  *)
(* configure; the last value of a field stands, and a network belongs to   *)
(* the peer that claimed it last.                                          *)

MaxKeepalive == 65535 \* seconds, in 16 bits

Takes == [private_key |-> Peers, public_key |-> Peers, preshared_key |-> Secrets,
          endpoint |-> Hosts, persistent_keepalive_interval |-> 0 .. MaxKeepalive,
          allowed_ip |-> Networks]

IpcSet(lines) ==
    LET At(field) == {i \in DOMAIN lines : lines[i].set = field}
        Opened(i) == {j \in At("public_key") : j <= i}
        Peer(i) == lines[Max(Opened(i))].to
        Latest(which, default) == IF which = {} THEN default ELSE lines[Max(which)].to
        Value(k, field, default) == Latest({i \in At(field) : Peer(i) = k}, default)
        Values(field) == {lines[i].to : i \in At(field)}
    IN  IF \E i \in DOMAIN lines :
             \/ lines[i].to \notin Takes[lines[i].set]
             \/ lines[i].set # "private_key" /\ Opened(i) = {}
        THEN Rejected
        ELSE [private |-> Latest(At("private_key"), Unset),
              peer |-> [k \in Values("public_key") |->
                [psk |-> Value(k, "preshared_key", Unset),
                 endpoint |-> Value(k, "endpoint", Unset),
                 keepalive |-> Value(k, "persistent_keepalive_interval", 0)]],
              route |-> [n \in Values("allowed_ip") |->
                Peer(Max({i \in At("allowed_ip") : lines[i].to = n}))]]

-----------------------------------------------------------------------------
(* The meaning of a config, without going through its rendering.           *)

\* The value the last of the peers in `which` gives to a field.
LastSet(c, which, field, default) ==
    IF which = {} THEN default ELSE c.peers[Max(which)][field]

\* Entries with the same public key are one peer.
Intended(c) ==
    LET Of(k) == {i \in DOMAIN c.peers : c.peers[i].pub = k}
        Claims(n) == {i \in DOMAIN c.peers : n \in Range(c.peers[i].allowed)}
    IN  [private |-> c.private,
         peer |-> [k \in {c.peers[i].pub : i \in DOMAIN c.peers} |->
           [psk |-> LastSet(c, {i \in Of(k) : c.peers[i].psk # Unset}, "psk", Unset),
            endpoint |-> LastSet(c, {i \in Of(k) : c.peers[i].endpoint # Unset},
                                 "endpoint", Unset),
            keepalive |-> LastSet(c, {i \in Of(k) : c.peers[i].keepalive > 0},
                                  "keepalive", 0)]],
         route |-> [n \in UNION {Range(c.peers[i].allowed) : i \in DOMAIN c.peers} |->
           LastSet(c, Claims(n), "pub", Unset)]]

\* Every value is one the device takes.
Acceptable(c) ==
    /\ c.private \in Peers
    /\ \A i \in DOMAIN c.peers :
         LET p == c.peers[i] IN
         /\ p.pub \in Peers
         /\ p.psk \in Secrets \cup {Unset}
         /\ p.endpoint \in Hosts \cup {Unset}
         /\ p.keepalive <= MaxKeepalive
         /\ Range(p.allowed) \subseteq Networks
=============================================================================
