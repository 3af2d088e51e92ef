---------------------------- MODULE MCTrayProcess ----------------------------
(***************************************************************************)
(* Instances of TrayProcess: mesh configs of up to two peers.              *)
(***************************************************************************)
EXTENDS TrayProcess

CONSTANTS k1, k2, s1, h1, n1, n2, ip1, a, b

Entry(keys) ==
    {[pub |-> k, psk |-> s, endpoint |-> r[1], keepalive |-> r[2], allowed |-> ns] :
       k \in keys, s \in {Unset, s1}, r \in {<<Unset, -1>>, <<h1, 25>>},
       ns \in {<<n1>>, <<n1, n2>>}}

Good == [pub |-> k1, psk |-> Unset, endpoint |-> h1, keepalive |-> 0,
         allowed |-> <<n1>>]

\* One field of an entry is not what the device, or the renderer, takes.
Bad == {[Good EXCEPT !.pub = NotBase64], [Good EXCEPT !.pub = TooShort],
        [Good EXCEPT !.pub = Unset], [Good EXCEPT !.psk = NotBase64],
        [Good EXCEPT !.psk = TooShort], [Good EXCEPT !.endpoint = NotAnIP],
        [Good EXCEPT !.keepalive = 65536], [Good EXCEPT !.allowed = <<NotAnIP>>]}

Address == {ip1, Unset, NotAnIP}

Mesh(private, addresses, peers) ==
    [private |-> private, addresses |-> addresses, dns |-> <<>>, peers |-> peers]

MeshConfigs ==
    {Mesh(k2, <<>>, <<p, q>>) : p \in Entry({k1}), q \in Entry({k1, k2})}
    \cup {Mesh(k2, <<>>, <<Good, p>>) : p \in Bad}
    \cup {Mesh(k, <<>>, <<Good>>) : k \in {k2, Unset, NotBase64, TooShort}}
    \cup {Mesh(k2, <<s, t>>, <<>>) : s, t \in Address}
=============================================================================
