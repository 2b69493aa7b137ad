------------------------------ MODULE MCInputs ------------------------------
EXTENDS Inputs

CONSTANTS a1, a2

\* SDP: two addresses, a data medium, one refused, another medium.
MCLines ==
    {Connection(a) : a \in {a1, a2, Unspecified, Bad}}
    \union {Medium(TRUE, 5000), Medium(TRUE, 0), Medium(FALSE, 4000), Medium(FALSE, Bad)}
    \union {Bandwidth(128), Setup("passive")}

MCBodies == BoundedSeq(MCLines, 5)

MCOffers == [address : {a1, a2}, port : {1, 5000, 65535}, kbps : {0, 64},
             setup : {None, "active"}]

\* Vendor options: a label of one and of two bytes; a domain that ends in
\* its label, one compressed, one empty; an option no version knows, and one
\* with a value longer than a byte can say.
MCNames == {<<<<110>>>>, <<<<110>>, <<106, 112>>>>}

MCOptions ==
    {<<ClientMAC, <<2, 171>>>>, <<Extension, <<51>>>>, <<Extension, <<>>>>, <<300, <<7>>>>}
    \union {<<SIPDomain, EncodeName(n)>> : n \in MCNames}
    \union {<<SIPDomain, EncodeName(<<<<110>>>>) \o <<0>>>>}
    \union {<<SIPDomain, v>> : v \in {<<>>, <<3, 110>>, <<192, 4>>}}

MCSubs == BoundedSeq(MCOptions, 2) \union {<<<<300, [i \in 1 .. 260 |-> 1]>>, <<Extension, <<51>>>>>>}

\* Configurations.
Address(v, net, n, s) == [version |-> v, network |-> net, number |-> n, scope |-> s]

Hgw6 == Address(6, "onlink", 9, "global")
Hgw4 == Address(4, "lan", 9, "private")
Self4 == Address(4, "lan", 8, "private")
Self6 == Address(6, "delegated", 1, "global")

Plain ==
    [peerNumber |-> "0312345678", answer |-> FALSE, registerOnly |-> FALSE,
     command |-> <<>>, transport |-> "ipv4", sipServer |-> None, registrar4 |-> None,
     selfV4 |-> None, domain |-> None, extension |-> None, interface |-> None,
     sourceV6 |-> None, bindDevice |-> None, sipPort |-> 5060, bandwidth |-> None,
     mediaRoute |-> "auto", mediaGateway |-> None, tun |-> None]

Explicit == [Plain EXCEPT !.sipServer = Hgw6, !.registrar4 = Hgw4, !.selfV4 = Self4,
                          !.domain = "ntt", !.extension = "3", !.sourceV6 = Self6]

\* What one option may be instead.
Deviations ==
    [sipServer    |-> {None, Bad, Hgw4, Address(6, "other", 1, "global")},
     registrar4   |-> {None, Bad, Hgw6, Address(4, "other", 1, "global")},
     selfV4       |-> {None, Bad, Self6, Address(4, "other", 2, "global")},
     domain       |-> {None, "example"},
     extension    |-> {None, "4"},
     interface    |-> {"wan", "lan0"},
     sourceV6     |-> {None, Bad, Self4, Address(6, "other", 3, "global")},
     peerNumber   |-> {None},
     registerOnly |-> {TRUE},
     command      |-> {<<"ping">>},
     transport    |-> {"ipv6", "tcp"},
     sipPort      |-> {70000},
     bandwidth    |-> {Bad, [n |-> 0, unit |-> "k"], [n |-> 1, unit |-> "m"]},
     mediaRoute   |-> {"off", "on"},
     mediaGateway |-> {Bad, Hgw6},
     tun          |-> {Bad}]

Deviating(opts) ==
    UNION {{[o EXCEPT ![f] = v] : o \in opts, v \in Deviations[f]} : f \in DOMAIN Deviations}

OptionSets == LET base == {Plain, Explicit} IN Deviating(base \union Deviating(base))

Full6 == [interface |-> "wan", sipServers |-> <<Hgw6>>, prefix |-> "delegated",
          opts |-> [extension |-> "3", domain |-> "ntt"]]

Leases6 == {None, Full6,
            [Full6 EXCEPT !.sipServers = <<Bad, Hgw4>>],
            [Full6 EXCEPT !.prefix = None, !.interface = None]}

Full4 == [interface |-> "wan", routers |-> <<Hgw4>>, ipAddress |-> <<Self4>>]

Leases4 == {None, [Full4 EXCEPT !.ipAddress = <<Address(4, "lan", 6, "private")>>],
            [Full4 EXCEPT !.routers = <<Bad>>]}

\* The WAN interface, and another one with addresses as good as its own.
Wan == [name |-> "wan", up |-> TRUE,
        addresses |-> {Self4, Self6, Address(6, "onlink", 7, "global"),
                       Address(4, "other", 5, "global")}]
Lan == [name |-> "lan0", up |-> TRUE,
        addresses |-> {Address(4, "lan", 5, "private"), Address(6, "onlink", 6, "global")}]

MCRuns ==
    [opt : OptionSets, lease6 : Leases6, lease4 : Leases4,
     interfaces : {{Wan, Lan}, {[Wan EXCEPT !.up = FALSE], Lan}}]

\* Calls over up to two proxies, to and from a Contact of each kind.
Node(h, p) == [user |-> None, host |-> h, port |-> p]

MCCalls ==
    [role : {"caller", "callee"},
     path : {<<>>, <<Node("hgw", 5060)>>, <<Node("hgw", None), Node("net", 5070)>>,
             <<Node(Bad, 5060)>>, <<Node("hgw", 5060), Node(Bad, None)>>},
     target : {None, Node("far", 5060), Node("far", None), Node(Bad, 5060), Node("far", 70000)},
     tag : {None, "theirs"}, compact : BOOLEAN, folded : BOOLEAN, spare : {<<>>, <<"x">>}]

MCResponses ==
    [tag : {None, "theirs"}, contact : {None, Node("far", 5060)},
     require : {None, "100rel", "timer"}, rseq : {None, 1, 9}]
=============================================================================
