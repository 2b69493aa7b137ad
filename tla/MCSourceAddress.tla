-------------------------- MODULE MCSourceAddress --------------------------
EXTENDS SourceAddress, TLC

Address(v, net, n, s) == [version |-> v, network |-> net, number |-> n, scope |-> s]

\* The HGW's lease, with all that a call needs.
MCLease(prefix) ==
    [interface  |-> "wan",
     sipServers |-> <<Address(6, "onlink", 9, "global")>>,
     prefix     |-> prefix,
     opts       |-> [extension |-> "3", domain |-> "ntt"]]

MCLease4 == [interface |-> "wan", routers |-> <<Address(4, "lan", 9, "private")>>,
             ipAddress |-> <<Address(4, "lan", 8, "private")>>]

\* An address on the link to the HGW, which is global and not delegated.
MCOthers == {Address(4, "lan", 7, "private"), Address(6, "link", 7, "local"),
             Address(6, "onlink", 7, "global")}

Plain ==
    [peerNumber |-> "0312345678", answer |-> FALSE, registerOnly |-> FALSE,
     command |-> <<>>, transport |-> "ipv4", sipServer |-> None, registrar4 |-> None,
     selfV4 |-> None, domain |-> None, extension |-> None, interface |-> "wan",
     sourceV6 |-> None, bindDevice |-> None, sipPort |-> 5060, bandwidth |-> None,
     mediaRoute |-> "auto", mediaGateway |-> None, tun |-> None]

\* As it is meant to be run, and with options that make do without lease6.
MCOptions ==
    {Plain,
     [Plain EXCEPT !.sipServer = Address(6, "onlink", 9, "global"), !.domain = "ntt",
                   !.extension = "3"]}

Symmetric == Permutations(Delegated)
=============================================================================
