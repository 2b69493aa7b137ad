---------------------------- MODULE Provisioning ----------------------------
(***************************************************************************)
(* What a run is configured with: the leases, normalised (lease.go), the   *)
(* options over them, and the source addresses chosen from the interfaces  *)
(* (main.go).  Functions of their input; SourceAddress has the interface   *)
(* and the leases change between their calls.                              *)
(*                                                                         *)
(* An address is a record: its version, its network (what its prefix       *)
(* contains), its number in there, and its scope: "global", "private"      *)
(* (which an IPv4 source may be) or "local".                               *)
(***************************************************************************)
EXTENDS Texts, Naturals, Sequences

Is(address, version) == Given(address) /\ address.version = version

-----------------------------------------------------------------------------
(***************************************************************************)
(* Leases.  A lease is None when its file cannot be read.                  *)
(***************************************************************************)
\* The first of a list that is an address.
FirstAddr(list) ==
    LET good == SelectSeq(list, LAMBDA a : a # Bad)
    IN  IF good = <<>> THEN None ELSE good[1]

\* lease6: interface, sipServers (a list), prefix, opts (vendor options);
\* lease4: interface, routers, ipAddress (lists).
Build(lease6, lease4) ==
    LET of6(f) == IF Given(lease6) THEN lease6[f] ELSE None
        of4(f) == IF Given(lease4) THEN lease4[f] ELSE None
        first(list) == IF Given(list) THEN FirstAddr(list) ELSE None
        opts == of6("opts")
    IN  IF Bad \in {of6("prefix"), opts} THEN Failed
        ELSE [interface  |-> Else(of6("interface"), of4("interface")),
              sipServer  |-> first(of6("sipServers")),
              delegated  |-> of6("prefix"),
              extension  |-> IF Given(opts) THEN opts.extension ELSE None,
              domain     |-> IF Given(opts) THEN opts.domain ELSE None,
              registrar4 |-> first(of4("routers")),
              selfV4     |-> first(of4("ipAddress"))]

\* The version of the source, selfV4, is not looked at.
Validate(p) ==
    /\ \A f \in {"sipServer", "registrar4", "selfV4", "domain", "extension"} : Given(p[f])
    /\ ~Is(p.sipServer, 4)
    /\ Is(p.registrar4, 4)

-----------------------------------------------------------------------------
(***************************************************************************)
(* Options.  Those that set a field of the lease have its name.            *)
(***************************************************************************)
Overriding == {"sipServer", "registrar4", "selfV4", "domain", "extension", "interface"}

\* (Slip: an option only where the lease says nothing.)
ApplyDefaults(p, opt) ==
    IF Bad \in {opt[f] : f \in {"sipServer", "registrar4", "selfV4"}} THEN Failed
    ELSE [f \in DOMAIN p |-> IF f \in Overriding THEN Else(p[f], opt[f]) ELSE p[f]]

ApplyOverrides(p, opt) ==
    IF Bad \in {opt[f] : f \in {"sipServer", "registrar4", "selfV4"}} THEN Failed
    ELSE [f \in DOMAIN p |-> IF f \in Overriding THEN Else(opt[f], p[f]) ELSE p[f]]

-----------------------------------------------------------------------------
(***************************************************************************)
(* Source addresses.  The interfaces are records: name, up, addresses.     *)
(* The code takes the first fit in the kernel's order, which is any of the *)
(* fits; an empty set of results is an error.                              *)
(***************************************************************************)
SelectV4(addresses, reach) ==
    {a \in addresses : /\ a.version = 4 /\ a.scope # "local"
                       /\ Given(reach) => a.network = reach.network}

PickSourceV4(name, reach, interfaces) ==
    UNION {SelectV4(i.addresses, reach) : i \in {j \in interfaces : j.name = name /\ j.up}}

\* The interface's address before the lease's; an option before both.
ResolveSourceV4(opt, p, interfaces) ==
    LET picked == PickSourceV4(p.interface, p.registrar4, interfaces)
    IN  IF Given(opt.selfV4) \/ picked = {} THEN {p.selfV4} ELSE picked

\* (Slip: an address outside the prefix rather than none.)
PickAnyV6(name, within, interfaces) ==
    {a \in UNION {i.addresses : i \in interfaces} : a.version = 6 /\ a.scope = "global"}

PickSourceV6(name, within, interfaces) ==
    LET looked == {i \in interfaces : (Given(name) => i.name = name) /\ i.up}
    IN  {a \in UNION {i.addresses : i \in looked} :
            /\ a.version = 6 /\ a.scope = "global"
            /\ Given(within) => a.network = within}

ResolveSourceV6(opt, p, interfaces) ==
    IF ~Given(opt.sourceV6) THEN PickSourceV6(p.interface, p.delegated, interfaces)
    ELSE IF opt.sourceV6 # Bad /\ Is(opt.sourceV6, 6) THEN {opt.sourceV6} ELSE {}

-----------------------------------------------------------------------------
(***************************************************************************)
(* The rest of buildConfig.                                                *)
(***************************************************************************)
\* A number with the suffix "k", "m" or none; a zero is refused.
ParseBandwidth(b) ==
    IF b = None THEN 64
    ELSE IF b = Bad \/ b.n = 0 THEN Failed
    ELSE IF b.unit = "m" THEN 1000 * b.n ELSE b.n

ParseMediaRoute(r) ==
    IF r \in {"auto", None} THEN TRUE ELSE IF r = "off" THEN FALSE ELSE Failed

\* Each mode has what it needs, and no command without a tunnel.
ModeFits(opt) ==
    /\ opt.answer \/ opt.registerOnly \/ Given(opt.peerNumber)
    /\ ~(opt.registerOnly /\ opt.command # <<>>)

\* The texts that need only parse: the transport is one of two, the tun's
\* address, peer and routes are addresses and prefixes.
Readable(opt) ==
    /\ opt.transport \in {"ipv4", "ipv6"}
    /\ ParseBandwidth(opt.bandwidth) # Failed
    /\ ParseMediaRoute(opt.mediaRoute) # Failed
    /\ Bad \notin {opt.mediaGateway, opt.tun}

\* The configurations that can come of the options, the leases read and the
\* provisioning `p' made of them.  A port keeps its low 16 bits.
Configs(opt, p, sourceV6) ==
    IF ~ModeFits(opt) \/ ~Readable(opt) THEN {}
    ELSE {[domain       |-> p.domain,
           extension    |-> p.extension,
           registrar    |-> p.registrar4,
           proxy        |-> p.sipServer,
           localV4      |-> p.selfV4,
           localV6      |-> a,
           sipPort      |-> opt.sipPort % 65536,
           overV6       |-> opt.transport = "ipv6",
           bandwidth    |-> ParseBandwidth(opt.bandwidth),
           mediaRoute   |-> ParseMediaRoute(opt.mediaRoute),
           mediaGateway |-> Else(opt.mediaGateway, p.sipServer),
           bindDevice   |-> Else(opt.bindDevice, opt.interface)] : a \in sourceV6}

\* buildConfig while nothing changes under it.
BuildConfig(opt, lease6, lease4, interfaces) ==
    LET built == Build(lease6, lease4)
        over  == IF built = Failed THEN Failed ELSE ApplyOverrides(built, opt)
        withV4 == IF over = Failed THEN {}
                  ELSE {[over EXCEPT !.selfV4 = a] : a \in ResolveSourceV4(opt, over, interfaces)}
    IN  UNION {Configs(opt, p, ResolveSourceV6(opt, p, interfaces)) : p \in {q \in withV4 : Validate(q)}}

-----------------------------------------------------------------------------
(***************************************************************************)
(* What a configuration is to be.                                          *)
(***************************************************************************)
\* What the leases say, as the options name it.
InLeases(lease6, lease4) ==
    [interface  |-> Else(IF Given(lease6) THEN lease6.interface ELSE None,
                         IF Given(lease4) THEN lease4.interface ELSE None),
     sipServer  |-> IF Given(lease6) THEN FirstAddr(lease6.sipServers) ELSE None,
     domain     |-> IF Given(lease6) THEN lease6.opts.domain ELSE None,
     extension  |-> IF Given(lease6) THEN lease6.opts.extension ELSE None,
     registrar4 |-> IF Given(lease4) THEN FirstAddr(lease4.routers) ELSE None,
     selfV4     |-> IF Given(lease4) THEN FirstAddr(lease4.ipAddress) ELSE None]

\* Configuration c says what the options say and, where they are silent, what
\* the leases say; its proxy is reached by IPv6 and its registrar by IPv4;
\* from an address that some interface has, within the delegated prefix
\* (DESIGN.md:194), and from one in the registrar's network when the WAN
\* interface has one (main.go:444).
Sound(c, opt, lease6, lease4, interfaces) ==
    LET told(f) == Else(opt[f], InLeases(lease6, lease4)[f])
        there  == UNION {i.addresses : i \in {j \in interfaces : j.up}}
        onWan  == UNION {i.addresses : i \in {j \in interfaces : j.up /\ j.name = told("interface")}}
        nearby == {a \in onWan : /\ a.version = 4 /\ a.scope # "local"
                                 /\ a.network = c.registrar.network}
    IN  /\ c.proxy = told("sipServer") /\ c.proxy.version = 6
        /\ c.registrar = told("registrar4") /\ c.registrar.version = 4
        /\ c.domain = told("domain") /\ c.extension = told("extension")
        /\ Given(opt.selfV4) => c.localV4 = opt.selfV4
        /\ ~Given(opt.selfV4) =>
              c.localV4 \in IF nearby = {} THEN {told("selfV4")} ELSE nearby
        /\ Given(opt.sourceV6) => c.localV6 = opt.sourceV6
        /\ ~Given(opt.sourceV6) => c.localV6 \in there
        /\ ~Given(opt.sourceV6) /\ Given(lease6) /\ Given(lease6.prefix)
              => c.localV6.network = lease6.prefix
=============================================================================
