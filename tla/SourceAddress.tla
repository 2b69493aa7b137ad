--------------------------- MODULE SourceAddress ---------------------------
(***************************************************************************)
(* The IPv6 source address.  dhclient runs a script on each event of its   *)
(* lease: it writes the lease to a file and has the interface carry one    *)
(* address in the delegated prefix, of which it keeps a record.  ngntun    *)
(* reads the file when it starts (buildConfig), and the interface later.   *)
(* The script may be killed between any two of its commands, and each of   *)
(* its "ip" commands may fail.                                             *)
(*                                                                         *)
(* The script's address is known by its prefix, whose first /64 and the    *)
(* interface's MAC it is made of.                                          *)
(***************************************************************************)
EXTENDS Provisioning, FiniteSets

CONSTANTS
    Delegated,      \* the prefixes that are ever delegated
    Empty,          \* the record while the script rewrites it
    Lease(_),       \* the lease that delegates a prefix
    Lease4,         \* the DHCPv4 lease
    Others,         \* the interface's other addresses
    Interface,      \* its name
    Options,        \* the options ngntun is run with
    MaxFaults       \* bound on the faults

AddressIn(prefix) ==
    [version |-> 6, network |-> prefix, number |-> 1, scope |-> "global"]

\* None is no prefix, no lease and no address.  Whoever has the interface
\* carry other addresses takes them from other prefixes.
ASSUME SourceAssumption ==
    /\ IsFiniteSet(Delegated) /\ None \notin Delegated /\ Empty \notin Delegated
    /\ \A p \in Delegated :
          Lease(p) # None /\ Lease(p).prefix = p /\ AddressIn(p) # None
    /\ \A a \in Others : a # None /\ a.network \notin Delegated
    /\ MaxFaults \in Nat

VARIABLES
    skip,       \* NGNTUN_SKIP_ADDR is set
    script,     \* the script's next command, "idle" between events
    event,      \* the prefix of its event
    bound,      \* the prefix that dhclient holds
    file,       \* the prefix in lease6.json, None before there is one
    record,     \* the prefix in source-addr6
    attached,   \* the prefixes of the script's addresses on the interface
    faults,     \* scripts killed and deletions that failed
    ngntun,     \* "start", "read", "chosen", "failed"
    opt,        \* its options
    read,       \* the prefix in the lease it read
    source      \* the address chosen

hookVars == <<script, event, bound, file, record, attached, faults>>
ngnVars  == <<ngntun, opt, read, source>>
vars == <<skip, script, event, bound, file, record, attached, faults,
          ngntun, opt, read, source>>

Carried == {AddressIn(p) : p \in attached} \union Others

TypeOK ==
    /\ skip \in BOOLEAN
    /\ script \in {"idle", "write", "sync", "forget", "add", "truncate", "record",
                   "expire", "release"}
    /\ {event, bound, file, read} \subseteq Delegated \union {None}
    /\ record \in Delegated \union {None, Empty}
    /\ attached \subseteq Delegated
    /\ faults \in 0 .. MaxFaults
    /\ ngntun \in {"start", "read", "chosen", "failed"}
    /\ opt \in Options
    /\ source = None <=> ngntun # "chosen"

Init ==
    /\ skip \in BOOLEAN
    /\ script = "idle" /\ event = None
    /\ bound = None /\ file = None /\ record = None
    /\ attached = {} /\ faults = 0
    /\ ngntun = "start" /\ opt \in Options /\ read = None /\ source = None

-----------------------------------------------------------------------------
(***************************************************************************)
(* The script.                                                             *)
(***************************************************************************)
Goto(command) == script' = command

\* BOUND6, RENEW6, REBIND6, REBOOT6.
Bound(prefix) ==
    /\ script = "idle" /\ Goto("write")
    /\ event' = prefix /\ bound' = prefix
    /\ UNCHANGED <<skip, file, record, attached, faults, ngnVars>>

\* DEPREF6 and EXPIRE6, of the prefix held or of one held before.
Expired(prefix) ==
    /\ script = "idle" /\ Goto("expire")
    /\ event' = prefix
    /\ bound' = IF bound = prefix THEN None ELSE bound
    /\ UNCHANGED <<skip, file, record, attached, faults, ngnVars>>

\* RELEASE6 and STOP6.
Released ==
    /\ script = "idle" /\ Goto("release")
    /\ event' = None /\ bound' = None
    /\ UNCHANGED <<skip, file, record, attached, faults, ngnVars>>

\* write_json: the file is replaced as a whole.
WriteLease ==
    /\ script = "write"
    /\ Goto(IF skip THEN "idle" ELSE "sync")
    /\ file' = event
    /\ UNCHANGED <<skip, event, bound, record, attached, faults, ngnVars>>

Recorded == record \in Delegated

\* (Slips: an address recorded though it may not be one; the one recorded
\* before left where it is.)
SyncAlways ==
    /\ script = "sync" /\ Goto("add")
    /\ event' \in {event, None}
    /\ UNCHANGED <<skip, bound, file, record, attached, faults, ngnVars>>

SyncAdds ==
    /\ script = "sync" /\ Goto("add")
    /\ UNCHANGED <<skip, event, bound, file, record, attached, faults, ngnVars>>

\* "ip addr del": the address goes, or the command fails, and the script does
\* not ask which.
Delete(prefix) ==
    \/ attached' = attached \ {prefix} /\ UNCHANGED faults
    \/ /\ prefix \in attached /\ faults < MaxFaults
       /\ faults' = faults + 1
       /\ UNCHANGED attached

\* The address recorded goes unless it is the new one.  There is no new one
\* when eui64_addr cannot read the interface.
SyncAddr ==
    /\ script = "sync"
    /\ \E new \in {event, None} :
         /\ event' = new
         /\ IF Recorded /\ record # new
            THEN Goto("forget") /\ Delete(record)
            ELSE /\ Goto(IF Given(new) THEN "add" ELSE "idle")
                 /\ UNCHANGED <<attached, faults>>
    /\ UNCHANGED <<skip, bound, file, record, ngnVars>>

Forget ==
    /\ script = "forget"
    /\ Goto(IF Given(event) THEN "add" ELSE "idle")
    /\ record' = None
    /\ UNCHANGED <<skip, event, bound, file, attached, faults, ngnVars>>

\* The address is put on the interface, or "ip" fails.
AddAddr ==
    /\ script = "add"
    /\ \/ Goto("truncate") /\ attached' = attached \union {event}
       \/ Goto("idle") /\ UNCHANGED attached
    /\ UNCHANGED <<skip, event, bound, file, record, faults, ngnVars>>

\* The redirection empties the file before echo fills it.
Truncate ==
    /\ script = "truncate" /\ Goto("record")
    /\ record' = Empty
    /\ UNCHANGED <<skip, event, bound, file, attached, faults, ngnVars>>

RecordAddr ==
    /\ script = "record" /\ Goto("idle")
    /\ record' = event
    /\ UNCHANGED <<skip, event, bound, file, attached, faults, ngnVars>>

\* Only the address of the prefix that expired goes; what that is cannot be
\* told when the interface has gone, and its addresses with it.
ExpireAddr ==
    /\ script = "expire"
    /\ event' = None
    /\ \/ record = event /\ Goto("forget") /\ Delete(record)
       \/ /\ record # event \/ attached = {}
          /\ Goto("idle")
          /\ UNCHANGED <<attached, faults>>
    /\ UNCHANGED <<skip, bound, file, record, ngnVars>>

ReleaseAddr ==
    /\ script = "release"
    /\ Goto(IF Given(record) THEN "forget" ELSE "idle")
    /\ Delete(record)
    /\ UNCHANGED <<skip, event, bound, file, record, ngnVars>>

Kill ==
    /\ script # "idle" /\ faults < MaxFaults
    /\ Goto("idle") /\ event' = None
    /\ faults' = faults + 1
    /\ UNCHANGED <<skip, bound, file, record, attached, ngnVars>>

\* NetworkManager puts the interface in order: what it does not manage goes.
Reapply ==
    /\ attached # {} /\ attached' = {}
    /\ UNCHANGED <<skip, script, event, bound, file, record, faults, ngnVars>>

-----------------------------------------------------------------------------
(***************************************************************************)
(* ngntun.                                                                 *)
(***************************************************************************)
ReadLeases ==
    /\ ngntun = "start" /\ ngntun' = "read"
    /\ read' = file
    /\ UNCHANGED <<skip, hookVars, opt, source>>

Sources ==
    LET interfaces == {[name |-> Interface, up |-> TRUE, addresses |-> Carried]}
        lease6 == IF Given(read) THEN Lease(read) ELSE None
    IN  {c.localV6 : c \in BuildConfig(opt, lease6, Lease4, interfaces)}

\* The rest of buildConfig, which looks at the interface.
ChooseSource ==
    /\ ngntun = "read"
    /\ IF Sources = {} THEN ngntun' = "failed" /\ UNCHANGED source
       ELSE ngntun' = "chosen" /\ source' \in Sources
    /\ UNCHANGED <<skip, hookVars, opt, read>>

StartAgain ==
    /\ ngntun \in {"chosen", "failed"} /\ ngntun' = "start"
    /\ opt' \in Options
    /\ read' = None /\ source' = None
    /\ UNCHANGED <<skip, hookVars>>

Next ==
    \/ \E p \in Delegated : Bound(p) \/ Expired(p)
    \/ Released \/ WriteLease \/ SyncAddr \/ Forget \/ AddAddr \/ Truncate
    \/ RecordAddr \/ ExpireAddr \/ ReleaseAddr \/ Kill \/ Reapply
    \/ ReadLeases \/ ChooseSource \/ StartAgain

Spec == Init /\ [][Next]_vars

-----------------------------------------------------------------------------
(***************************************************************************)
(* Properties.                                                             *)
(***************************************************************************)
\* Between two events the interface carries no address of the script's but
\* the bound prefix's (the HGW drops without a word what comes from another,
\* ngntun-dhclient-script:9), whatever expires, cannot be added or is taken
\* away; each script killed half way, and each deletion that fails (the record
\* is dropped all the same, :107), leaves at most one.
NoStaleAddress ==
    script = "idle" => Cardinality(attached \ {bound}) <= faults

\* ngntun takes a source address of its own choice from the prefix in its
\* lease and no other (DESIGN.md:194), and that prefix is the one dhclient
\* holds, though the file and the interface are read at different moments:
\* unless the script is at work just then, or had such a fault before.
SourceIsBound ==
    [][ngntun = "read" /\ source' # source /\ ~Given(opt.sourceV6) =>
          /\ Given(read) => source'.network = read
          /\ source'.network \in Delegated =>
                source'.network = bound \/ script # "idle" \/ faults > 0]_vars
=============================================================================
