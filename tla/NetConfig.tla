----------------------------- MODULE NetConfig -----------------------------
(***************************************************************************)
(* What ngntun does to the kernel's tables (internal/netcfg), as           *)
(* session.Run calls it: the tun device is checked for, deleted with       *)
(* --force and created; Apply sets it up one netlink call at a time;       *)
(* EnsureHostRoute adds a route to the media relay on the WAN side;        *)
(* Rollback withdraws it all in reverse.  Any addition can fail; the undo  *)
(* of a setting that is still there is taken to succeed (Rollback logs one *)
(* that does not, and forgets it).  A process can be killed at any point   *)
(* and started again, and several processes share the kernel and, it may   *)
(* be, the name of the device or the relay.                                *)
(***************************************************************************)
EXTENDS Naturals, Sequences, SequencesExt

CONSTANTS
    Procs,      \* processes
    Names,      \* device names
    Options     \* the command lines considered; asks: whether an address and
                \* routes are given; mediaRoute: --media-route is auto and the
                \* WAN interface is known

ASSUME OptionsAssumption ==
    Options \subseteq [name : Names, force : BOOLEAN, mediaRoute : BOOLEAN,
                       asks : SUBSET {"addr", "route"}]

\* Who is no process of ours.
Nobody == {"none", "leftover", "foreign", "orphan"}

ASSUME ProcsAssumption == Procs \intersect Nobody = {}

VARIABLES
    opt,    \* each process's command line
    pc,     \* where each process stands
    link,   \* whose device has the name: a process's, "leftover" (a tun that
            \* nobody has open), "foreign" (no tun at all), or "none"
    conf,   \* the settings on each process's device, with who made them
    at,     \* whose device Apply's LinkByName found; "none" once it is gone
    undo,   \* Applied.undo
    ran,    \* processes whose forwarder was started: it closes the tun
    relay   \* the host route: "none", "foreign", "orphan" (of a process that
            \* was killed) or a process's

vars == <<opt, pc, link, conf, at, undo, ran, relay>>

Settings == {"addr", "up", "route"}
PCs == {"check", "delete", "create", "apply", "addr", "up", "route", "host",
        "running", "rollback", "hostback", "close", "gone", "killed"}

TypeOK ==
    /\ opt \in [Procs -> Options]
    /\ pc \in [Procs -> PCs]
    /\ link \in [Names -> Procs \union {"none", "leftover", "foreign"}]
    /\ conf \in [Procs -> SUBSET (Settings \X (Procs \union {"orphan"}))]
    /\ at \in [Procs -> Procs \union {"none"}]
    /\ \A p \in Procs : undo[p] \in UNION {[1 .. n -> Settings] : n \in 0 .. 3}
    /\ ran \subseteq Procs
    /\ relay \in Procs \union {"none", "foreign", "orphan"}

Init ==
    /\ opt \in [Procs -> Options]
    /\ pc = [p \in Procs |-> "check"]
    /\ link \in [Names -> {"none", "leftover", "foreign"}]
    /\ conf = [p \in Procs |-> {}]
    /\ at = [p \in Procs |-> "none"]
    /\ undo = [p \in Procs |-> <<>>]
    /\ ran = {}
    /\ relay \in {"none", "foreign"}

-----------------------------------------------------------------------------
Name(p) == opt[p].name

\* The device that p created is still there.
Present(p) == link[Name(p)] = p

Goes(p, there) == pc' = [pc EXCEPT ![p] = there]

\* The device that has the name n goes, and with it what was set on it.
Vanish(n) ==
    /\ link' = [link EXCEPT ![n] = "none"]
    /\ conf' = [q \in Procs |-> IF link[n] = q THEN {} ELSE conf[q]]
    /\ at' = [q \in Procs |-> IF at[q] = link[n] THEN "none" ELSE at[q]]

-----------------------------------------------------------------------------
(***************************************************************************)
(* Exists, DeleteTun, tundev.Create.                                       *)
(***************************************************************************)
Check(p) ==
    /\ pc[p] = "check"
    /\ Goes(p, IF link[Name(p)] = "none" THEN "create"
               ELSE IF opt[p].force THEN "delete" ELSE "gone")
    /\ UNCHANGED <<opt, link, conf, at, undo, ran, relay>>

\* (A slip: the type of the interface not looked at.)
AnyLink(n) == link[n] # "none"

\* Only a tun is deleted; whether a process has it open is not looked at.
IsTun(n) == link[n] \notin {"none", "foreign"}

DeleteTun(p) ==
    /\ pc[p] = "delete"
    /\ IF IsTun(Name(p))
       THEN /\ Goes(p, "create")
            /\ Vanish(Name(p))
       ELSE /\ Goes(p, "gone")
            /\ UNCHANGED <<link, conf, at>>
    /\ UNCHANGED <<opt, undo, ran, relay>>

\* TUNSETIFF makes the device, or attaches to a tun nobody has open.
Create(p) ==
    /\ pc[p] = "create"
    /\ \/ /\ link[Name(p)] \in {"none", "leftover"}
          /\ link' = [link EXCEPT ![Name(p)] = p]
          /\ Goes(p, "apply")
       \/ Goes(p, "gone") /\ UNCHANGED link
    /\ UNCHANGED <<opt, conf, at, undo, ran, relay>>

\* Run ends before there is a call to configure for.
NoCall(p) ==
    /\ pc[p] = "apply"
    /\ Goes(p, "close")
    /\ UNCHANGED <<opt, link, conf, at, undo, ran, relay>>

-----------------------------------------------------------------------------
(***************************************************************************)
(* Apply.                                                                  *)
(***************************************************************************)
\* LinkByName: the device that has the name now, be it another process's.
FindLink(p) ==
    /\ pc[p] = "apply"
    /\ IF link[Name(p)] \in Procs
       THEN at' = [at EXCEPT ![p] = link[Name(p)]] /\ Goes(p, "addr")
       ELSE Goes(p, "close") /\ UNCHANGED at
    /\ UNCHANGED <<opt, link, conf, undo, ran, relay>>

\* (A slip: the undo is noted twice.)
UndoTwice(p, s, done) ==
    undo' = IF done THEN [undo EXCEPT ![p] = @ \o <<s, s>>] ELSE undo

\* (A slip: the undo is noted before the outcome is known.)
UndoAnyway(p, s, done) == undo' = [undo EXCEPT ![p] = Append(@, s)]

Push(p, s, done) ==
    undo' = IF done THEN [undo EXCEPT ![p] = Append(@, s)] ELSE undo

IsSet(s, d) == \E x \in conf[d] : x[1] = s

Asked(p, s) == s = "up" \/ s \in opt[p].asks

\* One netlink call of Apply, and what follows it; on failure, Rollback.  The
\* kernel takes no route through a link that is down; and an address or a
\* route may be refused, as when another process has set the same.  (The MTU,
\* which is not undone, goes with the device.  One route stands for all.)
Step(p, s, next) ==
    /\ pc[p] = s /\ Asked(p, s)
    /\ \E done \in BOOLEAN :
        /\ done => /\ at[p] # "none"
                   /\ s = "route" => IsSet("up", at[p])
        /\ conf' = IF done THEN [conf EXCEPT ![at[p]] = @ \union {<<s, p>>}] ELSE conf
        /\ Push(p, s, done)
        /\ Goes(p, IF done THEN next ELSE "rollback")
    /\ UNCHANGED <<opt, link, at, ran, relay>>

Skip(p, s, next) ==
    /\ pc[p] = s /\ ~Asked(p, s)
    /\ Goes(p, next)
    /\ UNCHANGED <<opt, link, conf, at, undo, ran, relay>>

Apply(p) ==
    \/ Step(p, "addr", "up") \/ Step(p, "up", "route") \/ Step(p, "route", "host")
    \/ Skip(p, "addr", "up") \/ Skip(p, "route", "host")

-----------------------------------------------------------------------------
(***************************************************************************)
(* EnsureHostRoute, and the session.                                       *)
(***************************************************************************)
\* (A slip: the route is added without looking whether one is there.)
NeverReachable == FALSE

Reachable == relay # "none"

EnsureHostRoute(p) ==
    /\ pc[p] = "host"
    /\ \/ /\ ~opt[p].mediaRoute \/ Reachable
          /\ Goes(p, "running") /\ ran' = ran \union {p}
          /\ UNCHANGED relay
       \/ /\ opt[p].mediaRoute /\ ~Reachable
          /\ relay' = p
          /\ Goes(p, "running") /\ ran' = ran \union {p}
       \/ /\ opt[p].mediaRoute
          /\ Goes(p, "rollback")
          /\ UNCHANGED <<relay, ran>>
    /\ UNCHANGED <<opt, link, conf, at, undo>>

EndSession(p) ==
    /\ pc[p] = "running"
    /\ Goes(p, "rollback")
    /\ UNCHANGED <<opt, link, conf, at, undo, ran, relay>>

\* The forwarder has closed the tun and let go of it.
ForwarderCloses(p) ==
    /\ p \in ran /\ pc[p] \in {"running", "rollback", "hostback"}
    /\ Present(p)
    /\ Vanish(Name(p))
    /\ UNCHANGED <<opt, pc, undo, ran, relay>>

-----------------------------------------------------------------------------
(***************************************************************************)
(* Rollback, Close, and SIGKILL.                                           *)
(***************************************************************************)
\* Taking the link down takes the routes through it along; an IPv4 address
\* stays.
Withdrawn(s, c, p) ==
    IF s = "up" THEN {x \in c : x[1] = "addr"} ELSE c \ {<<s, p>>}

Pop(p) == undo' = [undo EXCEPT ![p] = Front(@)]

\* The latest step first; one that fails, its device gone, is passed over.
RollbackStep(p) ==
    /\ pc[p] = "rollback" /\ undo[p] # <<>>
    /\ conf' = IF at[p] # "none"
               THEN [conf EXCEPT ![at[p]] = Withdrawn(Last(undo[p]), @, p)]
               ELSE conf
    /\ Pop(p)
    /\ UNCHANGED <<opt, pc, link, at, ran, relay>>

RollbackEnds(p) ==
    /\ pc[p] = "rollback" /\ undo[p] = <<>>
    /\ Goes(p, "hostback")
    /\ UNCHANGED <<opt, link, conf, at, undo, ran, relay>>

\* (A slip: the host route left to itself.)
RouteStays(p) == relay

RouteDel(p) == IF relay = p THEN "none" ELSE relay

RollbackHostRoute(p) ==
    /\ pc[p] = "hostback"
    /\ relay' = RouteDel(p)
    /\ Goes(p, "close")
    /\ UNCHANGED <<opt, link, conf, at, undo, ran>>

\* tun.Close and the end of the process.
Close(p) ==
    /\ pc[p] = "close"
    /\ IF Present(p) THEN Vanish(Name(p)) ELSE UNCHANGED <<link, conf, at>>
    /\ Goes(p, "gone")
    /\ UNCHANGED <<opt, undo, ran, relay>>

\* What a killed process had set on a device that is not its own.
Orphaned(p, c) == {x \in c : x[2] # p} \union {<<x[1], "orphan">> : x \in {y \in c : y[2] = p}}

\* SIGKILL: the kernel takes the device; the host route stays.
Kill(p) ==
    /\ pc[p] \notin {"gone", "killed"}
    /\ link' = [link EXCEPT ![Name(p)] = IF @ = p THEN "none" ELSE @]
    /\ conf' = [q \in Procs |-> IF q = p THEN {} ELSE Orphaned(p, conf[q])]
    /\ at' = [q \in Procs |-> IF at[q] = p \/ q = p THEN "none" ELSE at[q]]
    /\ relay' = IF relay = p THEN "orphan" ELSE relay
    /\ Goes(p, "killed")
    /\ UNCHANGED <<opt, undo, ran>>

\* It is started again.
Restart(p) ==
    /\ pc[p] \in {"gone", "killed"}
    /\ Goes(p, "check")
    /\ at' = [at EXCEPT ![p] = "none"]
    /\ undo' = [undo EXCEPT ![p] = <<>>]
    /\ ran' = ran \ {p}
    /\ UNCHANGED <<opt, link, conf, relay>>

-----------------------------------------------------------------------------
Next == \E p \in Procs :
    \/ Check(p) \/ DeleteTun(p) \/ Create(p) \/ NoCall(p)
    \/ FindLink(p) \/ Apply(p) \/ EnsureHostRoute(p)
    \/ EndSession(p) \/ ForwarderCloses(p)
    \/ RollbackStep(p) \/ RollbackEnds(p) \/ RollbackHostRoute(p)
    \/ Close(p) \/ Kill(p) \/ Restart(p)

Spec == Init /\ [][Next]_vars

-----------------------------------------------------------------------------
(***************************************************************************)
(* Properties.                                                             *)
(***************************************************************************)
\* Nothing of a process that ran to its end is left: no device, no setting on
\* a device -- another process's, it may be, that took the name -- and no host
\* route, however far Apply came and whatever went away under it.
NothingLeft ==
    \A p \in Procs : pc[p] = "gone" =>
        /\ ~Present(p)
        /\ relay # p
        /\ \A d \in Procs, s \in Settings : <<s, p>> \notin conf[d]

\* What was there before, and is not a tun, is there for ever: interfaces of
\* another type, and a route to the relay that ngntun did not add.  A call's
\* own route is there as long as the call (netcfg_linux.go:104), whatever
\* other processes start and end.  (Not so a route that it only found there.)
OthersKept ==
    [][/\ \A n \in Names : link[n] = "foreign" => link'[n] = "foreign"
       /\ relay = "foreign" => relay' = "foreign"
       /\ \A p \in Procs : relay = p /\ pc[p] = "running" /\ pc'[p] = "running"
             => relay' = p]_vars

\* What a process has set is on the device that Apply found, and on its undo
\* stack; and what is on the stack is still set, as long as the device is
\* there.  Only, another process that found the same device takes the link
\* down when it goes, and the routes through it; never an address.
UndoIsWhatWasDone ==
    \A p \in Procs :
        /\ \A d \in Procs, s \in Settings :
              <<s, p>> \in conf[d] => at[p] = d /\ s \in ToSet(undo[p])
        /\ at[p] # "none" => \A s \in ToSet(undo[p]) :
              \/ <<s, p>> \in conf[at[p]]
              \/ s # "addr" /\ <<"up", p>> \notin conf[at[p]]
=============================================================================
