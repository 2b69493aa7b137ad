---------------------------- MODULE InputsProofs ----------------------------
(***************************************************************************)
(* Proofs about modules Inputs and SourceAddress, and about the functions  *)
(* that they read with (Provisioning, SdpAnswer, VendorOpts, Messages):    *)
(* what buildConfig makes is sound, for any options, leases and            *)
(* interfaces; an SDP body is read as its sections say, vendor options as  *)
(* they were meant and the messages of a call as they were written, of any *)
(* length; and the types, NoStaleAddress and SourceIsBound, for any finite *)
(* set of prefixes and any number of scripts killed and deletions failed.  *)
(*                                                                         *)
(* A text is read by a recursive function on its places; what it returns   *)
(* is proved by the lemma Induction.  NoStaleAddress counts the addresses  *)
(* on the interface, and an address counts against these faults unless it  *)
(* is on record: Debts says at which command of the script which address   *)
(* is still to be accounted for.                                           *)
(***************************************************************************)
EXTENDS SourceAddress, Inputs, FiniteSetTheorems, SequenceTheorems, WellFoundedInduction, TLAPS

\* Which prefix the script's event is about, and what it never touches.
Control ==
    /\ script \in {"write", "sync", "add", "truncate", "record"} =>
          event = bound /\ event \in Delegated
    /\ script \in {"forget", "release"} => event \in {bound, None}
    /\ script = "expire" => event \in Delegated
    /\ skip => /\ script \notin {"sync", "forget", "add", "truncate", "record"}
               /\ attached = {} /\ record = None

Few(S) == Cardinality(S) <= faults

\* One address may be there that no fault left: the one on record,
\* or the one that is about to be; between events it is the bound one.
Debts ==
    /\ script \in {"idle", "add"} =>
          Few(attached) \/ (record = bound /\ Few(attached \ {record}))
    /\ script = "expire" =>
          Few(attached) \/ (record \in {bound, event} /\ Few(attached \ {record}))
    /\ script \in {"write", "sync", "release"} => Few(attached \ {record})
    /\ script = "forget" => Few(attached)
    /\ script \in {"truncate", "record"} => Few(attached \ {event})

Inv == TypeOK /\ Control /\ Debts

-----------------------------------------------------------------------------
(***************************************************************************)
(* buildConfig, for any options, leases and interfaces.                    *)
(***************************************************************************)
\* A configuration comes of a provisioning that was built, overridden, given
\* an IPv4 source and validated.
LEMMA Provisioned ==
  ASSUME NEW o, NEW lease6, NEW lease4, NEW interfaces,
         NEW c \in BuildConfig(o, lease6, lease4, interfaces)
  PROVE  LET built == Build(lease6, lease4)
             over  == ApplyOverrides(built, o)
         IN  /\ built # Failed /\ over # Failed
             /\ \E a \in ResolveSourceV4(o, over, interfaces) :
                   LET p == [over EXCEPT !.selfV4 = a]
                   IN  /\ Validate(p)
                       /\ c \in Configs(o, p, ResolveSourceV6(o, p, interfaces))
  <1> DEFINE built == Build(lease6, lease4)
             over  == ApplyOverrides(built, o)
             kept  == IF built = Failed THEN Failed ELSE over
             withV4 == IF kept = Failed THEN {}
                       ELSE {[kept EXCEPT !.selfV4 = a] :
                                a \in ResolveSourceV4(o, kept, interfaces)}
  <1>1. PICK p \in withV4 :
               Validate(p) /\ c \in Configs(o, p, ResolveSourceV6(o, p, interfaces))
    <2> HIDE DEF built, over
    <2>1. c \in UNION {Configs(o, q, ResolveSourceV6(o, q, interfaces)) :
                           q \in {r \in withV4 : Validate(r)}}
      BY DEF BuildConfig, built, over
    <2>2. QED
      BY <2>1
  <1>2. kept # Failed /\ \E a \in ResolveSourceV4(o, kept, interfaces) :
                            p = [kept EXCEPT !.selfV4 = a]
    <2> HIDE DEF kept
    <2>1. QED
      BY <1>1
  <1>3. built # Failed /\ kept = over
    BY <1>2
  <1>4. QED
    BY <1>1, <1>2, <1>3

\* What the lease says stands where no option says otherwise; no option
\* changes the delegated prefix.
LEMMA Overridden ==
  ASSUME NEW o, NEW lease6, NEW lease4,
         Build(lease6, lease4) # Failed,
         ApplyOverrides(Build(lease6, lease4), o) # Failed
  PROVE  LET built == Build(lease6, lease4)
             over  == ApplyOverrides(built, o)
         IN  /\ DOMAIN over = {"interface", "sipServer", "delegated", "extension",
                               "domain", "registrar4", "selfV4"}
             /\ \A f \in Overriding : over[f] = Else(o[f], built[f])
             /\ over.delegated = built.delegated
  <1> DEFINE built == Build(lease6, lease4)
             fields == {"interface", "sipServer", "delegated", "extension",
                        "domain", "registrar4", "selfV4"}
  <1>1. DOMAIN built = fields
    BY DEF Build
  <1>2. ApplyOverrides(built, o) =
           [f \in fields |-> IF f \in Overriding THEN Else(o[f], built[f]) ELSE built[f]]
    <2> HIDE DEF built
    <2>1. QED
      BY <1>1 DEF ApplyOverrides
  <1>3. QED
    BY <1>2 DEF Overriding

\* The IPv6 source: the option's, or one that an interface has, within the
\* delegated prefix.
LEMMA SourceV6Chosen ==
  ASSUME NEW o, NEW lease6, NEW lease4, NEW interfaces,
         NEW c \in BuildConfig(o, lease6, lease4, interfaces)
  PROVE  /\ Given(o.sourceV6) => c.localV6 = o.sourceV6
         /\ ~Given(o.sourceV6) =>
               /\ c.localV6 \in UNION {i.addresses : i \in {j \in interfaces : j.up}}
               /\ Given(lease6) /\ Given(lease6["prefix"]) =>
                     c.localV6.network = lease6["prefix"]
  <1> DEFINE over == ApplyOverrides(Build(lease6, lease4), o)
  <1>1. PICK a : c.localV6 \in ResolveSourceV6(o, [over EXCEPT !.selfV4 = a], interfaces)
    <2>1. PICK a : LET p == [over EXCEPT !.selfV4 = a]
                   IN  c \in Configs(o, p, ResolveSourceV6(o, p, interfaces))
      BY Provisioned
    <2> DEFINE p == [over EXCEPT !.selfV4 = a]
    <2>2. c.localV6 \in ResolveSourceV6(o, p, interfaces)
      <3> HIDE DEF p
      <3>1. c \in Configs(o, p, ResolveSourceV6(o, p, interfaces))
        BY <2>1 DEF p
      <3>2. QED
        BY <3>1 DEF Configs
    <2>3. QED
      BY <2>2
  <1> DEFINE p == [over EXCEPT !.selfV4 = a]
  <1>2. Build(lease6, lease4) # Failed /\ over # Failed
    BY Provisioned
  <1>3. p.delegated = Build(lease6, lease4).delegated
    BY <1>2, Overridden
  <1>4. Given(lease6) => p.delegated = lease6["prefix"]
    BY <1>2, <1>3 DEF Build
  <1>5. CASE Given(o.sourceV6)
    BY <1>1, <1>5 DEF ResolveSourceV6
  <1>6. CASE ~Given(o.sourceV6)
    <2> HIDE DEF p
    <2>1. c.localV6 \in PickSourceV6(p.interface, p.delegated, interfaces)
      BY <1>1, <1>6 DEF ResolveSourceV6, p
    <2>2. QED
      BY <1>4, <1>6, <2>1 DEF PickSourceV6
  <1>7. QED
    BY <1>5, <1>6

\* Leases as they are read: their lists and vendor options are there, if
\* empty.
WellFormed(lease6, lease4) ==
    /\ Given(lease6) => Given(lease6["sipServers"]) /\ Given(lease6["opts"])
    /\ Given(lease4) => Given(lease4["routers"]) /\ Given(lease4["ipAddress"])

\* Whatever the options and the leases are, and whatever addresses the
\* interfaces have, buildConfig makes no configuration but what they say, with
\* sources that the interfaces have and the delegated prefix allows (an
\* address is of IPv4 or of IPv6).
THEOREM ConfigurationsAreSound ==
  ASSUME NEW o, NEW lease6, NEW lease4, NEW interfaces, WellFormed(lease6, lease4),
         NEW c \in BuildConfig(o, lease6, lease4, interfaces),
         c.proxy.version \in {4, 6}
  PROVE  Sound(c, o, lease6, lease4, interfaces)
  <1> DEFINE built == Build(lease6, lease4)
             over == ApplyOverrides(built, o)
             told(f) == Else(o[f], InLeases(lease6, lease4)[f])
  <1>1. built # Failed /\ over # Failed
    BY Provisioned
  <1>2. \A f \in Overriding : over[f] = told(f)
    <2>1. \A f \in Overriding : built[f] = InLeases(lease6, lease4)[f]
      BY <1>1 DEF Build, InLeases, Overriding, WellFormed, Given, Else
    <2>2. QED
      BY <1>1, <2>1, Overridden
  <1>3. PICK a \in ResolveSourceV4(o, over, interfaces) :
               LET p == [over EXCEPT !.selfV4 = a]
               IN  Validate(p) /\ c \in Configs(o, p, ResolveSourceV6(o, p, interfaces))
    BY Provisioned
  <1> DEFINE p == [over EXCEPT !.selfV4 = a]
  <1>4. /\ p.sipServer = told("sipServer") /\ p.registrar4 = told("registrar4")
        /\ p.domain = told("domain") /\ p.extension = told("extension")
        /\ p.selfV4 = a
    BY <1>1, <1>2, Overridden DEF Overriding
  <1>5. /\ c.proxy = p.sipServer /\ c.registrar = p.registrar4
        /\ c.domain = p.domain /\ c.extension = p.extension /\ c.localV4 = p.selfV4
    <2> HIDE DEF p
    <2>1. c \in Configs(o, p, ResolveSourceV6(o, p, interfaces))
      BY <1>3 DEF p
    <2>2. QED
      BY <2>1 DEF Configs
  <1>6. c.proxy.version = 6 /\ Given(c.registrar) /\ c.registrar.version = 4
    <2> HIDE DEF p
    <2>1. Validate(p)
      BY <1>3 DEF p
    <2>2. QED
      BY <1>5, <2>1 DEF Validate, Is
  <1> DEFINE onWan  == UNION {i.addresses : i \in {j \in interfaces : j.up /\ j.name = told("interface")}}
             nearby == {x \in onWan : /\ x.version = 4 /\ x.scope # "local"
                                      /\ x.network = c.registrar.network}
  <1>7. a \in IF Given(o.selfV4) \/ nearby = {} THEN {told("selfV4")} ELSE nearby
    <2>1. over.interface = told("interface") /\ over.registrar4 = c.registrar
          /\ over.selfV4 = told("selfV4")
      BY <1>2, <1>4, <1>5 DEF Overriding
    <2>2. PickSourceV4(over.interface, over.registrar4, interfaces) = nearby
      <3> HIDE DEF told, over
      <3>1. QED
        BY <1>6, <2>1 DEF PickSourceV4, SelectV4
    <2>3. QED
      <3> HIDE DEF nearby, over, told
      <3>1. QED
        BY <1>3, <2>1, <2>2 DEF ResolveSourceV4
  <1>8. Given(o.selfV4) => told("selfV4") = o.selfV4
    BY DEF Else
  <1>9. /\ Given(o.selfV4) => c.localV4 = o.selfV4
        /\ ~Given(o.selfV4) =>
              c.localV4 \in IF nearby = {} THEN {told("selfV4")} ELSE nearby
    <2> HIDE DEF nearby, told
    <2>1. QED
      BY <1>4, <1>5, <1>7, <1>8
  <1>10. QED
    <2> HIDE DEF over, built
    <2>1. QED
      BY <1>4, <1>5, <1>6, <1>9, SourceV6Chosen DEF Sound

\* Options that say all that a call needs make a configuration by themselves.
LEMMA OptionsSuffice ==
  ASSUME NEW r \in Runs, Complete(r.opt), r.lease6 = None, r.lease4 = None
  PROVE  BuildConfig(r.opt, r.lease6, r.lease4, r.interfaces) # {}
  <1> DEFINE o == r.opt
             bare == Build(None, None)
             said == [f \in DOMAIN bare |-> IF f \in Overriding THEN o[f] ELSE None]
             p == [said EXCEPT !.selfV4 = o.selfV4]
  <1>1. /\ bare # Failed /\ said # Failed
        /\ bare = [f \in {"interface", "sipServer", "delegated", "extension",
                          "domain", "registrar4", "selfV4"} |-> None]
    BY RunsAssumption, TextsAssumption DEF Build, Given, Else
  <1>2. ApplyOverrides(bare, o) = said
    <2>1. Bad \notin {o[f] : f \in {"sipServer", "registrar4", "selfV4"}}
      BY DEF Complete
    <2>2. \A f : Else(o[f], None) = o[f]
      BY DEF Else, Given
    <2> HIDE DEF bare
    <2>3. [f \in DOMAIN bare |-> IF f \in Overriding THEN Else(o[f], bare[f]) ELSE bare[f]] = said
      BY <1>1, <2>2 DEF Overriding
    <2>4. QED
      BY <2>1, <2>3 DEF ApplyOverrides
  <1>3. ResolveSourceV4(o, said, r.interfaces) = {o.selfV4}
    BY <1>1 DEF ResolveSourceV4, Complete, Given, Overriding
  <1>4. Validate(p)
    BY <1>1 DEF Validate, Complete, Given, Is, Overriding
  <1>5. ResolveSourceV6(o, p, r.interfaces) = {o.sourceV6}
    BY DEF ResolveSourceV6, Complete, Given, Is
  <1> HIDE DEF bare, said, p
  <1>6. Configs(o, p, {o.sourceV6}) # {}
    <2>1. ModeFits(o) /\ Readable(o)
      BY DEF Complete
    <2> DEFINE made(a) ==
                  [domain |-> p.domain, extension |-> p.extension,
                   registrar |-> p.registrar4, proxy |-> p.sipServer,
                   localV4 |-> p.selfV4, localV6 |-> a,
                   sipPort |-> o.sipPort % 65536, overV6 |-> o.transport = "ipv6",
                   bandwidth |-> ParseBandwidth(o.bandwidth),
                   mediaRoute |-> ParseMediaRoute(o.mediaRoute),
                   mediaGateway |-> Else(o.mediaGateway, p.sipServer),
                   bindDevice |-> Else(o.bindDevice, o.interface)]
    <2>2. Configs(o, p, {o.sourceV6}) = {made(a) : a \in {o.sourceV6}}
      BY <2>1 DEF Configs, made
    <2> HIDE DEF made
    <2>3. made(o.sourceV6) \in Configs(o, p, {o.sourceV6})
      BY <2>2
    <2>4. QED
      BY <2>3
  <1>7. BuildConfig(o, None, None, r.interfaces)
           = UNION {Configs(o, q, ResolveSourceV6(o, q, r.interfaces)) :
                       q \in {x \in {[said EXCEPT !.selfV4 = a] :
                                     a \in ResolveSourceV4(o, said, r.interfaces)} : Validate(x)}}
    BY <1>1, <1>2 DEF BuildConfig, bare
  <1>8. p \in {x \in {[said EXCEPT !.selfV4 = a] :
                       a \in ResolveSourceV4(o, said, r.interfaces)} : Validate(x)}
    BY <1>3, <1>4 DEF p
  <1>9. QED
    BY <1>5, <1>6, <1>7, <1>8

\* What comes of a run's options and leases once they are read.
Configured ==
    input.kind = "config" =>
        LET r == input.run
            configs == BuildConfig(r.opt, r.lease6, r.lease4, r.interfaces)
        IN  /\ r \in Runs
            /\ output = None \/ output \in configs \/ (output = Failed /\ configs = {})

LEMMA ConfiguredHolds == InputsSpec => []Configured
  <1>1. InputsInit => Configured
    BY DEF InputsInit, Configured
  <1>2. ASSUME Configured, [InputsNext]_inputsVars PROVE Configured'
    <2> USE DEF Returns
    <2>1. CASE ReadConfig
      BY <1>2, <2>1 DEF ReadConfig, Configured
    <2>2. CASE input.kind # "config" /\ UNCHANGED input
      BY <2>2 DEF Configured
    <2>3. CASE UNCHANGED inputsVars
      BY <1>2, <2>3 DEF Configured, inputsVars
    <2>4. QED
      BY <1>2, <2>1, <2>2, <2>3 DEF InputsNext, ReadAnswer, ReadOffer, ReadOptions,
         ReadOur200, ReadInvite, ReadResponse
  <1>3. QED
    BY <1>1, <1>2, PTL DEF InputsSpec

\* Every run starts with what its options and leases say, or not at all, and
\* options that say it all start without a lease.
THEOREM RunsAreConfigured == InputsSpec => []ConfigSound
  <1>1. Configured => ConfigSound
    <2> SUFFICES ASSUME Configured, input.kind = "config", output # None
                 PROVE  LET r == input.run
                        IN  IF output = Failed
                            THEN ~(Complete(r.opt) /\ r.lease6 = None /\ r.lease4 = None)
                            ELSE Sound(output, r.opt, r.lease6, r.lease4, r.interfaces)
      BY DEF ConfigSound
    <2> DEFINE r == input.run
               configs == BuildConfig(r.opt, r.lease6, r.lease4, r.interfaces)
    <2>1. r \in Runs /\ (output \in configs \/ (output = Failed /\ configs = {}))
      BY DEF Configured
    <2>2. CASE output = Failed
      <3>1. configs = {}
        BY <2>1, <2>2, RunsAssumption
      <3>2. QED
        BY <2>1, <2>2, <3>1, OptionsSuffice
    <2>3. CASE output # Failed
      <3>1. output \in configs /\ output.proxy.version \in {4, 6}
        BY <2>1, <2>3, RunsAssumption
      <3>2. WellFormed(r.lease6, r.lease4)
        BY <2>1, RunsAssumption DEF WellFormed
      <3> HIDE DEF r
      <3>3. Sound(output, r.opt, r.lease6, r.lease4, r.interfaces)
        BY <3>1, <3>2, ConfigurationsAreSound
      <3>4. QED
        BY <2>3, <3>3 DEF r
    <2>4. QED
      BY <2>2, <2>3
  <1>2. QED
    BY <1>1, ConfiguredHolds, PTL

-----------------------------------------------------------------------------
(***************************************************************************)
(* Induction over data, and what a body's lines are read as.               *)
(***************************************************************************)
\* Induction over the natural numbers, with a set in the place of a predicate.
LEMMA Induction ==
  ASSUME NEW T, 0 \in T, \A n \in Nat : n \in T => n + 1 \in T
  PROVE  Nat \subseteq T
  <1> SUFFICES ASSUME Nat \ T # {} PROVE FALSE
    OBVIOUS
  <1>1. \E x \in Nat \ T : \A y \in Nat \ T : ~(<<y, x>> \in OpToRel(<, Nat))
    BY NatLessThanWellFounded, WFMin
  <1>2. \E x \in Nat \ T : \A y \in Nat \ T : ~(y < x)
    BY <1>1 DEF OpToRel
  <1>3. PICK x \in Nat \ T : \A y \in Nat \ T : ~(y < x)
    BY <1>2
  <1>4. x - 1 \in Nat /\ x - 1 < x /\ (x - 1) + 1 = x
    BY <1>3
  <1>5. QED
    BY <1>3, <1>4

\* What Reading says of itself is so: each prefix is read from the one before.
LEMMA ReadingIs ==
  ASSUME NEW S, NEW body \in Seq(S)
  PROVE  /\ Reading(body)[0] = Begun
         /\ \A n \in 1 .. Len(body) : Reading(body)[n] = ReadLine(Reading(body)[n - 1], body[n])
  <1> DEFINE Good(g, k) ==
                g = [n \in 0 .. k |-> IF n = 0 THEN Begun ELSE ReadLine(g[n - 1], body[n])]
             T == {k \in Nat : \E g : Good(g, k)}
  <1>1. 0 \in T
    <2> DEFINE g == [n \in 0 .. 0 |-> Begun]
    <2>1. Good(g, 0)
      OBVIOUS
    <2>2. QED
      BY <2>1
  <1>2. ASSUME NEW k \in Nat, k \in T PROVE k + 1 \in T
    <2>1. PICK g : Good(g, k)
      BY <1>2
    <2> DEFINE h == [n \in 0 .. k + 1 |-> IF n = 0 THEN Begun ELSE ReadLine(g[n - 1], body[n])]
    <2>2. \A n \in 0 .. k : h[n] = g[n]
      BY <2>1
    <2>3. Good(h, k + 1)
      <3>1. \A n \in 0 .. k + 1 : n # 0 => n - 1 \in 0 .. k
        OBVIOUS
      <3>2. QED
        BY <2>2, <3>1
    <2> HIDE DEF h, Good
    <2>4. QED
      BY <2>3
  <1>3. Nat \subseteq T
    <2> HIDE DEF T
    <2>1. QED
      BY <1>1, <1>2, Induction
  <1>4. Len(body) \in T
    BY <1>3
  <1>5. Good(Reading(body), Len(body))
    BY <1>4 DEF Reading
  <1> DEFINE reading == Reading(body)
  <1> HIDE DEF reading
  <1>6. reading = [n \in 0 .. Len(body) |-> IF n = 0 THEN Begun ELSE ReadLine(reading[n - 1], body[n])]
    BY <1>5 DEF reading
  <1>7. QED
    BY <1>6 DEF reading

\* v is the last value that lines of a key give in a part of the body, or
\* what stands for none.
IsLast(v, body, part, key, field, absent) ==
    LET given == {i \in part \intersect Lines(body, key) : Given(body[i][field])}
    IN  \/ given = {} /\ v = absent
        \/ \E i \in given : v = body[i][field] /\ \A j \in given : j <= i

LEMMA IsLastOf ==
  ASSUME NEW S, NEW body \in Seq(S), NEW part, NEW key, NEW field, NEW absent, NEW v,
         IsLast(v, body, part, key, field, absent)
  PROVE  v = LastOf(body, part, key, field, absent)
  <1> DEFINE given == {i \in part \intersect Lines(body, key) : Given(body[i][field])}
  <1>1. given \subseteq Nat
    BY DEF Lines
  <1>2. CASE given = {}
    BY <1>2 DEF IsLast, LastOf
  <1>3. ASSUME NEW i \in given, v = body[i][field], \A j \in given : j <= i
        PROVE  v = LastOf(body, part, key, field, absent)
    <2> HIDE DEF given
    <2>1. \A x \in given : (\A y \in given : x >= y) <=> x = i
      BY <1>1, <1>3
    <2>2. Max(given) = i
      BY <1>3, <2>1 DEF Max
    <2>3. QED
      BY <1>3, <2>2 DEF LastOf, given
  <1>4. QED
    BY <1>2, <1>3 DEF IsLast

UpTo(part, n) == {i \in part : i <= n}

\* One line more: it gives a value, or it does not.
LEMMA LastGiven ==
  ASSUME NEW S, NEW body \in Seq(S), NEW part, NEW key, NEW field, NEW absent, NEW v,
         NEW n \in Nat, n + 1 \in part \intersect Lines(body, key),
         Given(body[n + 1][field])
  PROVE  IsLast(body[n + 1][field], body, UpTo(part, n + 1), key, field, absent)
  BY DEF IsLast, UpTo, Lines

LEMMA LastKept ==
  ASSUME NEW S, NEW body \in Seq(S), NEW part, NEW key, NEW field, NEW absent, NEW v,
         NEW n \in Nat,
         n + 1 \in part \intersect Lines(body, key) => ~Given(body[n + 1][field]),
         IsLast(v, body, UpTo(part, n), key, field, absent)
  PROVE  IsLast(v, body, UpTo(part, n + 1), key, field, absent)
  <1> DEFINE given(k) == {i \in UpTo(part, k) \intersect Lines(body, key) : Given(body[i][field])}
  <1>1. given(n + 1) = given(n)
    BY DEF UpTo, Lines
  <1>2. QED
    BY <1>1 DEF IsLast

\* What has been read after n lines of a body whose one data medium is at d.
Faulty(body, n) ==
    \/ \E i \in UpTo(Lines(body, "c"), n) : body[i].address = Bad
    \/ \E i \in UpTo(Lines(body, "m"), n) : body[i].port = Bad

InMedia(body, d, n) == n = d \/ n \in Section(body, d)

LastMedium(body, n) ==
    \/ UpTo(Lines(body, "m"), n) = {}
    \/ \E e \in UpTo(Lines(body, "m"), n) : \A j \in UpTo(Lines(body, "m"), n) : j <= e

ReadOfMedium(st, body, d, n) ==
    /\ st.inMedia <=> InMedia(body, d, n)
    /\ st.found <=> d <= n
    /\ st.port = IF d <= n THEN body[d].port ELSE 0
    /\ IsLast(st.mediaAddr, body, UpTo(Section(body, d), n), "c", "address", None)
    /\ IsLast(st.kbps, body, UpTo(Section(body, d), n), "b", "kbps", 0)
    /\ IsLast(st.setup, body, UpTo(Section(body, d), n), "a", "role", None)

ReadOfSession(st, body, n) ==
    AddressOfAnother(body)
    \/ IsLast(st.sessionAddr, body, UpTo(SessionPart(body), n), "c", "address", None)

SoFar(st, body, d, n) ==
    /\ DOMAIN st = DOMAIN Begun
    /\ st.failed <=> Faulty(body, n)
    /\ ~st.failed => ReadOfMedium(st, body, d, n) /\ ReadOfSession(st, body, n)
    /\ LastMedium(body, n)

\* Where line n + 1 is: in the data medium's section if line n was in it.
LEMMA NextLine ==
  ASSUME NEW body, IsBody(body), NEW d, DataMedia(body) = {d},
         NEW n \in Nat, n + 1 \in DOMAIN body, LastMedium(body, n)
  PROVE  /\ body[n + 1].key # "m" =>
               (InMedia(body, d, n) <=> n + 1 \in Section(body, d))
         /\ n + 1 \in Lines(body, "m") => n + 1 \notin Section(body, d)
         /\ n + 1 \in Lines(body, "c") /\ ~InMedia(body, d, n) /\ ~AddressOfAnother(body)
               => n + 1 \in SessionPart(body)
  <1>1. d \in Nat /\ d \in Lines(body, "m") /\ Lines(body, "m") \subseteq Nat
    BY DEF IsBody, DataMedia, Lines
  <1>2. body[n + 1].key # "m" => n + 1 \notin Lines(body, "m")
    BY DEF Lines
  <1>3. body[n + 1].key # "m" => (InMedia(body, d, n) <=> n + 1 \in Section(body, d))
    <2> SUFFICES ASSUME n + 1 \notin Lines(body, "m")
                 PROVE  InMedia(body, d, n) <=> n + 1 \in Section(body, d)
      BY <1>2
    <2>1. \A j \in Lines(body, "m") : n + 1 < j <=> n < j
      BY <1>1
    <2>2. d < n + 1 <=> d = n \/ d < n
      BY <1>1
    <2>3. d < n => n \in DOMAIN body
      BY <1>1 DEF IsBody
    <2>4. ASSUME n = d, NEW j \in Lines(body, "m") PROVE j <= d \/ n + 1 < j
      BY <1>1, <2>1, <2>4
    <2>5. QED
      BY <2>1, <2>2, <2>3, <2>4 DEF InMedia, Section
  <1>4. n + 1 \in Lines(body, "m") => n + 1 \notin Section(body, d)
    BY <1>1 DEF Section
  <1>5. ASSUME n + 1 \in Lines(body, "c"), ~InMedia(body, d, n), n + 1 \notin SessionPart(body)
        PROVE  AddressOfAnother(body)
    <2>1. n + 1 \notin Lines(body, "m") /\ n + 1 \notin Section(body, d)
      BY <1>3, <1>5 DEF Lines
    <2>2. PICK k \in Lines(body, "m") : k <= n
      BY <1>1, <1>5, <2>1 DEF SessionPart
    <2>3. PICK e \in UpTo(Lines(body, "m"), n) : \A j \in UpTo(Lines(body, "m"), n) : j <= e
      BY <2>2 DEF LastMedium, UpTo
    <2>4. n + 1 \in Section(body, e)
      BY <1>1, <2>1, <2>3 DEF Section, UpTo
    <2>5. e \in Lines(body, "m") \ DataMedia(body)
      BY <2>1, <2>3, <2>4 DEF UpTo
    <2>6. QED
      BY <1>5, <2>4, <2>5 DEF AddressOfAnother
  <1>6. QED
    BY <1>3, <1>4, <1>5

LEMMA LastMediumGrows ==
  ASSUME NEW body, IsBody(body), NEW n \in Nat, LastMedium(body, n)
  PROVE  LastMedium(body, n + 1)
  <1> DEFINE S == Lines(body, "m")
  <1>1. S \subseteq Nat
    BY DEF IsBody, Lines
  <1>2. CASE n + 1 \in S
    BY <1>1, <1>2 DEF LastMedium, UpTo
  <1>3. CASE n + 1 \notin S
    <2>1. UpTo(S, n + 1) = UpTo(S, n)
      BY <1>1, <1>3 DEF UpTo
    <2>2. QED
      BY <2>1 DEF LastMedium
  <1>4. QED
    BY <1>2, <1>3

\* Every line is read as what it says of its part of the body.
LEMMA LineRead ==
  ASSUME NEW body, IsBody(body), NEW d, DataMedia(body) = {d},
         NEW n \in Nat, n + 1 \in DOMAIN body, NEW st, SoFar(st, body, d, n)
  PROVE  SoFar(ReadLine(st, body[n + 1]), body, d, n + 1)
  <1> DEFINE l == body[n + 1]
             new == ReadLine(st, l)
  <1>1. DOMAIN st = {"sessionAddr", "mediaAddr", "inMedia", "found", "port", "kbps",
                     "setup", "failed"} /\ DOMAIN st = DOMAIN Begun
    BY DEF SoFar, Begun
  <1>2. /\ \A k \in {"c", "m"} : \A i \in UpTo(Lines(body, k), n + 1) :
              i \in UpTo(Lines(body, k), n) \/ (i = n + 1 /\ l.key = k)
        /\ \A k : n + 1 \in Lines(body, k) <=> l.key = k
        /\ \A k : UpTo(Lines(body, k), n) \subseteq UpTo(Lines(body, k), n + 1)
        /\ \A k : l.key = k => n + 1 \in UpTo(Lines(body, k), n + 1)
    BY DEF UpTo, Lines, IsBody
  <1>3. d \in Nat /\ (n + 1 = d => l.key = "m" /\ l.fits) /\ (l.key = "m" /\ l.fits => n + 1 = d)
    BY <1>2 DEF DataMedia, Lines, IsBody
  <1>4. LastMedium(body, n + 1)
    BY LastMediumGrows DEF SoFar
  <1>5. Faulty(body, n + 1) <=>
           \/ Faulty(body, n)
           \/ l.key = "c" /\ l.address = Bad
           \/ l.key = "m" /\ l.port = Bad
    BY <1>2 DEF Faulty
  <1>6. CASE st.failed
    BY <1>4, <1>5, <1>6 DEF SoFar, ReadLine
  <1>7. CASE ~st.failed /\ Faulty(body, n + 1)
    <2>1. new = [st EXCEPT !.failed = TRUE]
      BY <1>5, <1>7 DEF SoFar, ReadLine, ReadConnection, ReadMedium
    <2>2. DOMAIN new = DOMAIN Begun /\ new.failed = TRUE
      BY <1>1, <2>1
    <2>3. QED
      BY <1>4, <1>7, <2>2 DEF SoFar
  <1>8. CASE ~st.failed /\ ~Faulty(body, n + 1)
    <2> DEFINE section == Section(body, d)
               session == SessionPart(body)
    <2>1. /\ ReadOfMedium(st, body, d, n) /\ ReadOfSession(st, body, n)
          /\ LastMedium(body, n)
      BY <1>8 DEF SoFar
    <2>2. IsLast(st.mediaAddr, body, UpTo(section, n), "c", "address", None)
                 /\ ~(n + 1 \in section /\ l.key = "c")
                 => IsLast(st.mediaAddr, body, UpTo(section, n + 1), "c", "address", None)
      BY <1>2, LastKept DEF IsBody
    <2>3. IsLast(st.kbps, body, UpTo(section, n), "b", "kbps", 0)
                 /\ ~(n + 1 \in section /\ l.key = "b" /\ Given(l.kbps))
                 => IsLast(st.kbps, body, UpTo(section, n + 1), "b", "kbps", 0)
      BY <1>2, LastKept DEF IsBody
    <2>4. IsLast(st.setup, body, UpTo(section, n), "a", "role", None)
                 /\ ~(n + 1 \in section /\ l.key = "a" /\ Given(l.role))
                 => IsLast(st.setup, body, UpTo(section, n + 1), "a", "role", None)
      BY <1>2, LastKept DEF IsBody
    <2>5. IsLast(st.sessionAddr, body, UpTo(session, n), "c", "address", None)
                 /\ ~(n + 1 \in session /\ l.key = "c")
                 => IsLast(st.sessionAddr, body, UpTo(session, n + 1), "c", "address", None)
      BY <1>2, LastKept DEF IsBody
    <2>6. n + 1 \in session => n + 1 \notin section
      BY <1>3 DEF SessionPart, Section, DataMedia
    <2>7. /\ l.key # "m" => (InMedia(body, d, n) <=> n + 1 \in section)
          /\ l.key = "m" => n + 1 \notin section
          /\ l.key = "c" /\ ~InMedia(body, d, n) => AddressOfAnother(body) \/ n + 1 \in session
          /\ l.key = "m" => n + 1 \notin session
      BY <1>2, <2>1, NextLine DEF SessionPart
    <2>8. n + 1 \notin session \/ l.key # "c" \/ ~InMedia(body, d, n)
      BY <2>6, <2>7
    <2>9. InMedia(body, d, n + 1) <=> n + 1 = d \/ n + 1 \in section
      BY DEF InMedia
    <2>10. l.key = "c" =>
              /\ Given(l.address)
              /\ n + 1 \in section =>
                    IsLast(l.address, body, UpTo(section, n + 1), "c", "address", None)
              /\ n + 1 \in session =>
                    IsLast(l.address, body, UpTo(session, n + 1), "c", "address", None)
      BY <1>2, LastGiven DEF IsBody
    <2>11. n + 1 \in section /\ l.key = "b" /\ Given(l.kbps) =>
              IsLast(l.kbps, body, UpTo(section, n + 1), "b", "kbps", 0)
      BY <1>2, LastGiven DEF IsBody
    <2>12. n + 1 \in section /\ l.key = "a" /\ Given(l.role) =>
              IsLast(l.role, body, UpTo(section, n + 1), "a", "role", None)
      BY <1>2, LastGiven DEF IsBody
    <2> HIDE DEF section, session, l
    <2>13. CASE l.key = "c"
      <3>1. new = IF st.inMedia THEN [st EXCEPT !.mediaAddr = l.address]
                  ELSE [st EXCEPT !.sessionAddr = l.address]
        BY <1>5, <1>8, <2>13 DEF ReadLine, ReadConnection
      <3>2. /\ DOMAIN new = DOMAIN Begun /\ ~new.failed
            /\ \A f \in {"inMedia", "found", "port", "kbps", "setup"} : new[f] = st[f]
            /\ new.mediaAddr = IF st.inMedia THEN l.address ELSE st.mediaAddr
            /\ new.sessionAddr = IF st.inMedia THEN st.sessionAddr ELSE l.address
        BY <1>1, <1>8, <3>1
      <3> HIDE DEF new
      <3>3. ReadOfMedium(new, body, d, n + 1)
        BY <1>3, <2>1, <2>2, <2>3, <2>4, <2>7, <2>9, <2>10, <2>13, <3>2
           DEF ReadOfMedium, section
      <3>4. ReadOfSession(new, body, n + 1)
        BY <2>1, <2>5, <2>7, <2>8, <2>10, <2>13, <3>2
           DEF ReadOfMedium, ReadOfSession, session
      <3>5. SoFar(new, body, d, n + 1)
        BY <1>4, <1>8, <3>2, <3>3, <3>4 DEF SoFar
      <3>6. QED
        BY <3>5 DEF new, l
    <2>14. CASE l.key = "m"
      <3>1. new = IF l.fits THEN [st EXCEPT !.inMedia = TRUE, !.found = TRUE, !.port = l.port]
                  ELSE [st EXCEPT !.inMedia = FALSE]
        BY <1>5, <1>8, <2>14 DEF ReadLine, ReadMedium
      <3>2. /\ DOMAIN new = DOMAIN Begun /\ ~new.failed
            /\ \A f \in {"mediaAddr", "sessionAddr", "kbps", "setup"} : new[f] = st[f]
            /\ new.inMedia <=> l.fits
            /\ new.found <=> st.found \/ l.fits
            /\ new.port = IF l.fits THEN l.port ELSE st.port
        BY <1>1, <1>8, <3>1
      <3> HIDE DEF new
      <3>3. ReadOfMedium(new, body, d, n + 1)
        BY <1>3, <2>1, <2>2, <2>3, <2>4, <2>7, <2>9, <2>14, <3>2
           DEF ReadOfMedium, section, l
      <3>4. ReadOfSession(new, body, n + 1)
        BY <2>1, <2>5, <2>14, <3>2 DEF ReadOfSession, session
      <3>5. SoFar(new, body, d, n + 1)
        BY <1>4, <1>8, <3>2, <3>3, <3>4 DEF SoFar
      <3>6. QED
        BY <3>5 DEF new, l
    <2>15. CASE l.key \notin {"c", "m"}
      <3>1. new = IF l.key = "b" /\ st.inMedia /\ Given(l.kbps) THEN [st EXCEPT !.kbps = l.kbps]
                  ELSE IF l.key = "a" /\ st.inMedia /\ Given(l.role)
                  THEN [st EXCEPT !.setup = l.role] ELSE st
        BY <1>8, <2>15 DEF ReadLine
      <3>2. /\ DOMAIN new = DOMAIN Begun /\ ~new.failed
            /\ \A f \in {"mediaAddr", "sessionAddr", "inMedia", "found", "port"} : new[f] = st[f]
            /\ new.kbps = IF l.key = "b" /\ st.inMedia /\ Given(l.kbps) THEN l.kbps ELSE st.kbps
            /\ new.setup = IF l.key = "a" /\ st.inMedia /\ Given(l.role) THEN l.role ELSE st.setup
        BY <1>1, <1>8, <3>1
      <3> HIDE DEF new
      <3>3. ReadOfMedium(new, body, d, n + 1)
        BY <1>3, <2>1, <2>2, <2>3, <2>4, <2>7, <2>9, <2>11, <2>12, <2>15, <3>2
           DEF ReadOfMedium, section
      <3>4. ReadOfSession(new, body, n + 1)
        BY <2>1, <2>5, <2>15, <3>2 DEF ReadOfSession, session
      <3>5. SoFar(new, body, d, n + 1)
        BY <1>4, <1>8, <3>2, <3>3, <3>4 DEF SoFar
      <3>6. QED
        BY <3>5 DEF new, l
    <2>16. QED
      BY <2>13, <2>14, <2>15 DEF l
  <1>9. QED
    BY <1>6, <1>7, <1>8

LEMMA BodyRead ==
  ASSUME NEW body, IsBody(body), NEW d, DataMedia(body) = {d}
  PROVE  \A n \in 0 .. Len(body) : SoFar(Reading(body)[n], body, d, n)
  <1> DEFINE T == {n \in Nat : n <= Len(body) => SoFar(Reading(body)[n], body, d, n)}
  <1>1. /\ Reading(body)[0] = Begun
        /\ \A n \in 1 .. Len(body) : Reading(body)[n] = ReadLine(Reading(body)[n - 1], body[n])
    BY ReadingIs DEF IsBody
  <1>2. 0 \in T
    <2>1. d \in DOMAIN body /\ 0 \notin DOMAIN body
      BY DEF DataMedia, Lines, IsBody
    <2>2. \A k : UpTo(Lines(body, k), 0) = {}
      BY DEF Lines, UpTo, IsBody
    <2>3. UpTo(Section(body, d), 0) = {} /\ UpTo(SessionPart(body), 0) = {}
      BY DEF Section, SessionPart, UpTo, IsBody
    <2>4. ReadOfMedium(Begun, body, d, 0)
      BY <2>1, <2>3 DEF ReadOfMedium, Begun, IsLast, InMedia, Section, IsBody
    <2>5. ReadOfSession(Begun, body, 0)
      BY <2>3 DEF ReadOfSession, Begun, IsLast
    <2>6. SoFar(Begun, body, d, 0)
      BY <2>2, <2>4, <2>5 DEF SoFar, Faulty, LastMedium, Begun
    <2>7. QED
      BY <1>1, <2>6
  <1>3. ASSUME NEW n \in Nat, n \in T PROVE n + 1 \in T
    <2> SUFFICES ASSUME n + 1 <= Len(body)
                 PROVE  SoFar(Reading(body)[n + 1], body, d, n + 1)
      OBVIOUS
    <2>1. Len(body) \in Nat /\ n + 1 \in DOMAIN body /\ n + 1 \in 1 .. Len(body)
      BY DEF IsBody
    <2>2. Reading(body)[n + 1] = ReadLine(Reading(body)[n], body[n + 1])
      BY <1>1, <2>1
    <2>3. SoFar(Reading(body)[n], body, d, n)
      BY <1>3, <2>1
    <2>4. QED
      BY <2>1, <2>2, <2>3, LineRead
  <1>4. Nat \subseteq T
    <2> HIDE DEF T
    <2>1. QED
      BY <1>2, <1>3, Induction
  <1>5. QED
    BY <1>4 DEF IsBody

\* The answer, of what has been read of the whole body.
LEMMA AnswerOf ==
  ASSUME NEW body, NEW st, st = Reading(body)[Len(body)]
  PROVE  ParseAnswer(body) =
           LET address == Else(st.mediaAddr, st.sessionAddr)
           IN  IF st.failed THEN Failed
               ELSE IF ~st.found \/ ~IsPort(st.port) \/ address \in {None, Unspecified}
                    THEN Failed
               ELSE [address |-> address, port |-> st.port, kbps |-> st.kbps, setup |-> st.setup]
  BY DEF ParseAnswer

\* What ParseAnswer reads in one pass is what the body says by its sections:
\* for any body with one data medium, however many lines and media it has.
THEOREM AnswerIsMeant ==
  ASSUME NEW body, IsBody(body), NEW d, DataMedia(body) = {d},
         Section(body, d) \intersect Lines(body, "c") # {} \/ ~AddressOfAnother(body)
  PROVE  ParseAnswer(body) = Meant(body, d)
  <1> DEFINE n == Len(body)
             st == Reading(body)[n]
             section == Section(body, d)
             session == SessionPart(body)
  <1>1. n \in Nat /\ d <= n
    BY DEF IsBody, DataMedia, Lines
  <1>2. SoFar(st, body, d, n)
    BY <1>1, BodyRead
  <1>3. /\ \A k : UpTo(Lines(body, k), n) = Lines(body, k)
        /\ UpTo(section, n) = section /\ UpTo(session, n) = session
    BY DEF UpTo, Lines, Section, SessionPart, IsBody
  <1>4. st.failed <=> Errors(body)
    BY <1>2, <1>3 DEF SoFar, Faulty, Errors
  <1>5. CASE Errors(body)
    <2> HIDE DEF st, n, section, session
    <2>1. ParseAnswer(body) = Failed
      BY <1>4, <1>5, AnswerOf DEF st, n
    <2>2. Meant(body, d) = Failed
      BY <1>5 DEF Meant
    <2>3. QED
      BY <2>1, <2>2
  <1>6. CASE ~Errors(body)
    <2> DEFINE own == LastOf(body, section, "c", "address", None)
               shared == LastOf(body, session, "c", "address", None)
    <2> HIDE DEF st, section, session, n
    <2>1. ReadOfMedium(st, body, d, n) /\ ReadOfSession(st, body, n)
      BY <1>2, <1>4, <1>6 DEF SoFar
    <2>2. /\ st.found /\ st.port = body[d].port
          /\ st.mediaAddr = own
          /\ st.kbps = LastOf(body, section, "b", "kbps", 0)
          /\ st.setup = LastOf(body, section, "a", "role", None)
      BY <1>1, <1>3, <2>1, IsLastOf DEF ReadOfMedium, section, IsBody
    <2>3. AddressOfAnother(body) \/ st.sessionAddr = shared
      BY <1>3, <2>1, IsLastOf DEF ReadOfSession, session, IsBody
    <2>4. ASSUME section \intersect Lines(body, "c") # {} PROVE Given(st.mediaAddr)
      BY <1>3, <2>1, <2>4 DEF ReadOfMedium, IsLast, IsBody, section
    <2>5. Else(st.mediaAddr, st.sessionAddr) = Else(own, shared)
      BY <2>2, <2>3, <2>4 DEF Else, section
    <2> DEFINE address == Else(own, shared)
    <2>6. Meant(body, d) =
             IF ~IsPort(body[d].port) \/ address \in {None, Unspecified} THEN Failed
             ELSE [address |-> address, port |-> body[d].port,
                   kbps  |-> LastOf(body, section, "b", "kbps", 0),
                   setup |-> LastOf(body, section, "a", "role", None)]
      BY <1>6 DEF Meant, section, session
    <2>7. ParseAnswer(body) =
             IF ~IsPort(st.port) \/ address \in {None, Unspecified} THEN Failed
             ELSE [address |-> address, port |-> st.port, kbps |-> st.kbps, setup |-> st.setup]
      BY <1>4, <1>6, <2>2, <2>5, AnswerOf DEF st, n
    <2>8. QED
      BY <2>2, <2>6, <2>7
  <1>7. QED
    BY <1>5, <1>6

\* A body without a data medium is no answer.
LEMMA NoMedium ==
  ASSUME NEW body, IsBody(body), DataMedia(body) = {}
  PROVE  ParseAnswer(body) = Failed
  <1> DEFINE st(n) == Reading(body)[n]
             T == {n \in Nat : n <= Len(body) =>
                                  DOMAIN st(n) = DOMAIN Begun /\ ~st(n).found}
  <1>1. /\ st(0) = Begun
        /\ \A n \in 1 .. Len(body) : st(n) = ReadLine(st(n - 1), body[n])
    BY ReadingIs DEF IsBody
  <1> HIDE DEF st
  <1>2. 0 \in T
    BY <1>1 DEF Begun
  <1>3. ASSUME NEW n \in Nat, n \in T PROVE n + 1 \in T
    <2> SUFFICES ASSUME n + 1 <= Len(body)
                 PROVE  DOMAIN st(n + 1) = DOMAIN Begun /\ ~st(n + 1).found
      OBVIOUS
    <2> DEFINE l == body[n + 1]
               s == st(n)
    <2>1. Len(body) \in Nat /\ n + 1 \in DOMAIN body /\ n + 1 \in 1 .. Len(body)
      BY DEF IsBody
    <2>2. st(n + 1) = ReadLine(s, l)
      BY <1>1, <2>1
    <2>3. DOMAIN s = {"sessionAddr", "mediaAddr", "inMedia", "found", "port", "kbps",
                      "setup", "failed"} /\ DOMAIN s = DOMAIN Begun /\ ~s.found
      BY <1>3, <2>1 DEF Begun
    <2>4. ~(l.key = "m" /\ l.fits)
      BY <2>1 DEF DataMedia, Lines
    <2> HIDE DEF s, l
    <2>5. DOMAIN ReadLine(s, l) = DOMAIN s /\ ReadLine(s, l).found = s.found
      BY <2>3, <2>4 DEF ReadLine, ReadConnection, ReadMedium
    <2>6. QED
      BY <2>2, <2>3, <2>5
  <1>4. Nat \subseteq T
    <2> HIDE DEF T
    <2>1. QED
      BY <1>2, <1>3, Induction
  <1>5. ~st(Len(body)).found
    BY <1>4 DEF IsBody
  <1>6. QED
    BY <1>5 DEF ParseAnswer, st
LEMMA Joined ==
  ASSUME NEW L, NEW s \in Seq(L), NEW t \in Seq(L)
  PROVE  /\ s \o t \in Seq(L) /\ Len(s \o t) = Len(s) + Len(t)
         /\ \A i \in 1 .. Len(s) : (s \o t)[i] = s[i]
         /\ \A i \in 1 .. Len(t) : (s \o t)[Len(s) + i] = t[i]
  OBVIOUS

\* The lines that Marshal writes.
LEMMA OfferLines ==
  ASSUME NEW offer, IsOffer(offer)
  PROVE  LET body == Marshal(offer)
             b == IF offer.kbps > 0 THEN 1 ELSE 0
             a == IF Given(offer.setup) THEN 1 ELSE 0
         IN  /\ body \in Seq(Range(body)) /\ DOMAIN body = 1 .. 6 + b + a
             /\ \A i \in {1, 2, 3, 5} : body[i] = Other
             /\ body[4] = Connection(offer.address)
             /\ body[6] = Medium(TRUE, offer.port)
             /\ b = 1 => body[7] = Bandwidth(offer.kbps)
             /\ a = 1 => body[7 + b] = Setup(offer.setup)
  <1> DEFINE first == <<Other, Other, Other, Connection(offer.address), Other,
                        Medium(TRUE, offer.port)>>
             bandwidth == IF offer.kbps > 0 THEN <<Bandwidth(offer.kbps)>> ELSE <<>>
             setup == IF Given(offer.setup) THEN <<Setup(offer.setup)>> ELSE <<>>
             L == {Other, Connection(offer.address), Medium(TRUE, offer.port),
                   Bandwidth(offer.kbps), Setup(offer.setup)}
             body == Marshal(offer)
             b == IF offer.kbps > 0 THEN 1 ELSE 0
             a == IF Given(offer.setup) THEN 1 ELSE 0
  <1>1. /\ first \in Seq(L) /\ Len(first) = 6
        /\ \A i \in {1, 2, 3, 5} : first[i] = Other
        /\ first[4] = Connection(offer.address) /\ first[6] = Medium(TRUE, offer.port)
    OBVIOUS
  <1>2. bandwidth \in Seq(L) /\ Len(bandwidth) = b /\ (b = 1 => bandwidth[1] = Bandwidth(offer.kbps))
    <2>1. CASE offer.kbps > 0
      <3>1. bandwidth = <<Bandwidth(offer.kbps)>> /\ b = 1
        BY <2>1
      <3> HIDE DEF bandwidth, b
      <3>2. QED
        BY <3>1
    <2>2. CASE ~(offer.kbps > 0)
      BY <2>2
    <2>3. QED
      BY <2>1, <2>2
  <1>3. setup \in Seq(L) /\ Len(setup) = a /\ (a = 1 => setup[1] = Setup(offer.setup))
    <2>1. CASE Given(offer.setup)
      BY <2>1
    <2>2. CASE ~Given(offer.setup)
      BY <2>2
    <2>3. QED
      BY <2>1, <2>2
  <1>4. b \in {0, 1} /\ a \in {0, 1}
    OBVIOUS
  <1>5. body = (first \o bandwidth) \o setup
    BY DEF Marshal
  <1> DEFINE most == first \o bandwidth
  <1> HIDE DEF first, bandwidth, setup, L, body, a, b, most
  <1>6. /\ most \in Seq(L) /\ Len(most) = 6 + b
        /\ \A i \in 1 .. 6 : most[i] = first[i]
        /\ b = 1 => most[7] = bandwidth[1]
    <2>1. first \in Seq(L) /\ bandwidth \in Seq(L) /\ most = first \o bandwidth
      BY <1>1, <1>2 DEF most
    <2>2. /\ most \in Seq(L) /\ Len(most) = Len(first) + Len(bandwidth)
          /\ \A i \in 1 .. Len(first) : most[i] = first[i]
          /\ \A i \in 1 .. Len(bandwidth) : most[Len(first) + i] = bandwidth[i]
      BY <2>1, Joined
    <2>3. ASSUME b = 1 PROVE most[7] = bandwidth[1]
      <3>1. 1 \in 1 .. Len(bandwidth) /\ Len(first) + 1 = 7
        BY <1>1, <1>2, <2>3
      <3>2. QED
        BY <2>2, <3>1
    <2>4. QED
      BY <1>1, <1>2, <2>2, <2>3
  <1>7. /\ body \in Seq(L) /\ Len(body) = 6 + b + a
        /\ \A i \in 1 .. 6 + b : body[i] = most[i]
        /\ a = 1 => body[7 + b] = setup[1]
    <2>1. body = most \o setup
      BY <1>5 DEF most
    <2>2. QED
      BY <1>3, <1>4, <1>6, <2>1, Joined
  <1>8. DOMAIN body = 1 .. 6 + b + a
    BY <1>7
  <1>9. /\ \A i \in {1, 2, 3, 5} : body[i] = Other
        /\ body[4] = Connection(offer.address)
        /\ body[6] = Medium(TRUE, offer.port)
        /\ b = 1 => body[7] = Bandwidth(offer.kbps)
        /\ a = 1 => body[7 + b] = Setup(offer.setup)
    <2>1. {1, 2, 3, 4, 5, 6} \subseteq 1 .. 6 /\ {1, 2, 3, 4, 5, 6} \subseteq 1 .. 6 + b
          /\ (b = 1 => 7 \in 1 .. 6 + b)
      BY <1>4
    <2>2. QED
      BY <1>1, <1>2, <1>3, <1>6, <1>7, <2>1
  <1>10. body \in Seq(Range(body))
    <2>1. body \in [1 .. Len(body) -> Range(body)] /\ Len(body) \in Nat
      BY <1>7 DEF Range
    <2>2. QED
      BY <2>1, SeqDef
  <1>11. QED
    BY <1>8, <1>9, <1>10 DEF a, b, body

\* What Marshal writes is read as it was meant.
THEOREM OfferIsRead ==
  ASSUME NEW offer, IsOffer(offer)
  PROVE  ParseAnswer(Marshal(offer)) = offer
  <1> DEFINE body == Marshal(offer)
             b == IF offer.kbps > 0 THEN 1 ELSE 0
             a == IF Given(offer.setup) THEN 1 ELSE 0
  <1>1. /\ body \in Seq(Range(body)) /\ DOMAIN body = 1 .. 6 + b + a
        /\ \A i \in {1, 2, 3, 5} : body[i] = Other
        /\ body[4] = Connection(offer.address)
        /\ body[6] = Medium(TRUE, offer.port)
        /\ b = 1 => body[7] = Bandwidth(offer.kbps)
        /\ a = 1 => body[7 + b] = Setup(offer.setup)
    BY OfferLines
  <1>2. b \in {0, 1} /\ a \in {0, 1} /\ (b = 0 <=> offer.kbps = 0) /\ (a = 0 <=> offer.setup = None)
    BY DEF IsOffer, Given
  <1> HIDE DEF body, a, b
  <1>3. \A i \in DOMAIN body :
           i \in {1, 2, 3, 4, 5, 6} \/ (i = 7 /\ b = 1) \/ (i = 7 + b /\ a = 1)
    BY <1>1, <1>2
  <1>4. /\ Lines(body, "m") = {6} /\ Lines(body, "c") = {4}
        /\ Lines(body, "b") = (IF b = 1 THEN {7} ELSE {})
        /\ Lines(body, "a") = (IF a = 1 THEN {7 + b} ELSE {})
    <2>1. /\ \A i \in {1, 2, 3, 5} : body[i].key = "v"
          /\ body[4].key = "c" /\ body[6].key = "m"
          /\ (b = 1 => body[7].key = "b") /\ (a = 1 => body[7 + b].key = "a")
      BY <1>1 DEF Other, Connection, Medium, Bandwidth, Setup
    <2>2. 4 \in DOMAIN body /\ 6 \in DOMAIN body
          /\ (b = 1 => 7 \in DOMAIN body) /\ (a = 1 => 7 + b \in DOMAIN body)
      BY <1>1, <1>2
    <2>3. \A i \in DOMAIN body : /\ body[i].key = "m" <=> i = 6
                                 /\ body[i].key = "c" <=> i = 4
                                 /\ body[i].key = "b" <=> i = 7 /\ b = 1
                                 /\ body[i].key = "a" <=> i = 7 + b /\ a = 1
      BY <1>2, <1>3, <2>1
    <2>4. QED
      BY <1>2, <2>2, <2>3 DEF Lines
  <1>5. /\ body[4].address = offer.address
        /\ body[6].port = offer.port /\ body[6].fits = TRUE
        /\ b = 1 => body[7].kbps = offer.kbps
        /\ a = 1 => body[7 + b].role = offer.setup
    BY <1>1 DEF Connection, Medium, Bandwidth, Setup
  <1>6. 4 \in DOMAIN body /\ 6 \in DOMAIN body /\ DOMAIN body \subseteq Nat
        /\ (b = 1 => 7 \in DOMAIN body) /\ (a = 1 => 7 + b \in DOMAIN body)
    BY <1>1, <1>2
  <1>7. DataMedia(body) = {6}
    BY <1>4, <1>5 DEF DataMedia
  <1>8. IsBody(body) /\ ~Errors(body) /\ ~AddressOfAnother(body)
    BY <1>1, <1>4, <1>5, <1>7 DEF IsBody, Errors, AddressOfAnother, IsOffer, Given
  <1>9. 4 \notin Section(body, 6) /\ 4 \in SessionPart(body)
        /\ (b = 1 => 7 \in Section(body, 6)) /\ (a = 1 => 7 + b \in Section(body, 6))
    BY <1>2, <1>4, <1>6 DEF Section, SessionPart
  <1>10. None = LastOf(body, Section(body, 6), "c", "address", None)
    <2>1. IsLast(None, body, Section(body, 6), "c", "address", None)
      BY <1>4, <1>9 DEF IsLast
    <2>2. QED
      BY <1>1, <2>1, IsLastOf
  <1>11. offer.address = LastOf(body, SessionPart(body), "c", "address", None)
    <2>1. IsLast(offer.address, body, SessionPart(body), "c", "address", None)
      BY <1>4, <1>5, <1>9 DEF IsLast, IsOffer, Given
    <2>2. QED
      BY <1>1, <2>1, IsLastOf
  <1>12. offer.kbps = LastOf(body, Section(body, 6), "b", "kbps", 0)
    <2>1. IsLast(offer.kbps, body, Section(body, 6), "b", "kbps", 0)
      BY <1>2, <1>4, <1>5, <1>9 DEF IsLast, IsOffer
    <2>2. QED
      BY <1>1, <2>1, IsLastOf
  <1>13. offer.setup = LastOf(body, Section(body, 6), "a", "role", None)
    <2>1. IsLast(offer.setup, body, Section(body, 6), "a", "role", None)
      BY <1>2, <1>4, <1>5, <1>9 DEF IsLast, Given
    <2>2. QED
      BY <1>1, <2>1, IsLastOf
  <1>14. Meant(body, 6) = offer
    <2>1. Else(None, offer.address) = offer.address
      BY DEF Else, Given
    <2>2. IsPort(body[6].port) /\ offer.address \notin {None, Unspecified}
      BY <1>5 DEF IsOffer
    <2>3. Meant(body, 6) = [address |-> offer.address, port |-> body[6].port,
                            kbps |-> offer.kbps, setup |-> offer.setup]
      BY <1>8, <1>10, <1>11, <1>12, <1>13, <2>1, <2>2 DEF Meant
    <2>4. QED
      BY <1>5, <2>3 DEF IsOffer
  <1>15. QED
    BY <1>7, <1>8, <1>14, AnswerIsMeant DEF body

\* What comes of a body once it is read.
BodyIsRead ==
    /\ input.kind = "answer" =>
          input.body \in Bodies /\ (output = None \/ output = ParseAnswer(input.body))
    /\ input.kind = "offer" =>
          input.offer \in Offers /\ (output = None \/ output = ParseAnswer(Marshal(input.offer)))

LEMMA BodyIsReadHolds == InputsSpec => []BodyIsRead
  <1>1. InputsInit => BodyIsRead
    BY DEF InputsInit, BodyIsRead
  <1>2. ASSUME BodyIsRead, [InputsNext]_inputsVars PROVE BodyIsRead'
    <2> USE DEF Returns
    <2>1. CASE ReadAnswer
      BY <1>2, <2>1 DEF ReadAnswer, BodyIsRead
    <2>2. CASE ReadOffer
      BY <1>2, <2>2 DEF ReadOffer, BodyIsRead
    <2>3. CASE input.kind \notin {"answer", "offer"} /\ UNCHANGED input
      BY <2>3 DEF BodyIsRead
    <2>4. CASE UNCHANGED inputsVars
      BY <1>2, <2>4 DEF BodyIsRead, inputsVars
    <2>5. QED
      BY <1>2, <2>1, <2>2, <2>3, <2>4 DEF InputsNext, ReadConfig, ReadOptions,
         ReadOur200, ReadInvite, ReadResponse
  <1>3. QED
    BY <1>1, <1>2, PTL DEF InputsSpec

\* Media goes where the answer says, and starts from the side it says, for
\* bodies of any length and offers of any port, bandwidth and role.
THEOREM AnswersAreTheMedias == InputsSpec => []AnswerIsTheMedias
  <1>1. BodyIsRead => AnswerIsTheMedias
    <2> SUFFICES ASSUME BodyIsRead, output # None PROVE AnswerIsTheMedias
      BY DEF AnswerIsTheMedias
    <2>1. ASSUME input.kind = "answer", DataMedia(input.body) = {} PROVE output = Failed
      BY <2>1, NoMedium, TextsOfSdpAssumption DEF BodyIsRead
    <2>2. ASSUME input.kind = "answer", NEW d \in DataMedia(input.body),
                 DataMedia(input.body) = {d},
                 \/ Section(input.body, d) \intersect Lines(input.body, "c") # {}
                 \/ ~AddressOfAnother(input.body)
          PROVE  output = Meant(input.body, d)
      BY <2>2, AnswerIsMeant, TextsOfSdpAssumption DEF BodyIsRead
    <2>3. ASSUME input.kind = "offer" PROVE output = input.offer
      BY <2>3, OfferIsRead, TextsOfSdpAssumption DEF BodyIsRead
    <2>4. QED
      BY <2>1, <2>2, <2>3 DEF AnswerIsTheMedias
  <1>2. QED
    BY <1>1, BodyIsReadHolds, PTL


-----------------------------------------------------------------------------
(***************************************************************************)
(* The vendor options, as dhclient prints them.                            *)
(***************************************************************************)
\* A flattened sequence is its first one, with the others behind it.
LEMMA FlattenIs ==
  ASSUME NEW S, NEW ss \in Seq(S), Len(ss) > 0
  PROVE  \E f : /\ FlattenSeq(ss) = f[Len(ss)] /\ f[1] = ss[1]
                /\ \A i \in Nat : i + 1 \in 2 .. Len(ss) => f[i + 1] = f[i] \o ss[i + 1]
  <1> DEFINE Good(g, k) == g = [i \in 1 .. k |-> IF i = 1 THEN ss[i] ELSE g[i - 1] \o ss[i]]
             T == {k \in Nat : \E g : Good(g, k)}
  <1>1. 0 \in T
    <2> DEFINE h == [i \in 1 .. 0 |-> ss[i]]
    <2>1. Good(h, 0)
      OBVIOUS
    <2> HIDE DEF h, Good
    <2>2. QED
      BY <2>1
  <1>2. ASSUME NEW k \in Nat, k \in T PROVE k + 1 \in T
    <2>1. PICK g : Good(g, k)
      BY <1>2
    <2> DEFINE h == [i \in 1 .. k + 1 |-> IF i = 1 THEN ss[i] ELSE g[i - 1] \o ss[i]]
    <2>2. \A i \in 1 .. k : h[i] = g[i]
      <3>1. \A i \in 1 .. k : g[i] = IF i = 1 THEN ss[i] ELSE g[i - 1] \o ss[i]
        BY <2>1
      <3>2. \A i \in 1 .. k : i \in 1 .. k + 1
        OBVIOUS
      <3>3. QED
        BY <3>1, <3>2
    <2>3. Good(h, k + 1)
      <3>1. \A i \in 1 .. k + 1 : i # 1 => i - 1 \in 1 .. k
        OBVIOUS
      <3>2. QED
        BY <2>2, <3>1
    <2> HIDE DEF h, Good
    <2>4. QED
      BY <2>3
  <1>3. Nat \subseteq T
    <2> HIDE DEF T
    <2>1. QED
      BY <1>1, <1>2, Induction
  <1>4. \E g : Good(g, Len(ss))
    <2> HIDE DEF Good
    <2>1. QED
      BY <1>3
  <1> DEFINE flat == CHOOSE g : Good(g, Len(ss))
  <1>5. Good(flat, Len(ss))
    BY <1>4
  <1>6. FlattenSeq(ss) = flat[Len(ss)]
    BY DEF FlattenSeq
  <1> HIDE DEF flat
  <1>7. flat[1] = ss[1]
    BY <1>5
  <1>8. ASSUME NEW i \in Nat, i + 1 \in 2 .. Len(ss) PROVE flat[i + 1] = flat[i] \o ss[i + 1]
    <2>1. i + 1 \in 1 .. Len(ss) /\ i + 1 # 1 /\ (i + 1) - 1 = i
      BY <1>8
    <2>2. QED
      BY <1>5, <2>1
  <1>9. QED
    BY <1>6, <1>7, <1>8

LEMMA FlattenGrows ==
  ASSUME NEW S, NEW ss \in Seq(Seq(S)), NEW x \in Seq(S)
  PROVE  /\ FlattenSeq(ss) \in Seq(S)
         /\ FlattenSeq(Append(ss, x)) = FlattenSeq(ss) \o x
  <1> DEFINE tt == Append(ss, x)
  <1>1. tt \in Seq(Seq(S)) /\ Len(tt) = Len(ss) + 1 /\ tt[Len(ss) + 1] = x
        /\ (\A i \in 1 .. Len(ss) : tt[i] = ss[i]) /\ Len(ss) \in Nat
    OBVIOUS
  <1> HIDE DEF tt
  <1>2. PICK g : /\ FlattenSeq(tt) = g[Len(tt)] /\ g[1] = tt[1]
                 /\ \A i \in Nat : i + 1 \in 2 .. Len(tt) => g[i + 1] = g[i] \o tt[i + 1]
    <2>1. Len(tt) > 0
      BY <1>1
    <2>2. QED
      BY <1>1, <2>1, FlattenIs
  <1>3. CASE Len(ss) = 0
    <2>1. FlattenSeq(ss) = <<>>
      BY <1>3 DEF FlattenSeq
    <2>2. FlattenSeq(tt) = x
      BY <1>1, <1>2, <1>3
    <2>3. QED
      BY <2>1, <2>2 DEF tt
  <1>4. CASE Len(ss) > 0
    <2>1. PICK f : /\ FlattenSeq(ss) = f[Len(ss)] /\ f[1] = ss[1]
                   /\ \A i \in Nat : i + 1 \in 2 .. Len(ss) => f[i + 1] = f[i] \o ss[i + 1]
      BY <1>4, FlattenIs
    <2> DEFINE T == {i \in Nat : i \in 1 .. Len(ss) => f[i] = g[i] /\ f[i] \in Seq(S)}
    <2>2. 0 \in T
      OBVIOUS
    <2>3. ASSUME NEW i \in Nat, i \in T PROVE i + 1 \in T
      <3> SUFFICES ASSUME i + 1 \in 1 .. Len(ss) PROVE f[i + 1] = g[i + 1] /\ f[i + 1] \in Seq(S)
        OBVIOUS
      <3>1. CASE i = 0
        BY <1>1, <1>2, <1>4, <2>1, <3>1
      <3>2. CASE i > 0
        <4>1. i \in 1 .. Len(ss) /\ i + 1 \in 2 .. Len(ss) /\ i + 1 \in 2 .. Len(tt)
          BY <1>1, <3>2
        <4>2. f[i] = g[i] /\ f[i] \in Seq(S)
          BY <2>3, <4>1
        <4>3. f[i + 1] = f[i] \o ss[i + 1] /\ g[i + 1] = g[i] \o ss[i + 1]
          BY <1>1, <1>2, <2>1, <4>1
        <4>4. QED
          BY <4>2, <4>3
      <3>3. QED
        BY <3>1, <3>2
    <2>4. Nat \subseteq T
      <3> HIDE DEF T
      <3>1. QED
        BY <2>2, <2>3, Induction
    <2>5. Len(ss) \in 1 .. Len(ss)
      BY <1>1, <1>4
    <2>6. f[Len(ss)] = g[Len(ss)] /\ f[Len(ss)] \in Seq(S)
      BY <1>1, <2>4, <2>5
    <2>7. Len(ss) + 1 \in 2 .. Len(tt)
      BY <1>1, <1>4
    <2>8. FlattenSeq(tt) = g[Len(ss)] \o x
      BY <1>1, <1>2, <2>7
    <2>9. QED
      BY <2>1, <2>6, <2>8 DEF tt
  <1>5. QED
    BY <1>1, <1>3, <1>4

\* The first n of them, flattened.
Flat(ss, n) == FlattenSeq(SubSeq(ss, 1, n))

LEMMA FlatIs ==
  ASSUME NEW S, NEW ss \in Seq(Seq(S))
  PROVE  /\ Flat(ss, 0) = <<>> /\ Flat(ss, Len(ss)) = FlattenSeq(ss)
         /\ \A n \in 0 .. Len(ss) : Flat(ss, n) \in Seq(S)
         /\ \A n \in Nat : n + 1 <= Len(ss) => Flat(ss, n + 1) = Flat(ss, n) \o ss[n + 1]
  <1>1. Flat(ss, 0) = <<>>
    BY DEF Flat, FlattenSeq
  <1>2. SubSeq(ss, 1, Len(ss)) = ss
    OBVIOUS
  <1>3. \A n \in 0 .. Len(ss) : SubSeq(ss, 1, n) \in Seq(Seq(S))
    OBVIOUS
  <1>4. ASSUME NEW n \in 0 .. Len(ss) PROVE Flat(ss, n) \in Seq(S)
    <2>1. <<>> \in Seq(S)
      OBVIOUS
    <2>2. QED
      BY <1>3, <2>1, FlattenGrows DEF Flat
  <1>5. ASSUME NEW n \in Nat, n + 1 <= Len(ss)
        PROVE  Flat(ss, n + 1) = Flat(ss, n) \o ss[n + 1]
    <2>1. SubSeq(ss, 1, n + 1) = Append(SubSeq(ss, 1, n), ss[n + 1])
      BY <1>5
    <2>2. SubSeq(ss, 1, n) \in Seq(Seq(S)) /\ ss[n + 1] \in Seq(S)
      BY <1>5
    <2>3. QED
      BY <2>1, <2>2, FlattenGrows DEF Flat
  <1>6. QED
    BY <1>1, <1>2, <1>4, <1>5 DEF Flat

\* Where each of them is in the whole.
LEMMA Placed ==
  ASSUME NEW S, NEW ss \in Seq(Seq(S))
  PROVE  \A m \in 0 .. Len(ss) :
           \A n \in Nat : n + 1 <= m =>
              /\ Len(Flat(ss, n + 1)) = Len(Flat(ss, n)) + Len(ss[n + 1])
              /\ Len(Flat(ss, n + 1)) <= Len(Flat(ss, m))
              /\ \A j \in 1 .. Len(ss[n + 1]) :
                    Flat(ss, m)[Len(Flat(ss, n)) + j] = ss[n + 1][j]
  <1> DEFINE At(m, n) ==
               /\ Len(Flat(ss, n + 1)) = Len(Flat(ss, n)) + Len(ss[n + 1])
               /\ Len(Flat(ss, n + 1)) <= Len(Flat(ss, m))
               /\ \A j \in 1 .. Len(ss[n + 1]) :
                     Flat(ss, m)[Len(Flat(ss, n)) + j] = ss[n + 1][j]
             T == {m \in Nat : m <= Len(ss) => \A n \in Nat : n + 1 <= m => At(m, n)}
  <1>1. 0 \in T
    <2> HIDE DEF At
    <2>1. QED
      OBVIOUS
  <1>2. ASSUME NEW m \in Nat, m \in T PROVE m + 1 \in T
    <2> SUFFICES ASSUME m + 1 <= Len(ss), NEW n \in Nat, n + 1 <= m + 1 PROVE At(m + 1, n)
      <3> HIDE DEF At
      <3>1. QED
        OBVIOUS
    <2>1. /\ Flat(ss, m) \in Seq(S) /\ Flat(ss, n) \in Seq(S) /\ Flat(ss, n + 1) \in Seq(S)
          /\ ss[m + 1] \in Seq(S) /\ ss[n + 1] \in Seq(S)
          /\ Flat(ss, m + 1) = Flat(ss, m) \o ss[m + 1]
      <3>1. m \in 0 .. Len(ss) /\ n \in 0 .. Len(ss) /\ n + 1 \in 0 .. Len(ss)
            /\ m + 1 \in DOMAIN ss /\ n + 1 \in DOMAIN ss
        OBVIOUS
      <3>2. QED
        BY <3>1, FlatIs, SMTT(30)
    <2>2. CASE n = m
      <3>1. \A j \in 1 .. Len(ss[m + 1]) : (Flat(ss, m) \o ss[m + 1])[Len(Flat(ss, m)) + j] = ss[m + 1][j]
        BY <2>1, Joined, SMTT(30)
      <3>2. Len(Flat(ss, m + 1)) = Len(Flat(ss, m)) + Len(ss[m + 1])
        BY <2>1, Joined
      <3>3. Len(Flat(ss, m + 1)) <= Len(Flat(ss, m + 1))
        BY <2>1, <2>2
      <3>4. QED
        BY <2>1, <2>2, <3>1, <3>2, <3>3
    <2>3. CASE n + 1 <= m
      <3>1. At(m, n)
        <4> HIDE DEF At
        <4>1. QED
          BY <1>2, <2>3
      <3>2. Len(Flat(ss, m)) <= Len(Flat(ss, m + 1))
        BY <2>1
      <3>3. ASSUME NEW j \in 1 .. Len(ss[n + 1])
            PROVE  Flat(ss, m + 1)[Len(Flat(ss, n)) + j] = ss[n + 1][j]
        <4>1. Len(Flat(ss, n)) + j \in 1 .. Len(Flat(ss, m))
          <5>1. Len(Flat(ss, n)) \in Nat /\ Len(Flat(ss, m)) \in Nat /\ Len(ss[n + 1]) \in Nat
            BY <2>1, SMTT(30)
          <5>2. Len(Flat(ss, n)) + Len(ss[n + 1]) <= Len(Flat(ss, m))
            BY <3>1
          <5>3. QED
            BY <5>1, <5>2
        <4>2. Flat(ss, m + 1)[Len(Flat(ss, n)) + j] = Flat(ss, m)[Len(Flat(ss, n)) + j]
          BY <2>1, <4>1, Joined
        <4>3. QED
          BY <3>1, <4>2
      <3>4. Len(Flat(ss, n + 1)) <= Len(Flat(ss, m + 1))
        BY <2>1, <3>1, <3>2
      <3>5. QED
        BY <3>1, <3>3, <3>4
    <2>4. QED
      BY <2>2, <2>3
  <1>3. Nat \subseteq T
    <2> HIDE DEF T
    <2>1. QED
      BY <1>1, <1>2, Induction
  <1> HIDE DEF At
  <1>4. \A m \in 0 .. Len(ss) : \A n \in Nat : n + 1 <= m => At(m, n)
    BY <1>3
  <1>5. QED
    BY <1>4 DEF At

\* Sequences of the same length, and the same at each place.
LEMMA SameSeq ==
  ASSUME NEW S, NEW s \in Seq(S), NEW t \in Seq(S), Len(s) = Len(t),
         \A i \in 1 .. Len(s) : s[i] = t[i]
  PROVE  s = t
  OBVIOUS

\* What is written in pieces of one length each.
LEMMA EvenPieces ==
  ASSUME NEW S, NEW ss \in Seq(Seq(S)), NEW k \in Nat, \A i \in DOMAIN ss : Len(ss[i]) = k
  PROVE  /\ FlattenSeq(ss) \in Seq(S) /\ Len(FlattenSeq(ss)) = k * Len(ss)
         /\ \A i \in DOMAIN ss : \A j \in Nat : 0 < j /\ j <= k => FlattenSeq(ss)[k * (i - 1) + j] = ss[i][j]
  <1> DEFINE T == {n \in Nat : n <= Len(ss) => Len(Flat(ss, n)) = k * n}
  <1>0. Len(ss) \in Nat /\ DOMAIN ss = 1 .. Len(ss)
    OBVIOUS
  <1>1. 0 \in T
    <2>1. Len(Flat(ss, 0)) = 0 /\ k * 0 = 0
      BY FlatIs
    <2>2. QED
      BY <2>1
  <1>2. ASSUME NEW n \in Nat, n \in T PROVE n + 1 \in T
    <2> SUFFICES ASSUME n + 1 <= Len(ss) PROVE Len(Flat(ss, n + 1)) = k * (n + 1)
      OBVIOUS
    <2>1. n + 1 \in DOMAIN ss /\ n + 1 \in 0 .. Len(ss)
      BY <1>0
    <2>2. Len(Flat(ss, n + 1)) = Len(Flat(ss, n)) + Len(ss[n + 1])
      BY <2>1, Placed
    <2>3. Len(Flat(ss, n)) = k * n /\ Len(ss[n + 1]) = k
      <3>1. n <= Len(ss)
        BY <1>0
      <3>2. Len(Flat(ss, n)) = k * n
        BY <1>2, <3>1
      <3>3. QED
        BY <2>1, <3>2
    <2>4. k * n + k = k * (n + 1)
      OBVIOUS
    <2>5. QED
      BY <2>2, <2>3, <2>4
  <1>3. Nat \subseteq T
    <2> HIDE DEF T
    <2>1. QED
      BY <1>1, <1>2, Induction
  <1>4. \A n \in 0 .. Len(ss) : Len(Flat(ss, n)) = k * n
    BY <1>3
  <1>5. ASSUME NEW i \in DOMAIN ss, NEW j \in Nat, 0 < j, j <= k
        PROVE  FlattenSeq(ss)[k * (i - 1) + j] = ss[i][j]
    <2>1. i - 1 \in Nat /\ (i - 1) + 1 = i /\ i <= Len(ss) /\ i - 1 \in 0 .. Len(ss)
          /\ Len(ss) \in 0 .. Len(ss)
      BY <1>0
    <2>2. Len(Flat(ss, i - 1)) = k * (i - 1) /\ Len(ss[i]) = k
      BY <1>4, <2>1
    <2> DEFINE n == i - 1
    <2> HIDE DEF n
    <2>3. n \in Nat /\ n + 1 <= Len(ss) /\ n + 1 = i
      BY <2>1 DEF n
    <2>4. \A l \in 1 .. Len(ss[n + 1]) : Flat(ss, Len(ss))[Len(Flat(ss, n)) + l] = ss[n + 1][l]
      BY <2>1, <2>3, Placed, ZenonT(30)
    <2>5. Flat(ss, Len(ss))[Len(Flat(ss, n)) + j] = ss[i][j]
      <3>1. ss[n + 1] = ss[i] /\ j \in 1 .. Len(ss[n + 1])
        BY <1>5, <2>2, <2>3
      <3>2. QED
        BY <2>4, <3>1
    <2>6. QED
      BY <2>2, <2>5, FlatIs DEF n
  <1>6. Len(ss) \in 0 .. Len(ss)
    BY <1>0
  <1>7. FlattenSeq(ss) \in Seq(S) /\ Len(FlattenSeq(ss)) = k * Len(ss)
    BY <1>4, <1>6, FlatIs
  <1>8. QED
    BY <1>5, <1>7

\* A sequence written as a function.
LEMMA FunctionIsSeq ==
  ASSUME NEW S, NEW n \in Nat, NEW f \in [1 .. n -> S]
  PROVE  f \in Seq(S) /\ Len(f) = n /\ DOMAIN f = 1 .. n
  <1>1. f \in Seq(S)
    BY SeqDef
  <1>2. QED
    BY <1>1

LEMMA Halves ==
  ASSUME NEW x \in Nat, NEW q, NEW r
  PROVE  /\ q = x \div 16 /\ r = x % 16 => q \in Nat /\ r \in Nat /\ 16 * q + r = x
         /\ q = x \div 256 /\ r = x % 256 => q \in Nat /\ r \in Nat /\ 256 * q + r = x
  OBVIOUS

LEMMA PairIs == \A x, y : Len(<<x, y>>) = 2 /\ <<x, y>>[1] = x /\ <<x, y>>[2] = y
  OBVIOUS

\* However dhclient prints two bytes or more, they are read back; one without
\* its leading zero is refused, and so is none.
LEMMA HexIsRead ==
  ASSUME NEW bytes \in Seq(Byte), NEW style \in Styles
  PROVE  /\ DecodeHexish(PrintHex(bytes, style)) \in {bytes, Failed}
         /\ Len(bytes) > 1 => DecodeHexish(PrintHex(bytes, style)) = bytes
  <1> DEFINE group(x) == IF style = "short" /\ x < 16 THEN <<x>> ELSE <<x \div 16, x % 16>>
             text == PrintHex(bytes, style)
             n == Len(bytes)
             groups == [i \in DOMAIN bytes |-> group(bytes[i])]
  <1>1. n \in Nat /\ DOMAIN bytes = 1 .. n /\ \A i \in 1 .. n : bytes[i] \in Nat /\ bytes[i] \in Byte
    BY DEF Byte
  <1>2. ASSUME NEW x \in Nat
        PROVE  group(x) \in Seq(Nat) /\ Len(group(x)) \in {1, 2}
    <2>1. x \div 16 \in Nat /\ x % 16 \in Nat
      OBVIOUS
    <2>2. CASE style = "short" /\ x < 16
      BY <2>2
    <2>3. CASE ~(style = "short" /\ x < 16)
      BY <2>1, <2>3
    <2>4. QED
      BY <2>2, <2>3
  <1>3. text.groups = groups /\ (text.colons <=> style # "plain" /\ n > 1)
    BY DEF PrintHex
  <1> HIDE DEF text, group
  <1>4. groups \in Seq(Seq(Nat)) /\ Len(groups) = n /\ DOMAIN groups = 1 .. n
    BY <1>1, <1>2, FunctionIsSeq
  <1> HIDE DEF groups, n
  <1> DEFINE bare == n = 1 /\ style = "short" /\ bytes[1] < 16
  <1>5. CASE n > 0 /\ (style = "plain" \/ n = 1) /\ ~bare
    <2>1. \A i \in 1 .. n : ~(style = "short" /\ bytes[i] < 16)
      BY <1>1, <1>5
    <2>2. \A i \in 1 .. n : groups[i] = <<bytes[i] \div 16, bytes[i] % 16>>
      BY <1>1, <2>1 DEF groups, group
    <2>3. ASSUME NEW i \in DOMAIN groups
          PROVE  /\ Len(groups[i]) = 2
                 /\ groups[i][1] = bytes[i] \div 16 /\ groups[i][2] = bytes[i] % 16
      <3>1. groups[i] = <<bytes[i] \div 16, bytes[i] % 16>>
        BY <1>4, <2>2
      <3>2. QED
        BY <3>1, PairIs
    <2> DEFINE digits == FlattenSeq(groups)
    <2>4. /\ Len(digits) = 2 * n
          /\ \A i \in 1 .. n : /\ digits[2 * i - 1] = groups[i][1]
                              /\ digits[2 * i] = groups[i][2]
      <3> DEFINE k == 2
      <3>1. k \in Nat /\ k = 2 /\ \A i \in DOMAIN groups : Len(groups[i]) = k
        BY <2>3
      <3> HIDE DEF k
      <3>2. /\ Len(digits) = k * n
            /\ \A i \in DOMAIN groups : \A j \in Nat :
                  0 < j /\ j <= k => digits[k * (i - 1) + j] = groups[i][j]
        BY <1>4, <3>1, EvenPieces, ZenonT(30)
      <3>3. ASSUME NEW i \in 1 .. n
            PROVE  digits[2 * i - 1] = groups[i][1] /\ digits[2 * i] = groups[i][2]
        <4>1. digits[k * (i - 1) + 1] = groups[i][1] /\ digits[k * (i - 1) + 2] = groups[i][2]
          <5>1. i \in DOMAIN groups /\ 1 \in Nat /\ 0 < 1 /\ 1 <= k /\ 2 \in Nat /\ 0 < 2 /\ 2 <= k
            BY <1>4, <3>1
          <5>2. QED
            BY <3>2, <5>1, Zenon
        <4>2. k * (i - 1) + 1 = 2 * i - 1 /\ k * (i - 1) + 2 = 2 * i
          BY <1>1, <3>1
        <4>3. QED
          BY <4>1, <4>2, Zenon
      <3>4. QED
        BY <3>1, <3>2, <3>3
    <2> HIDE DEF digits
    <2>5. ASSUME NEW i \in 1 .. n PROVE 16 * digits[2 * i - 1] + digits[2 * i] = bytes[i]
      <3>1. digits[2 * i - 1] = bytes[i] \div 16 /\ digits[2 * i] = bytes[i] % 16
        BY <1>4, <2>3, <2>4
      <3>2. \A q, r : q = bytes[i] \div 16 /\ r = bytes[i] % 16 => 16 * q + r = bytes[i]
        BY <1>1, Halves, ZenonT(30)
      <3>3. QED
        BY <3>1, <3>2, Zenon
    <2>6. Len(digits) % 2 # 1 /\ Len(digits) \div 2 = n
      BY <1>1, <2>4
    <2>7. DecodeHexish(text) = [i \in 1 .. n |-> 16 * digits[2 * i - 1] + digits[2 * i]]
      <3>1. text.groups # <<>> /\ ~text.colons
        BY <1>3, <1>4, <1>5
      <3>2. QED
        BY <1>3, <2>6, <3>1 DEF DecodeHexish, HexPairs, digits
    <2>8. [i \in 1 .. n |-> 16 * digits[2 * i - 1] + digits[2 * i]] = [i \in 1 .. n |-> bytes[i]]
      BY <2>5
    <2>9. [i \in 1 .. n |-> bytes[i]] = bytes
      BY <1>1
    <2>10. QED
      BY <2>7, <2>8, <2>9 DEF text
  <1>6. CASE style # "plain" /\ n > 1
    <2> DEFINE ungroup(g) == IF Len(g) < 2 THEN g ELSE <<16 * g[1] + g[2]>>
               ss == [i \in DOMAIN groups |-> ungroup(groups[i])]
    <2>1. \A x \in Nat : ungroup(group(x)) = <<x>> /\ <<x>> \in Seq(Nat) /\ Len(group(x)) <= 2
      <3> SUFFICES ASSUME NEW x \in Nat PROVE ungroup(group(x)) = <<x>> /\ Len(group(x)) <= 2
        OBVIOUS
      <3>1. CASE style = "short" /\ x < 16
        BY <3>1 DEF group
      <3>2. CASE ~(style = "short" /\ x < 16)
        <4>1. group(x) = <<x \div 16, x % 16>>
          BY <3>2 DEF group
        <4>2. Len(group(x)) = 2 /\ group(x)[1] = x \div 16 /\ group(x)[2] = x % 16
          BY <4>1, PairIs
        <4>3. \A q, r : q = x \div 16 /\ r = x % 16 => 16 * q + r = x
          BY Halves, ZenonT(30)
        <4>4. 16 * group(x)[1] + group(x)[2] = x
          BY <4>2, <4>3, Zenon
        <4>5. QED
          BY <4>2, <4>4
      <3>3. QED
        BY <3>1, <3>2
    <2> HIDE DEF ungroup
    <2>2. \A i \in 1 .. n : ss[i] = <<bytes[i]>> /\ Len(groups[i]) <= 2
      BY <1>1, <1>4, <2>1 DEF groups
    <2>3. ss \in Seq(Seq(Nat)) /\ Len(ss) = n /\ DOMAIN ss = 1 .. n
      <3>1. \A i \in 1 .. n : ungroup(groups[i]) \in Seq(Nat)
        BY <1>1, <1>4, <2>1 DEF groups
      <3>2. QED
        BY <1>1, <1>4, <3>1, FunctionIsSeq
    <2> HIDE DEF ss
    <2>4. \A i \in DOMAIN ss : Len(ss[i]) = 1 /\ ss[i][1] = bytes[i]
      <3>1. \A x : Len(<<x>>) = 1 /\ <<x>>[1] = x
        OBVIOUS
      <3>2. QED
        BY <2>2, <2>3, <3>1, Zenon
    <2> DEFINE flat == FlattenSeq(ss)
    <2>5. flat \in Seq(Nat) /\ Len(flat) = n /\ \A i \in 1 .. n : flat[i] = ss[i][1]
      <3> DEFINE k == 1
      <3>1. k \in Nat /\ k = 1 /\ \A i \in DOMAIN ss : Len(ss[i]) = k
        BY <2>4
      <3> HIDE DEF k
      <3>2. /\ flat \in Seq(Nat) /\ Len(flat) = k * n
            /\ \A i \in DOMAIN ss : \A j \in Nat :
                  0 < j /\ j <= k => flat[k * (i - 1) + j] = ss[i][j]
        BY <2>3, <3>1, EvenPieces, ZenonT(30)
      <3>3. ASSUME NEW i \in 1 .. n PROVE flat[i] = ss[i][1]
        <4>1. flat[k * (i - 1) + 1] = ss[i][1]
          <5>1. i \in DOMAIN ss /\ 1 \in Nat /\ 0 < 1 /\ 1 <= k
            BY <2>3, <3>1
          <5>2. QED
            BY <3>2, <5>1, Zenon
        <4>2. k * (i - 1) + 1 = i
          BY <1>1, <3>1
        <4>3. QED
          BY <4>1, <4>2, Zenon
      <3>4. k * n = n
        BY <1>1, <3>1
      <3>5. QED
        BY <3>2, <3>3, <3>4
    <2> HIDE DEF flat
    <2>6. \A i \in 1 .. n : flat[i] = bytes[i]
      BY <2>3, <2>4, <2>5
    <2>7. flat = bytes
      <3>1. bytes \in Seq(Nat)
        BY DEF Byte
      <3>2. Len(flat) = Len(bytes)
        BY <1>1, <2>5 DEF n
      <3>3. QED
        BY <2>5, <2>6, <3>1, <3>2, SameSeq DEF n
    <2>8. DecodeHexish(text) = flat
      <3>1. ~\E i \in DOMAIN text.groups : Len(text.groups[i]) > 2
        <4>1. \A i \in 1 .. n : Len(groups[i]) \in Nat
          BY <1>4
        <4>2. QED
          BY <1>3, <1>4, <2>2, <4>1
      <3>2. text.groups # <<>> /\ text.colons
        BY <1>3, <1>4, <1>6
      <3>3. QED
        BY <1>3, <3>1, <3>2 DEF DecodeHexish, flat, ss, ungroup
    <2>9. QED
      BY <2>7, <2>8 DEF text
  <1>7. CASE n = 0
    <2>1. text.groups = <<>>
      BY <1>3, <1>4, <1>7
    <2>2. DecodeHexish(text) = Failed
      BY <2>1 DEF DecodeHexish
    <2>3. QED
      BY <1>7, <2>2 DEF text, n
  <1>8. CASE bare
    <2>1. \A i \in DOMAIN groups : Len(groups[i]) = 1
      <3>1. groups[1] = <<bytes[1]>>
        BY <1>1, <1>8 DEF groups, group
      <3>2. QED
        BY <1>4, <1>8, <3>1
    <2> DEFINE digits == FlattenSeq(groups)
    <2>2. Len(digits) = 1
      <3> DEFINE k == 1
      <3>1. k \in Nat /\ \A i \in DOMAIN groups : Len(groups[i]) = k
        BY <2>1
      <3> HIDE DEF k
      <3>2. Len(digits) = k * n
        BY <1>4, <3>1, EvenPieces
      <3>3. QED
        BY <1>8, <3>2 DEF k
    <2> HIDE DEF digits
    <2>3. text.groups # <<>> /\ ~text.colons
      <3>1. n = 1 /\ ~(n > 1)
        BY <1>8
      <3>2. groups # <<>>
        <4>1. Len(groups) # 0 /\ Len(<<>>) = 0
          BY <1>4, <3>1
        <4>2. QED
          BY <4>1, Zenon
      <3>3. QED
        BY <1>3, <3>1, <3>2, Zenon
    <2>4. HexPairs(text) = Failed
      BY <1>3, <2>2 DEF HexPairs, digits
    <2>5. DecodeHexish(text) = Failed
      BY <2>3, <2>4 DEF DecodeHexish
    <2>6. QED
      BY <1>8, <2>5 DEF text, n
  <1>9. QED
    BY <1>1, <1>5, <1>6, <1>7, <1>8 DEF n

\* Each piece is behind the one that leads to it.
Ordered(b, pieces) == \A j \in DOMAIN pieces : pieces[j].next \in j + 1 .. Len(b) + 1

\* What Pieces says of itself is so.
LEMMA PiecesAre ==
  ASSUME NEW b, Len(b) \in Nat, NEW ends, NEW pieces, Ordered(b, pieces)
  PROVE  \A j \in 1 .. Len(b) + 1 :
           Pieces(b, j, ends, pieces) =
             IF j \in ends THEN <<>>
             ELSE IF j \notin DOMAIN pieces THEN Failed
             ELSE Prepend(pieces[j].value, Pieces(b, pieces[j].next, ends, pieces))
  <1> DEFINE e == Len(b) + 1
             Step(g, j) == IF j \in ends THEN <<>>
                           ELSE IF j \notin DOMAIN pieces THEN Failed
                           ELSE Prepend(pieces[j].value, g[pieces[j].next])
             Good(g, k) == g = [j \in k .. e |-> Step(g, j)]
             T == {m \in Nat : m < e => \E g : Good(g, e - m)}
  <1>0. e \in Nat /\ e > 0 /\ Len(b) = e - 1
    OBVIOUS
  <1>1. \A j \in DOMAIN pieces : pieces[j].next \in j + 1 .. e
    BY DEF Ordered
  <1>2. ASSUME NEW k \in Nat, NEW g, NEW h, \A j \in k + 1 .. e : g[j] = h[j]
        PROVE  \A j \in k .. e : Step(g, j) = Step(h, j)
    <2>1. ASSUME NEW j \in k .. e, j \in DOMAIN pieces PROVE g[pieces[j].next] = h[pieces[j].next]
      <3>1. pieces[j].next \in k + 1 .. e
        BY <1>0, <1>1, <2>1
      <3>2. QED
        BY <1>2, <3>1
    <2>2. QED
      BY <2>1
  <1> HIDE DEF Step
  <1>3. 0 \in T
    <2> DEFINE h == [j \in e .. e |-> Step(<<>>, j)]
    <2>1. \A j \in e + 1 .. e : <<>>[j] = h[j]
      BY <1>0
    <2>2. \A j \in e .. e : Step(<<>>, j) = Step(h, j)
      <3> HIDE DEF h, e
      <3>1. QED
        <4>1. ASSUME NEW g, \A j \in e + 1 .. e : g[j] = h[j]
              PROVE  \A j \in e .. e : Step(g, j) = Step(h, j)
          BY <1>0, <1>2, <4>1
        <4>2. QED
          BY <2>1, <4>1
    <2>3. Good(h, e - 0)
      BY <1>0, <2>2
    <2> HIDE DEF h, Good, e
    <2>4. QED
      BY <2>3
  <1>4. ASSUME NEW m \in Nat, m \in T PROVE m + 1 \in T
    <2> SUFFICES ASSUME m + 1 < e PROVE \E g : Good(g, e - (m + 1))
      OBVIOUS
    <2>1. PICK g : Good(g, e - m)
      BY <1>0, <1>4
    <2> DEFINE k == e - (m + 1)
               h == [j \in k .. e |-> Step(g, j)]
    <2>2. k \in Nat /\ k + 1 = e - m /\ \A j \in k + 1 .. e : j \in k .. e
      BY <1>0
    <2> HIDE DEF k
    <2>3. \A j \in k + 1 .. e : g[j] = h[j]
      <3>1. \A j \in k + 1 .. e : g[j] = Step(g, j)
        BY <2>1, <2>2
      <3>2. QED
        BY <2>2, <3>1
    <2>4. \A j \in k .. e : Step(g, j) = Step(h, j)
      <3> HIDE DEF h
      <3>1. QED
        BY <1>2, <2>2, <2>3
    <2>5. Good(h, k)
      BY <2>4
    <2> HIDE DEF h, Good, e
    <2>6. QED
      BY <2>5 DEF k
  <1>5. Nat \subseteq T
    <2> HIDE DEF T
    <2>1. QED
      BY <1>3, <1>4, Induction
  <1>6. \E g : Good(g, 1)
    <2> HIDE DEF Good
    <2>1. e - 1 \in Nat /\ e - 1 < e /\ e - (e - 1) = 1
      BY <1>0
    <2> HIDE DEF e
    <2>2. QED
      BY <1>5, <2>1
  <1> DEFINE from == CHOOSE g : Good(g, 1)
  <1>7. Good(from, 1)
    BY <1>6
  <1>8. \A j : Pieces(b, j, ends, pieces) = from[j]
    BY DEF Pieces, Step
  <1> HIDE DEF from
  <1>9. \A j \in 1 .. e : from[j] = Step(from, j)
    BY <1>7
  <1>10. QED
    BY <1>8, <1>9, Zenon DEF Step, e

\* Pieces that follow each other are read in their order, with what comes of
\* the rest.
Chained(at, items, ends, pieces) ==
    \A n \in Nat : n + 1 <= Len(items) =>
       /\ at[n] \in DOMAIN pieces /\ at[n] \notin ends
       /\ pieces[at[n]].value = items[n + 1] /\ pieces[at[n]].next = at[n + 1]

LEMMA ChainRead ==
  ASSUME NEW b, Len(b) \in Nat, NEW ends, NEW pieces, Ordered(b, pieces),
         NEW I, Failed \notin Seq(I), NEW items \in Seq(I),
         NEW at \in [0 .. Len(items) -> 1 .. Len(b) + 1],
         Chained(at, items, ends, pieces)
  PROVE  LET rest == Pieces(b, at[Len(items)], ends, pieces)
             all  == Pieces(b, at[0], ends, pieces)
         IN  (rest = Failed => all = Failed) /\ (rest = <<>> => all = items)
  <1> DEFINE N == Len(items)
             P(n) == Pieces(b, at[n], ends, pieces)
             ReadFrom(k) == /\ P(N) = Failed => P(N - k) = Failed
                            /\ P(N) = <<>> => P(N - k) = SubSeq(items, N - k + 1, N)
             T == {k \in Nat : k <= N => ReadFrom(k)}
  <1>0. N \in Nat
    OBVIOUS
  <1>1. ASSUME NEW n \in Nat, n + 1 <= N PROVE P(n) = Prepend(items[n + 1], P(n + 1))
    <2>1. n \in 0 .. N /\ at[n] \in 1 .. Len(b) + 1
      BY <1>0, <1>1
    <2>2. QED
      BY <1>1, <2>1, PiecesAre DEF Chained
  <1> HIDE DEF P
  <1>2. 0 \in T
    <2>1. SubSeq(items, N - 0 + 1, N) = <<>> /\ N - 0 = N
      BY <1>0
    <2>2. QED
      BY <2>1
  <1>3. ASSUME NEW k \in Nat, k \in T PROVE k + 1 \in T
    <2> SUFFICES ASSUME k + 1 <= N PROVE ReadFrom(k + 1)
      <3> HIDE DEF ReadFrom
      <3>1. QED
        OBVIOUS
    <2> DEFINE n == N - (k + 1)
    <2>1. n \in Nat /\ n + 1 <= N /\ N - k = n + 1 /\ k <= N
      BY <1>0
    <2>2. /\ P(N) = Failed => P(n + 1) = Failed
          /\ P(N) = <<>> => P(n + 1) = SubSeq(items, n + 2, N)
      <3>1. N - k + 1 = n + 2 /\ N - k = n + 1 /\ k <= N
        BY <1>0
      <3>2. ReadFrom(k)
        <4> HIDE DEF ReadFrom
        <4>1. QED
          BY <1>3, <3>1
      <3> HIDE DEF n, N
      <3>3. QED
        BY <3>1, <3>2, Zenon
    <2> HIDE DEF n, N
    <2>3. P(n) = Prepend(items[n + 1], P(n + 1))
      BY <1>1, <2>1
    <2>4. ASSUME P(N) = <<>> PROVE P(n) = SubSeq(items, n + 1, N)
      <3>1. SubSeq(items, n + 2, N) \in Seq(I)
        BY <1>0, <2>1 DEF N
      <3>2. <<items[n + 1]>> \o SubSeq(items, n + 2, N) = SubSeq(items, n + 1, N)
        BY <1>0, <2>1 DEF N
      <3>3. QED
        BY <2>2, <2>3, <2>4, <3>1, <3>2 DEF Prepend
    <2>5. P(N) = Failed => P(n) = Failed
      BY <2>2, <2>3 DEF Prepend
    <2>6. QED
      BY <2>4, <2>5 DEF n
  <1>4. Nat \subseteq T
    <2> HIDE DEF T
    <2>1. QED
      BY <1>2, <1>3, Induction
  <1>5. /\ P(N) = Failed => P(0) = Failed
        /\ P(N) = <<>> => P(0) = SubSeq(items, 1, N)
    <2>1. N - N = 0 /\ N - N + 1 = 1 /\ N <= N
      BY <1>0
    <2>2. ReadFrom(N)
      <3> HIDE DEF ReadFrom, N
      <3>1. QED
        BY <1>0, <1>4, <2>1
    <2> HIDE DEF N
    <2>3. QED
      BY <2>1, <2>2
  <1>6. SubSeq(items, 1, N) = items
    OBVIOUS
  <1>7. QED
    BY <1>5, <1>6 DEF P

\* Where each is in b, between a head and a tail.
Between(b, S, head, ss, tail) ==
    LET before(n) == Len(head) + Len(Flat(ss, n))
    IN  /\ b \in Seq(S) /\ Len(b) = before(Len(ss)) + Len(tail)
        /\ \A n \in 0 .. Len(ss) : before(n) \in Nat
        /\ before(0) = Len(head)
        /\ \A n \in Nat : n + 1 <= Len(ss) =>
              /\ before(n + 1) = before(n) + Len(ss[n + 1])
              /\ before(n + 1) <= before(Len(ss))
              /\ \A j \in 1 .. Len(ss[n + 1]) : b[before(n) + j] = ss[n + 1][j]
        /\ \A j \in 1 .. Len(tail) : b[before(Len(ss)) + j] = tail[j]

LEMMA PlacedIn ==
  ASSUME NEW S, NEW head \in Seq(S), NEW ss \in Seq(Seq(S)), NEW tail \in Seq(S), NEW b,
         b = (head \o FlattenSeq(ss)) \o tail
  PROVE  Between(b, S, head, ss, tail)
  <1> DEFINE N == Len(ss)
             flat == FlattenSeq(ss)
             h == Len(head)
             front == head \o flat
  <1>1. N \in Nat /\ N \in 0 .. N /\ flat \in Seq(S) /\ Flat(ss, N) = flat /\ h \in Nat
        /\ Flat(ss, 0) = <<>> /\ \A n \in 0 .. N : Flat(ss, n) \in Seq(S)
    BY FlatIs
  <1>2. \A n \in 0 .. N : Len(Flat(ss, n)) \in Nat
    BY <1>1
  <1>3. \A n \in Nat : n + 1 <= N =>
           /\ Len(Flat(ss, n + 1)) = Len(Flat(ss, n)) + Len(ss[n + 1])
           /\ Len(Flat(ss, n + 1)) <= Len(flat)
           /\ \A j \in 1 .. Len(ss[n + 1]) : flat[Len(Flat(ss, n)) + j] = ss[n + 1][j]
    <2>1. \A n \in Nat : n + 1 <= N =>
             /\ Len(Flat(ss, n + 1)) = Len(Flat(ss, n)) + Len(ss[n + 1])
             /\ Len(Flat(ss, n + 1)) <= Len(Flat(ss, N))
             /\ \A j \in 1 .. Len(ss[n + 1]) : Flat(ss, N)[Len(Flat(ss, n)) + j] = ss[n + 1][j]
      BY <1>1, Placed
    <2> HIDE DEF flat, N
    <2>2. QED
      BY <1>1, <2>1
  <1> HIDE DEF flat, h, N
  <1>4. /\ front \in Seq(S) /\ Len(front) = h + Len(flat)
        /\ \A i \in 1 .. Len(flat) : front[h + i] = flat[i]
    BY <1>1, Joined DEF h
  <1>5. /\ b \in Seq(S) /\ Len(b) = Len(front) + Len(tail)
        /\ \A i \in 1 .. Len(front) : b[i] = front[i]
        /\ \A j \in 1 .. Len(tail) : b[Len(front) + j] = tail[j]
    <2>1. b = front \o tail
      BY DEF flat
    <2>2. front \in Seq(S)
      BY <1>4
    <2> HIDE DEF front
    <2>3. QED
      BY <2>1, <2>2, Joined
  <1> HIDE DEF front
  <1>6. Len(front) = h + Len(Flat(ss, N)) /\ Len(flat) = Len(Flat(ss, N)) /\ Len(flat) \in Nat
    BY <1>1, <1>4
  <1>7. ASSUME NEW n \in Nat, n + 1 <= N
        PROVE  /\ h + Len(Flat(ss, n + 1)) = h + Len(Flat(ss, n)) + Len(ss[n + 1])
               /\ h + Len(Flat(ss, n + 1)) <= h + Len(Flat(ss, N))
               /\ \A j \in 1 .. Len(ss[n + 1]) : b[h + Len(Flat(ss, n)) + j] = ss[n + 1][j]
    <2>1. n \in 0 .. N /\ n + 1 \in 0 .. N /\ ss[n + 1] \in Seq(S)
      BY <1>1, <1>7 DEF N
    <2> DEFINE x == Len(Flat(ss, n))
               l == Len(ss[n + 1])
    <2>2. x \in Nat /\ l \in Nat /\ x + l <= Len(flat) /\ Len(Flat(ss, n + 1)) = x + l
          /\ \A j \in 1 .. l : flat[x + j] = ss[n + 1][j]
      <3>1. x \in Nat /\ l \in Nat
        BY <1>2, <2>1
      <3>2. /\ Len(Flat(ss, n + 1)) = x + l /\ Len(Flat(ss, n + 1)) <= Len(flat)
            /\ \A j \in 1 .. l : flat[x + j] = ss[n + 1][j]
        BY <1>3, <1>7
      <3> HIDE DEF x, l
      <3>3. QED
        BY <3>1, <3>2
    <2> HIDE DEF x, l
    <2>3. ASSUME NEW j \in 1 .. l PROVE b[h + x + j] = ss[n + 1][j]
      <3>1. x + j \in 1 .. Len(flat) /\ h + (x + j) = h + x + j /\ h + x + j \in 1 .. Len(front)
        BY <1>1, <1>4, <1>6, <2>2
      <3>2. front[h + (x + j)] = flat[x + j]
        BY <1>4, <3>1
      <3>3. QED
        BY <1>5, <2>2, <3>1, <3>2
    <2>4. h + Len(Flat(ss, n + 1)) = h + x + l
      <3>1. h \in Nat /\ x \in Nat /\ l \in Nat /\ Len(Flat(ss, n + 1)) = x + l
        BY <1>1, <2>2
      <3>2. h + (x + l) = h + x + l
        BY <3>1
      <3>3. QED
        BY <3>1, <3>2, Zenon
    <2>5. h + Len(Flat(ss, n + 1)) <= h + Len(Flat(ss, N))
      BY <1>1, <1>6, <2>2, <2>4
    <2>6. QED
      BY <2>3, <2>4, <2>5 DEF x, l
  <1>8. \A n \in 0 .. N : h + Len(Flat(ss, n)) \in Nat
    BY <1>1, <1>2
  <1>9. h + Len(Flat(ss, 0)) = h
    BY <1>1
  <1>10. Len(b) = h + Len(Flat(ss, N)) + Len(tail)
    BY <1>5, <1>6
  <1>11. \A j \in 1 .. Len(tail) : b[h + Len(Flat(ss, N)) + j] = tail[j]
    BY <1>5, <1>6
  <1>12. QED
    BY <1>5, <1>7, <1>8, <1>9, <1>10, <1>11 DEF h, N, Between

\* A name is read back, and one that goes on with what is no label is refused.
LEMMA NameIsRead ==
  ASSUME Failed \notin Seq(Seq(Byte)), NEW labels \in Seq(Label), NEW tail \in Seq(Byte)
  PROVE  LET name == DecodeDNSName(EncodeName(labels) \o tail)
         IN  /\ EndsName(tail) => name = (IF labels = <<>> THEN Failed ELSE labels)
             /\ NoLabel(tail) => name = Failed
  <1> DEFINE N == Len(labels)
             ss == [i \in DOMAIN labels |-> <<Len(labels[i])>> \o labels[i]]
             b == EncodeName(labels) \o tail
             head == <<>>
             before(n) == Len(head) + Len(Flat(ss, n))
             ends == {i \in DOMAIN b : b[i] = 0} \union {Len(b) + 1}
             whole == {j \in DOMAIN b : IsLabel(b, j)}
             pieces == [i \in whole |-> LabelAt(b, i)]
             at == [n \in 0 .. N |-> before(n) + 1]
  <1>1. \A x \in Byte : x \in Nat
    BY DEF Byte
  <1>2. N \in Nat /\ \A i \in 1 .. N : /\ labels[i] \in Seq(Byte) /\ labels[i] \in Label
                                       /\ Len(labels[i]) \in Nat
                                       /\ 0 < Len(labels[i]) /\ Len(labels[i]) < 64
    BY DEF Label
  <1> HIDE DEF N
  <1>3. \A i \in 1 .. N : /\ Len(labels[i]) \in Byte
                          /\ <<Len(labels[i])>> \o labels[i] \in Seq(Byte)
                          /\ Len(<<Len(labels[i])>> \o labels[i]) = 1 + Len(labels[i])
                          /\ (<<Len(labels[i])>> \o labels[i])[1] = Len(labels[i])
                          /\ \A j \in 1 .. Len(labels[i]) :
                                (<<Len(labels[i])>> \o labels[i])[1 + j] = labels[i][j]
    <2> SUFFICES ASSUME NEW i \in 1 .. N
                 PROVE  LET l == labels[i] IN
                        /\ Len(l) \in Byte
                        /\ <<Len(l)>> \o l \in Seq(Byte)
                        /\ Len(<<Len(l)>> \o l) = 1 + Len(l)
                        /\ (<<Len(l)>> \o l)[1] = Len(l)
                        /\ \A j \in 1 .. Len(l) : (<<Len(l)>> \o l)[1 + j] = l[j]
      OBVIOUS
    <2> DEFINE l == labels[i]
               x == Len(l)
    <2>1. x \in Byte /\ l \in Seq(Byte)
      BY <1>2 DEF Byte
    <2> HIDE DEF x
    <2>2. <<x>> \in Seq(Byte) /\ Len(<<x>>) = 1 /\ <<x>>[1] = x
      BY <2>1
    <2>3. <<x>> \o l \in Seq(Byte) /\ Len(<<x>> \o l) = 1 + Len(l) /\ (<<x>> \o l)[1] = x
          /\ \A j \in 1 .. Len(l) : (<<x>> \o l)[1 + j] = l[j]
      BY <2>1, <2>2, Joined
    <2>4. QED
      BY <2>1, <2>3 DEF x
  <1>4. ss \in Seq(Seq(Byte)) /\ Len(ss) = N /\ DOMAIN ss = 1 .. N
    <2>1. DOMAIN labels = 1 .. N
      BY DEF N
    <2>2. ss \in [1 .. N -> Seq(Byte)]
      BY <1>3, <2>1
    <2> HIDE DEF ss
    <2>3. QED
      BY <1>2, <2>2, FunctionIsSeq
  <1>5. \A i \in 1 .. N : /\ Len(ss[i]) = 1 + Len(labels[i]) /\ ss[i][1] = Len(labels[i])
                          /\ \A j \in 1 .. Len(labels[i]) : ss[i][1 + j] = labels[i][j]
    BY <1>3, <1>4
  <1>6. b = (head \o FlattenSeq(ss)) \o tail
    <2>1. FlattenSeq(ss) \in Seq(Byte)
      BY <1>4, FlatIs
    <2>2. <<>> \o FlattenSeq(ss) = FlattenSeq(ss)
      BY <2>1
    <2>3. QED
      BY <2>2 DEF EncodeName
  <1> HIDE DEF ss, b
  <1>7. /\ b \in Seq(Byte) /\ Len(b) = before(N) + Len(tail)
        /\ \A n \in 0 .. N : before(n) \in Nat
        /\ before(0) = 0
        /\ \A n \in Nat : n + 1 <= N =>
              /\ before(n + 1) = before(n) + Len(ss[n + 1])
              /\ before(n + 1) <= before(N)
              /\ \A j \in 1 .. Len(ss[n + 1]) : b[before(n) + j] = ss[n + 1][j]
        /\ \A j \in 1 .. Len(tail) : b[before(N) + j] = tail[j]
    <2>1. head \in Seq(Byte) /\ Len(head) = 0
      OBVIOUS
    <2> HIDE DEF head
    <2>2. Between(b, Byte, head, ss, tail)
      BY <1>4, <1>6, <2>1, PlacedIn
    <2>3. /\ b \in Seq(Byte) /\ Len(b) = before(Len(ss)) + Len(tail)
          /\ \A n \in 0 .. Len(ss) : before(n) \in Nat
          /\ before(0) = Len(head)
          /\ \A n \in Nat : n + 1 <= Len(ss) =>
                /\ before(n + 1) = before(n) + Len(ss[n + 1])
                /\ before(n + 1) <= before(Len(ss))
                /\ \A j \in 1 .. Len(ss[n + 1]) : b[before(n) + j] = ss[n + 1][j]
          /\ \A j \in 1 .. Len(tail) : b[before(Len(ss)) + j] = tail[j]
      BY <2>2, Zenon DEF Between
    <2> HIDE DEF before
    <2>4. QED
      BY <1>4, <2>1, <2>3
  <1> HIDE DEF before
  <1>8. /\ Len(b) \in Nat /\ DOMAIN b = 1 .. Len(b)
        /\ \A i \in 1 .. Len(b) : b[i] \in Nat
        /\ Len(tail) \in Nat /\ N \in 0 .. N /\ before(N) \in Nat
        /\ Len(b) = before(N) + Len(tail)
    BY <1>1, <1>2, <1>7
  <1>9. Ordered(b, pieces)
    BY <1>8 DEF Ordered, IsLabel, LabelAt
  <1>10. ASSUME NEW n \in Nat, n + 1 <= N
         PROVE  /\ at[n] \in DOMAIN pieces /\ at[n] \notin ends
                /\ pieces[at[n]].value = labels[n + 1] /\ pieces[at[n]].next = at[n + 1]
    <2> DEFINE l == labels[n + 1]
               i == before(n) + 1
    <2>1. n \in 0 .. N /\ n + 1 \in 0 .. N /\ n + 1 \in 1 .. N
      BY <1>2, <1>10
    <2>2. l \in Seq(Byte) /\ Len(l) \in Nat /\ 0 < Len(l) /\ Len(l) < 64
      BY <1>2, <2>1
    <2>3. at[n] = i /\ at[n + 1] = before(n + 1) + 1 /\ before(n) \in Nat
          /\ before(n + 1) = before(n) + (1 + Len(l)) /\ before(n + 1) <= Len(b)
      <3>1. at[n] = i /\ at[n + 1] = before(n + 1) + 1
        BY <2>1
      <3> HIDE DEF at
      <3>2. before(n) \in Nat /\ before(n + 1) = before(n) + Len(ss[n + 1])
            /\ before(n + 1) <= before(N) /\ before(n + 1) \in Nat
        BY <1>7, <1>10, <2>1
      <3>3. Len(ss[n + 1]) = 1 + Len(l)
        BY <1>5, <2>1
      <3>4. before(n + 1) <= Len(b)
        BY <1>7, <1>8, <3>2
      <3>5. QED
        BY <3>1, <3>2, <3>3, <3>4
    <2> HIDE DEF l, at
    <2>4. b[i] = Len(l)
      <3>1. 1 \in 1 .. Len(ss[n + 1]) /\ ss[n + 1][1] = Len(l)
        BY <1>5, <2>1, <2>2 DEF l
      <3>2. QED
        BY <1>7, <1>10, <3>1
    <2>5. ASSUME NEW j \in 1 .. Len(l) PROVE b[i + j] = l[j]
      <3>1. 1 + j \in 1 .. Len(ss[n + 1]) /\ ss[n + 1][1 + j] = l[j]
        BY <1>5, <2>1, <2>2 DEF l
      <3>2. b[before(n) + (1 + j)] = l[j]
        BY <1>7, <1>10, <3>1
      <3>3. before(n) + (1 + j) = i + j
        BY <2>2, <2>3
      <3>4. QED
        BY <3>2, <3>3, Zenon
    <2> HIDE DEF i
    <2>6. i \in Nat /\ 0 < i /\ i + Len(l) <= Len(b) /\ before(n + 1) + 1 = i + Len(l) + 1
      BY <2>2, <2>3 DEF i
    <2>7. i \in DOMAIN b /\ i \in whole
      BY <1>8, <2>2, <2>4, <2>6 DEF IsLabel
    <2>8. i \notin ends
      BY <1>8, <2>2, <2>4, <2>6, SMTT(30)
    <2>9. SubSeq(b, i + 1, i + Len(l)) = l
      <3>1. SubSeq(b, i + 1, i + Len(l)) \in Seq(Byte) /\ Len(SubSeq(b, i + 1, i + Len(l))) = Len(l)
            /\ \A j \in 1 .. Len(l) : SubSeq(b, i + 1, i + Len(l))[j] = b[i + j]
        BY <1>7, <1>8, <2>2, <2>6
      <3>2. QED
        BY <2>2, <2>5, <3>1, SameSeq
    <2>10. pieces[i].value = l /\ pieces[i].next = i + Len(l) + 1
      BY <2>4, <2>7, <2>9 DEF LabelAt
    <2> HIDE DEF pieces, ends
    <2>11. i \in DOMAIN pieces
      BY <2>7 DEF pieces
    <2>12. QED
      BY <2>3, <2>6, <2>8, <2>10, <2>11 DEF l
  <1>11. at \in [0 .. N -> 1 .. Len(b) + 1] /\ at[0] = 1 /\ at[N] = before(N) + 1
    <2>1. \A n \in 0 .. N : before(n) \in Nat /\ before(n) <= Len(b)
      <3> SUFFICES ASSUME NEW n \in 0 .. N PROVE before(n) \in Nat /\ before(n) <= Len(b)
        OBVIOUS
      <3>1. CASE n = N
        BY <1>7, <1>8, <3>1
      <3>2. CASE n + 1 <= N
        <4>1. n \in Nat /\ n + 1 \in 1 .. N /\ before(n + 1) = before(n) + Len(ss[n + 1])
              /\ before(n + 1) <= before(N) /\ before(n) \in Nat
          BY <1>2, <1>7, <3>2
        <4>2. Len(ss[n + 1]) \in Nat
          BY <1>4, <4>1
        <4>3. before(n) <= before(N)
          BY <1>8, <4>1, <4>2
        <4>4. QED
          BY <1>7, <1>8, <4>1, <4>3
      <3>3. QED
        BY <1>2, <3>1, <3>2
    <2>2. \A n \in 0 .. N : before(n) + 1 \in 1 .. Len(b) + 1
      BY <1>8, <2>1
    <2>3. 0 \in 0 .. N /\ N \in 0 .. N
      BY <1>2
    <2>4. QED
      BY <1>7, <2>2, <2>3
  <1> HIDE DEF at
  <1> DEFINE rest == Pieces(b, at[N], ends, pieces)
             all == Pieces(b, at[0], ends, pieces)
  <1>12. (rest = Failed => all = Failed) /\ (rest = <<>> => all = labels)
    <2>1. labels \in Seq(Seq(Byte))
      BY <1>2 DEF Label
    <2> HIDE DEF ends, pieces
    <2>2. Chained(at, labels, ends, pieces)
      BY <1>10 DEF N, Chained
    <2>3. at \in [0 .. Len(labels) -> 1 .. Len(b) + 1]
      BY <1>11 DEF N
    <2>4. (Pieces(b, at[Len(labels)], ends, pieces) = Failed
             => Pieces(b, at[0], ends, pieces) = Failed)
          /\ (Pieces(b, at[Len(labels)], ends, pieces) = <<>>
             => Pieces(b, at[0], ends, pieces) = labels)
      <3> DEFINE I == Seq(Byte)
      <3>1. Failed \notin Seq(I) /\ labels \in Seq(I) /\ Len(b) \in Nat
        BY <1>8, <2>1
      <3> HIDE DEF I
      <3>2. QED
        BY <1>9, <2>2, <2>3, <3>1, ChainRead
    <2>5. QED
      BY <2>4 DEF N
  <1>13. rest = IF before(N) + 1 \in ends THEN <<>>
                ELSE IF before(N) + 1 \notin whole THEN Failed
                ELSE Prepend(LabelAt(b, before(N) + 1).value,
                             Pieces(b, LabelAt(b, before(N) + 1).next, ends, pieces))
    <2>1. before(N) + 1 \in 1 .. Len(b) + 1
      <3>1. at[N] \in 1 .. Len(b) + 1
        BY <1>8, <1>11
      <3>2. QED
        BY <1>11, <3>1
    <2> HIDE DEF ends
    <2>2. DOMAIN pieces = whole /\ \A j \in whole : pieces[j] = LabelAt(b, j)
      OBVIOUS
    <2> HIDE DEF pieces, whole
    <2>3. QED
      BY <1>8, <1>9, <1>11, <2>1, <2>2, PiecesAre
  <1>14. DecodeDNSName(b) = IF all = <<>> THEN Failed ELSE all
    BY <1>11 DEF DecodeDNSName
  <1>15. ASSUME EndsName(tail) PROVE before(N) + 1 \in ends
    <2>1. CASE tail = <<>>
      <3>1. Len(tail) = 0
        BY <2>1
      <3>2. Len(b) + 1 = before(N) + 1
        BY <1>7, <1>8, <3>1
      <3>3. QED
        BY <3>2
    <2>2. CASE tail # <<>> /\ tail[1] = 0
      <3>1. 1 \in 1 .. Len(tail)
        BY <2>2
      <3>2. b[before(N) + 1] = 0 /\ before(N) + 1 \in DOMAIN b
        <4>1. b[before(N) + 1] = tail[1]
          BY <1>7, <3>1, Zenon
        <4>2. before(N) + 1 \in 1 .. Len(b)
          BY <1>7, <1>8, <3>1
        <4>3. QED
          BY <1>8, <2>2, <4>1, <4>2
      <3>3. QED
        BY <3>2
    <2>3. QED
      BY <1>15, <2>1, <2>2 DEF EndsName
  <1>16. ASSUME NoLabel(tail) PROVE before(N) + 1 \notin ends /\ before(N) + 1 \notin whole
    <2>1. 1 \in 1 .. Len(tail) /\ tail # <<>> /\ tail[1] # 0
          /\ (tail[1] >= 64 \/ 1 + tail[1] > Len(tail)) /\ tail[1] \in Nat
      BY <1>1, <1>16 DEF NoLabel
    <2>2. b[before(N) + 1] = tail[1] /\ before(N) + 1 # Len(b) + 1
      <3>1. b[before(N) + 1] = tail[1]
        BY <1>7, <2>1, Zenon
      <3>2. Len(b) = before(N) + Len(tail)
        BY <1>7
      <3>3. QED
        BY <1>8, <2>1, <3>1, <3>2
    <2>3. Len(b) = before(N) + Len(tail)
      BY <1>7
    <2>4. QED
      BY <1>8, <2>1, <2>2, <2>3, SMTT(30) DEF IsLabel
  <1> HIDE DEF rest, all, ends, pieces, whole
  <1>17. EndsName(tail) => DecodeDNSName(b) = (IF labels = <<>> THEN Failed ELSE labels)
    BY <1>12, <1>13, <1>14, <1>15
  <1>18. NoLabel(tail) => DecodeDNSName(b) = Failed
    BY <1>12, <1>13, <1>14, <1>16
  <1>19. QED
    BY <1>17, <1>18 DEF b

\* There is more, and no whole option.
CutOff(tail) == /\ Len(tail) > 0
                /\ Len(tail) < 4 \/ Len(tail) < 4 + Uint16(tail, 3)

\* What an option looks like in the lease.
LEMMA OptionBytes ==
  ASSUME NEW o \in Option
  PROVE  LET e == EncodeOption(o[1], o[2])
         IN  /\ e \in Seq(Byte) /\ Len(e) = 4 + Len(o[2])
             /\ Uint16(e, 1) = o[1] /\ Uint16(e, 3) = Len(o[2])
             /\ \A j \in 1 .. Len(o[2]) : e[4 + j] = o[2][j]
  <1> DEFINE x == o[1]
             v == o[2]
             l == Len(v)
             q == x \div 256
             r == x % 256
             q2 == l \div 256
             r2 == l % 256
             k == 4
             hd == <<q, r, q2, r2>>
  <1>1. x \in Nat /\ x < 65536 /\ v \in Seq(Byte) /\ l \in Nat /\ l < 65536
    BY DEF Option, TwoBytes
  <1> HIDE DEF x, l
  <1>2. q \in Byte /\ r \in Byte /\ q2 \in Byte /\ r2 \in Byte
    BY <1>1 DEF Byte
  <1>3. 256 * q + r = x /\ 256 * q2 + r2 = l
    <2>1. \A a, b : a = x \div 256 /\ b = x % 256 => 256 * a + b = x
      BY <1>1
    <2>2. \A a, b : a = l \div 256 /\ b = l % 256 => 256 * a + b = l
      BY <1>1
    <2>3. QED
      BY <2>1, <2>2
  <1>4. EncodeOption(x, v) = hd \o v
    BY DEF EncodeOption, l
  <1> HIDE DEF q, r, q2, r2, v
  <1>5. hd \in Seq(Byte) /\ Len(hd) = k /\ hd[1] = q /\ hd[2] = r /\ hd[3] = q2 /\ hd[4] = r2
    BY <1>2
  <1>6. 1 \in 1 .. k /\ 2 \in 1 .. k /\ 3 \in 1 .. k /\ 4 \in 1 .. k
    OBVIOUS
  <1> HIDE DEF hd, k
  <1> DEFINE e == hd \o v
  <1>7. /\ e \in Seq(Byte) /\ Len(e) = k + Len(v)
        /\ \A i \in 1 .. k : e[i] = hd[i]
        /\ \A j \in 1 .. Len(v) : e[k + j] = v[j]
    <2>1. /\ e \in Seq(Byte) /\ Len(e) = Len(hd) + Len(v)
          /\ \A i \in 1 .. Len(hd) : e[i] = hd[i]
          /\ \A j \in 1 .. Len(v) : e[Len(hd) + j] = v[j]
      <3> HIDE DEF e
      <3>1. hd \in Seq(Byte) /\ v \in Seq(Byte) /\ e = hd \o v
        BY <1>1, <1>5 DEF e
      <3>2. QED
        BY <3>1, Joined
    <2> HIDE DEF e
    <2>2. QED
      BY <1>5, <2>1, Zenon
  <1>8. e[1] = q /\ e[2] = r /\ e[3] = q2 /\ e[4] = r2
    BY <1>5, <1>6, <1>7
  <1> HIDE DEF e
  <1>9. Uint16(e, 1) = x /\ Uint16(e, 3) = l
    <2>1. 1 + 1 = 2 /\ 3 + 1 = 4
      OBVIOUS
    <2>2. Uint16(e, 1) = 256 * q + r /\ Uint16(e, 3) = 256 * q2 + r2
      BY <1>8, <2>1, Zenon DEF Uint16
    <2>3. QED
      BY <1>3, <2>2, Zenon
  <1>10. EncodeOption(o[1], o[2]) = e
    BY <1>4 DEF e, x, v
  <1>11. Len(e) = 4 + l /\ \A j \in 1 .. l : e[4 + j] = v[j]
    BY <1>7 DEF k, l
  <1>12. QED
    BY <1>7, <1>9, <1>10, <1>11, Zenon DEF x, v, l

\* Whole options are read back, and what goes on with a part of one is refused.
LEMMA WholeRead ==
  ASSUME Failed \notin Seq(Option), NEW subs \in Seq(Option), NEW tail \in Seq(Byte)
  PROVE  LET found == Suboptions(EncodeOptions(subs) \o tail)
         IN  /\ tail = <<>> => found = subs
             /\ CutOff(tail) => found = Failed
  <1> DEFINE N == Len(subs)
             ss == [i \in DOMAIN subs |-> EncodeOption(subs[i][1], subs[i][2])]
             b == EncodeOptions(subs) \o tail
             head == <<0, 0, 0, 210>>
             before(n) == Len(head) + Len(Flat(ss, n))
             ends == {Len(b) + 1}
             whole == {j \in DOMAIN b : Fits(b, j)}
             pieces == [i \in whole |-> OptionAt(b, i)]
             at == [n \in 0 .. N |-> before(n) + 1]
  <1>1. \A x \in Byte : x \in Nat
    BY DEF Byte
  <1>2. N \in Nat /\ DOMAIN subs = 1 .. N /\ \A i \in 1 .. N : subs[i] \in Option
    OBVIOUS
  <1> HIDE DEF N
  <1>3. \A i \in 1 .. N : /\ Len(subs[i][2]) \in Nat /\ subs[i][2] \in Seq(Byte)
                          /\ subs[i] = <<subs[i][1], subs[i][2]>>
    BY <1>2 DEF Option, TwoBytes
  <1>4. ss \in Seq(Seq(Byte)) /\ Len(ss) = N /\ DOMAIN ss = 1 .. N
        /\ \A i \in 1 .. N : ss[i] = EncodeOption(subs[i][1], subs[i][2])
    <2>1. \A i \in 1 .. N : EncodeOption(subs[i][1], subs[i][2]) \in Seq(Byte)
      BY <1>2, OptionBytes
    <2>2. ss \in [1 .. N -> Seq(Byte)]
      BY <1>2, <2>1
    <2>3. \A i \in 1 .. N : ss[i] = EncodeOption(subs[i][1], subs[i][2])
      BY <1>2
    <2> HIDE DEF ss
    <2>4. QED
      BY <1>2, <2>2, <2>3, FunctionIsSeq
  <1>5. \A i \in 1 .. N : /\ Len(ss[i]) = 4 + Len(subs[i][2])
                          /\ Uint16(ss[i], 1) = subs[i][1] /\ Uint16(ss[i], 3) = Len(subs[i][2])
                          /\ \A j \in 1 .. Len(subs[i][2]) : ss[i][4 + j] = subs[i][2][j]
    <2> HIDE DEF ss
    <2>1. QED
      BY <1>2, <1>4, OptionBytes, SMTT(30)
  <1>6. b = (head \o FlattenSeq(ss)) \o tail /\ head \in Seq(Byte) /\ Len(head) = 4
    BY DEF EncodeOptions, Byte
  <1> HIDE DEF ss, b, head
  <1>7. /\ b \in Seq(Byte) /\ Len(b) = before(N) + Len(tail)
        /\ \A n \in 0 .. N : before(n) \in Nat
        /\ before(0) = 4
        /\ \A n \in Nat : n + 1 <= N =>
              /\ before(n + 1) = before(n) + Len(ss[n + 1])
              /\ before(n + 1) <= before(N)
              /\ \A j \in 1 .. Len(ss[n + 1]) : b[before(n) + j] = ss[n + 1][j]
        /\ \A j \in 1 .. Len(tail) : b[before(N) + j] = tail[j]
    <2>2. Between(b, Byte, head, ss, tail)
      BY <1>4, <1>6, PlacedIn
    <2>3. /\ b \in Seq(Byte) /\ Len(b) = before(Len(ss)) + Len(tail)
          /\ \A n \in 0 .. Len(ss) : before(n) \in Nat
          /\ before(0) = Len(head)
          /\ \A n \in Nat : n + 1 <= Len(ss) =>
                /\ before(n + 1) = before(n) + Len(ss[n + 1])
                /\ before(n + 1) <= before(Len(ss))
                /\ \A j \in 1 .. Len(ss[n + 1]) : b[before(n) + j] = ss[n + 1][j]
          /\ \A j \in 1 .. Len(tail) : b[before(Len(ss)) + j] = tail[j]
      BY <2>2, Zenon DEF Between
    <2> HIDE DEF before
    <2>4. QED
      BY <1>4, <1>6, <2>3
  <1> HIDE DEF before
  <1>8. /\ Len(b) \in Nat /\ DOMAIN b = 1 .. Len(b)
        /\ \A i \in 1 .. Len(b) : b[i] \in Nat
        /\ Len(tail) \in Nat /\ N \in 0 .. N /\ before(N) \in Nat
        /\ Len(b) = before(N) + Len(tail)
    BY <1>1, <1>2, <1>7
  <1>9. Ordered(b, pieces)
    <2> SUFFICES ASSUME NEW j \in whole PROVE OptionAt(b, j).next \in j + 1 .. Len(b) + 1
      BY DEF Ordered
    <2>1. j \in 1 .. Len(b) /\ Fits(b, j)
      BY <1>8
    <2>2. j + 2 \in 1 .. Len(b) /\ (j + 2) + 1 \in 1 .. Len(b)
      BY <1>8, <2>1 DEF Fits
    <2>3. Uint16(b, j + 2) \in Nat
      BY <1>8, <2>2, SMTT(30) DEF Uint16
    <2>4. j + 3 + Uint16(b, j + 2) <= Len(b)
      BY <2>1 DEF Fits
    <2>5. OptionAt(b, j).next = j + 4 + Uint16(b, j + 2)
      BY DEF OptionAt
    <2> HIDE DEF whole
    <2>6. QED
      BY <1>8, <2>1, <2>3, <2>4, <2>5, SMTT(30)
  <1>10. ASSUME NEW n \in Nat, n + 1 <= N
         PROVE  /\ at[n] \in DOMAIN pieces /\ at[n] \notin ends
                /\ pieces[at[n]].value = subs[n + 1] /\ pieces[at[n]].next = at[n + 1]
    <2> DEFINE v == subs[n + 1][2]
               i == before(n) + 1
    <2>1. n \in 0 .. N /\ n + 1 \in 0 .. N /\ n + 1 \in 1 .. N
      BY <1>2, <1>10
    <2>2. v \in Seq(Byte) /\ Len(v) \in Nat
      BY <1>3, <2>1
    <2>3. at[n] = i /\ at[n + 1] = before(n + 1) + 1 /\ before(n) \in Nat
          /\ before(n + 1) = before(n) + (4 + Len(v)) /\ before(n + 1) <= Len(b)
      <3>1. at[n] = i /\ at[n + 1] = before(n + 1) + 1
        BY <2>1
      <3> HIDE DEF at
      <3>2. before(n) \in Nat /\ before(n + 1) = before(n) + Len(ss[n + 1])
            /\ before(n + 1) <= before(N) /\ before(n + 1) \in Nat
        BY <1>7, <1>10, <2>1
      <3>3. Len(ss[n + 1]) = 4 + Len(v)
        BY <1>5, <2>1
      <3>4. before(n + 1) <= Len(b)
        BY <1>7, <1>8, <3>2
      <3>5. QED
        BY <3>1, <3>2, <3>3, <3>4
    <2> HIDE DEF at
    <2>4. \A j \in 1 .. 4 + Len(v) : b[before(n) + j] = ss[n + 1][j]
      BY <1>5, <1>7, <1>10, <2>1, SMTT(30)
    <2>5. Uint16(b, i) = subs[n + 1][1] /\ Uint16(b, i + 2) = Len(v)
      <3>1. 1 \in 1 .. 4 + Len(v) /\ 2 \in 1 .. 4 + Len(v) /\ 3 \in 1 .. 4 + Len(v) /\ 4 \in 1 .. 4 + Len(v)
        BY <2>2
      <3>2. b[before(n) + 1] = ss[n + 1][1] /\ b[before(n) + 2] = ss[n + 1][2]
            /\ b[before(n) + 3] = ss[n + 1][3] /\ b[before(n) + 4] = ss[n + 1][4]
        BY <2>4, <3>1
      <3>3. i = before(n) + 1 /\ i + 1 = before(n) + 2 /\ i + 2 = before(n) + 3 /\ (i + 2) + 1 = before(n) + 4
            /\ 1 + 1 = 2 /\ 3 + 1 = 4
        BY <2>3, SMTT(30)
      <3>4. Uint16(b, i) = Uint16(ss[n + 1], 1) /\ Uint16(b, i + 2) = Uint16(ss[n + 1], 3)
        <4>1. b[i] = ss[n + 1][1] /\ b[i + 1] = ss[n + 1][1 + 1]
          BY <3>2, <3>3, ZenonT(30)
        <4>2. b[i + 2] = ss[n + 1][3] /\ b[(i + 2) + 1] = ss[n + 1][3 + 1]
          BY <3>2, <3>3, ZenonT(30)
        <4>3. QED
          BY <4>1, <4>2, ZenonT(30) DEF Uint16
      <3>5. QED
        BY <1>5, <2>1, <3>4
    <2>6. ASSUME NEW j \in 1 .. Len(v) PROVE b[(i + 3) + j] = v[j]
      <3>1. 4 + j \in 1 .. 4 + Len(v) /\ ss[n + 1][4 + j] = v[j]
        BY <1>5, <2>1, <2>2 DEF v
      <3>2. b[before(n) + (4 + j)] = v[j]
        BY <2>4, <3>1
      <3>3. before(n) + (4 + j) = (i + 3) + j
        BY <2>2, <2>3
      <3>4. QED
        BY <3>2, <3>3, Zenon
    <2>7. i \in Nat /\ 0 < i /\ i + 3 + Len(v) <= Len(b) /\ before(n + 1) + 1 = i + 4 + Len(v)
      <3> DEFINE l == Len(v)
                 x == before(n)
                 y == before(n + 1)
      <3>1. l \in Nat /\ x \in Nat /\ y = x + (4 + l) /\ y <= Len(b)
        BY <2>2, <2>3
      <3> HIDE DEF l, x, y
      <3>2. x + 1 \in Nat /\ 0 < x + 1 /\ (x + 1) + 3 + l <= Len(b) /\ y + 1 = (x + 1) + 4 + l
        BY <1>8, <3>1
      <3>3. QED
        BY <3>2 DEF l, x, y
    <2> HIDE DEF i, v
    <2>8. i \in DOMAIN b /\ Fits(b, i) /\ i \notin ends
      <3> DEFINE l == Len(v)
                 m == Len(b)
      <3>1. l \in Nat /\ m \in Nat /\ i \in Nat /\ 0 < i /\ i + 3 + l <= m
            /\ Uint16(b, i + 2) = l /\ DOMAIN b = 1 .. m
        BY <1>8, <2>2, <2>5, <2>7
      <3> HIDE DEF l
      <3>2. Fits(b, i)
        <4> SUFFICES i + 3 <= m /\ i + 3 + Uint16(b, i + 2) <= m
          BY DEF Fits
        <4> HIDE DEF m
        <4>1. QED
          BY <3>1
      <3> HIDE DEF m
      <3>3. i \in 1 .. m /\ i # m + 1
        BY <3>1
      <3>4. i \in DOMAIN b /\ i \notin {m + 1}
        BY <3>1, <3>3
      <3>5. QED
        BY <3>2, <3>4 DEF m
    <2>9. SubSeq(b, i + 4, (i + 4 + Len(v)) - 1) = v
      <3> DEFINE t == SubSeq(b, i + 4, (i + 4 + Len(v)) - 1)
      <3>1. t \in Seq(Byte) /\ Len(t) = Len(v)
            /\ \A j \in 1 .. Len(v) : t[j] = b[(i + 3) + j]
        BY <1>7, <1>8, <2>2, <2>7, SMTT(30)
      <3> HIDE DEF t
      <3>2. t = v
        BY <2>2, <2>6, <3>1, SameSeq
      <3>3. QED
        BY <3>2 DEF t
    <2>10. pieces[i].value = <<subs[n + 1][1], v>> /\ pieces[i].next = i + 4 + Len(v)
      <3>1. pieces[i] = OptionAt(b, i)
        BY <2>8
      <3>2. OptionAt(b, i) = [value |-> <<subs[n + 1][1], v>>, next |-> i + 4 + Len(v)]
        BY <2>5, <2>9, Zenon DEF OptionAt
      <3>3. QED
        BY <3>1, <3>2
    <2>11. i \in DOMAIN pieces
      BY <2>8
    <2> HIDE DEF pieces, ends
    <2>12. <<subs[n + 1][1], v>> = subs[n + 1]
      BY <1>3, <2>1 DEF v
    <2>13. pieces[i].next = before(n + 1) + 1
      BY <2>7, <2>10
    <2>14. QED
      BY <2>3, <2>8, <2>10, <2>11, <2>12, <2>13

  <1>11. at \in [0 .. N -> 1 .. Len(b) + 1] /\ at[0] = 5 /\ at[N] = before(N) + 1
    <2>1. \A n \in 0 .. N : before(n) \in Nat /\ before(n) <= Len(b)
      <3> SUFFICES ASSUME NEW n \in 0 .. N PROVE before(n) \in Nat /\ before(n) <= Len(b)
        OBVIOUS
      <3>1. CASE n = N
        BY <1>7, <1>8, <3>1
      <3>2. CASE n + 1 <= N
        <4>1. n \in Nat /\ n + 1 \in 1 .. N /\ before(n + 1) = before(n) + Len(ss[n + 1])
              /\ before(n + 1) <= before(N) /\ before(n) \in Nat
          BY <1>2, <1>7, <3>2
        <4>2. Len(ss[n + 1]) \in Nat
          BY <1>4, <4>1
        <4>3. before(n) <= before(N)
          BY <1>8, <4>1, <4>2
        <4>4. QED
          BY <1>7, <1>8, <4>1, <4>3
      <3>3. QED
        BY <1>2, <3>1, <3>2
    <2>2. \A n \in 0 .. N : before(n) + 1 \in 1 .. Len(b) + 1
      BY <1>8, <2>1
    <2>3. 0 \in 0 .. N /\ N \in 0 .. N
      BY <1>2
    <2>4. QED
      BY <1>7, <2>2, <2>3
  <1> HIDE DEF at
  <1> DEFINE rest == Pieces(b, at[N], ends, pieces)
             all == Pieces(b, at[0], ends, pieces)
  <1>12. (rest = Failed => all = Failed) /\ (rest = <<>> => all = subs)
    <2> HIDE DEF ends, pieces
    <2>1. Chained(at, subs, ends, pieces)
      BY <1>10 DEF N, Chained
    <2>2. at \in [0 .. Len(subs) -> 1 .. Len(b) + 1] /\ Len(b) \in Nat
      BY <1>8, <1>11 DEF N
    <2>3. (Pieces(b, at[Len(subs)], ends, pieces) = Failed
             => Pieces(b, at[0], ends, pieces) = Failed)
          /\ (Pieces(b, at[Len(subs)], ends, pieces) = <<>>
             => Pieces(b, at[0], ends, pieces) = subs)
      BY <1>9, <2>1, <2>2, ChainRead
    <2>4. QED
      BY <2>3 DEF N
  <1>13. rest = IF before(N) + 1 \in ends THEN <<>>
                ELSE IF before(N) + 1 \notin whole THEN Failed
                ELSE Prepend(OptionAt(b, before(N) + 1).value,
                             Pieces(b, OptionAt(b, before(N) + 1).next, ends, pieces))
    <2>1. before(N) + 1 \in 1 .. Len(b) + 1
      <3>1. at[N] \in 1 .. Len(b) + 1
        BY <1>8, <1>11
      <3>2. QED
        BY <1>11, <3>1
    <2> HIDE DEF ends
    <2>2. DOMAIN pieces = whole /\ \A j \in whole : pieces[j] = OptionAt(b, j)
      OBVIOUS
    <2> HIDE DEF pieces, whole
    <2>3. QED
      BY <1>8, <1>9, <1>11, <2>1, <2>2, PiecesAre
  <1>14. Suboptions(b) = all
    BY <1>11 DEF Suboptions
  <1>15. ASSUME tail = <<>> PROVE before(N) + 1 \in ends
    <2>1. Len(tail) = 0
      BY <1>15
    <2>2. Len(b) + 1 = before(N) + 1
      BY <1>8, <2>1
    <2>3. QED
      BY <2>2
  <1>16. ASSUME CutOff(tail) PROVE before(N) + 1 \notin ends /\ before(N) + 1 \notin whole
    <2> DEFINE i == before(N) + 1
    <2>1. i # Len(b) + 1
      BY <1>8, <1>16 DEF CutOff
    <2>2. ASSUME Fits(b, i) PROVE FALSE
      <3>1. i + 3 <= Len(b) /\ i + 3 + Uint16(b, i + 2) <= Len(b)
        BY <2>2 DEF Fits
      <3>2. Len(tail) >= 4 /\ 3 \in 1 .. Len(tail) /\ 4 \in 1 .. Len(tail) /\ 3 + 1 = 4
            /\ i + 2 = before(N) + 3 /\ (i + 2) + 1 = before(N) + 4
        BY <1>8, <3>1
      <3>3. b[before(N) + 3] = tail[3] /\ b[before(N) + 4] = tail[4]
        BY <1>7, <3>2, Zenon
      <3>4. Uint16(b, i + 2) = Uint16(tail, 3)
        BY <3>2, <3>3, Zenon DEF Uint16
      <3>5. tail[3] \in Nat /\ tail[4] \in Nat
        BY <1>1, <3>2
      <3>6. Uint16(tail, 3) \in Nat
        BY <3>2, <3>5 DEF Uint16
      <3>7. Len(tail) < 4 + Uint16(tail, 3)
        BY <1>16, <3>2 DEF CutOff
      <3>8. i + 3 + Uint16(tail, 3) <= Len(b)
        BY <3>1, <3>4
      <3> HIDE DEF i
      <3>9. i = before(N) + 1
        BY DEF i
      <3>10. QED
        BY <1>8, <3>6, <3>7, <3>8, <3>9
    <2>3. QED
      BY <2>1, <2>2
  <1> HIDE DEF rest, all, ends, pieces, whole
  <1>17. tail = <<>> => Suboptions(b) = subs
    BY <1>12, <1>13, <1>14, <1>15
  <1>18. CutOff(tail) => Suboptions(b) = Failed
    BY <1>12, <1>13, <1>14, <1>16
  <1>19. QED
    BY <1>17, <1>18 DEF b

\* What grows at its end begins with all that it has been.
Grows(e, N, S) ==
    /\ \A n \in 0 .. N : e[n] \in Seq(S)
    /\ \A n \in Nat : n + 1 <= N => \E x \in Seq(S) : e[n + 1] = e[n] \o x

LEMMA Beginnings ==
  ASSUME NEW S, NEW N \in Nat, NEW e, Grows(e, N, S)
  PROVE  \A m \in 0 .. N : \A n \in 0 .. m :
            Len(e[n]) <= Len(e[m]) /\ \A i \in 1 .. Len(e[n]) : e[m][i] = e[n][i]
  <1> DEFINE Begins(m, n) == Len(e[n]) <= Len(e[m]) /\ \A i \in 1 .. Len(e[n]) : e[m][i] = e[n][i]
             T == {m \in Nat : m <= N => \A n \in 0 .. m : Begins(m, n)}
  <1> USE DEF Grows
  <1>1. \A n \in 0 .. N : Begins(n, n)
    OBVIOUS
  <1>2. 0 \in T
    <2> HIDE DEF Begins
    <2>1. \A n \in 0 .. 0 : n = 0
      OBVIOUS
    <2>2. 0 \in 0 .. N
      OBVIOUS
    <2>3. QED
      BY <1>1, <2>1, <2>2
  <1>3. ASSUME NEW m \in Nat, m \in T PROVE m + 1 \in T
    <2> SUFFICES ASSUME m + 1 <= N, NEW n \in 0 .. m + 1 PROVE Begins(m + 1, n)
      <3> HIDE DEF Begins
      <3>1. QED
        OBVIOUS
    <2>1. CASE n = m + 1
      <3> HIDE DEF Begins
      <3>1. QED
        BY <1>1, <2>1
    <2>2. CASE n \in 0 .. m
      <3>1. PICK x \in Seq(S) : e[m + 1] = e[m] \o x
        OBVIOUS
      <3>2. Begins(m, n)
        <4> HIDE DEF Begins
        <4>1. QED
          BY <1>3, <2>2
      <3>3. e[m] \in Seq(S) /\ e[n] \in Seq(S)
        OBVIOUS
      <3>4. /\ Len(e[m + 1]) = Len(e[m]) + Len(x)
            /\ \A i \in 1 .. Len(e[m]) : e[m + 1][i] = e[m][i]
        BY <3>1, <3>3, Joined
      <3>5. Len(e[m]) \in Nat /\ Len(x) \in Nat /\ Len(e[n]) \in Nat
        BY <3>3
      <3>6. QED
        BY <3>2, <3>4, <3>5
    <2>3. QED
      BY <2>1, <2>2
  <1>4. Nat \subseteq T
    <2> HIDE DEF T
    <2>1. QED
      BY <1>2, <1>3, Induction
  <1> HIDE DEF Begins
  <1>5. \A m \in 0 .. N : \A n \in 0 .. m : Begins(m, n)
    BY <1>4
  <1> SUFFICES ASSUME NEW p \in 0 .. N, NEW q \in 0 .. p
               PROVE  Len(e[q]) <= Len(e[p]) /\ \A i \in 1 .. Len(e[q]) : e[p][i] = e[q][i]
    OBVIOUS
  <1>6. QED
    BY <1>5 DEF Begins

\* What the first n of the options are written as.
UpToWritten(subs, n) == EncodeOptions(SubSeq(subs, 1, n))

LEMMA WrittenGrows ==
  ASSUME NEW subs \in Seq(Option)
  PROVE  LET e(n) == UpToWritten(subs, n)
         IN  /\ Len(e(0)) = 4 /\ e(Len(subs)) = EncodeOptions(subs)
             /\ \A n \in 0 .. Len(subs) : e(n) \in Seq(Byte)
             /\ \A n \in Nat : n + 1 <= Len(subs) =>
                   e(n + 1) = e(n) \o EncodeOption(subs[n + 1][1], subs[n + 1][2])
  <1> DEFINE N == Len(subs)
             ss == [i \in DOMAIN subs |-> EncodeOption(subs[i][1], subs[i][2])]
             head == <<0, 0, 0, 210>>
  <1>1. N \in Nat /\ DOMAIN subs = 1 .. N /\ (\A i \in 1 .. N : subs[i] \in Option)
        /\ SubSeq(subs, 1, N) = subs
    OBVIOUS
  <1>2. ss \in Seq(Seq(Byte)) /\ Len(ss) = N
        /\ \A i \in 1 .. N : ss[i] = EncodeOption(subs[i][1], subs[i][2])
    <2>1. \A i \in 1 .. N : EncodeOption(subs[i][1], subs[i][2]) \in Seq(Byte)
      BY <1>1, OptionBytes
    <2>2. ss \in [1 .. N -> Seq(Byte)]
      BY <1>1, <2>1
    <2>3. \A i \in 1 .. N : ss[i] = EncodeOption(subs[i][1], subs[i][2])
      BY <1>1
    <2> HIDE DEF ss, N
    <2>4. QED
      BY <1>1, <2>2, <2>3, FunctionIsSeq
  <1>3. head \in Seq(Byte) /\ Len(head) = 4
    BY DEF Byte
  <1>4. ASSUME NEW n \in 0 .. N PROVE UpToWritten(subs, n) = head \o Flat(ss, n)
    <2> DEFINE part == SubSeq(subs, 1, n)
    <2>1. DOMAIN part = 1 .. n /\ \A i \in 1 .. n : part[i] = subs[i] /\ i \in 1 .. N
      BY <1>1
    <2> HIDE DEF part
    <2>2. [i \in DOMAIN part |-> EncodeOption(part[i][1], part[i][2])]
            = [i \in 1 .. n |-> EncodeOption(subs[i][1], subs[i][2])]
      BY <2>1
    <2>3. SubSeq(ss, 1, n) = [i \in 1 .. n |-> ss[i]]
      <3> HIDE DEF ss, N
      <3>1. QED
        BY <1>1, <1>2
    <2>4. [i \in 1 .. n |-> ss[i]] = [i \in 1 .. n |-> EncodeOption(subs[i][1], subs[i][2])]
      <3> HIDE DEF ss, N
      <3>1. QED
        BY <1>2, <2>1
    <2>5. EncodeOptions(part) = head \o FlattenSeq(SubSeq(ss, 1, n))
      <3> HIDE DEF ss
      <3>1. QED
        BY <2>2, <2>3, <2>4, Zenon DEF EncodeOptions, head
    <2>6. QED
      BY <2>5, Zenon DEF UpToWritten, Flat, part
  <1> HIDE DEF ss, head, N
  <1>5. Flat(ss, 0) = <<>> /\ (\A n \in 0 .. N : Flat(ss, n) \in Seq(Byte))
        /\ \A n \in Nat : n + 1 <= N => Flat(ss, n + 1) = Flat(ss, n) \o ss[n + 1]
    <2>1. /\ Flat(ss, 0) = <<>> /\ (\A n \in 0 .. Len(ss) : Flat(ss, n) \in Seq(Byte))
          /\ \A n \in Nat : n + 1 <= Len(ss) => Flat(ss, n + 1) = Flat(ss, n) \o ss[n + 1]
      BY <1>2, FlatIs
    <2>2. QED
      BY <1>2, <2>1
  <1>6. Len(UpToWritten(subs, 0)) = 4
    <2>1. UpToWritten(subs, 0) = head \o Flat(ss, 0)
      BY <1>1, <1>4
    <2>2. head \o <<>> = head
      BY <1>3
    <2>3. QED
      BY <1>3, <1>5, <2>1, <2>2
  <1>7. UpToWritten(subs, N) = EncodeOptions(subs)
    BY <1>1 DEF UpToWritten
  <1>8. \A n \in 0 .. N : UpToWritten(subs, n) \in Seq(Byte)
    BY <1>3, <1>4, <1>5, Joined
  <1>9. ASSUME NEW n \in Nat, n + 1 <= N
        PROVE  UpToWritten(subs, n + 1)
                 = UpToWritten(subs, n) \o EncodeOption(subs[n + 1][1], subs[n + 1][2])
    <2>1. n \in 0 .. N /\ n + 1 \in 0 .. N /\ n + 1 \in 1 .. N
      BY <1>1, <1>9
    <2> DEFINE f == Flat(ss, n)
               x == ss[n + 1]
    <2>2. f \in Seq(Byte) /\ x \in Seq(Byte) /\ Flat(ss, n + 1) = f \o x
      <3>1. x \in Seq(Byte)
        BY <1>2, <2>1
      <3>2. QED
        BY <1>5, <1>9, <2>1, <3>1
    <2> HIDE DEF f, x
    <2>3. head \o (f \o x) = (head \o f) \o x
      BY <1>3, <2>2, SMTT(30)
    <2>4. x = EncodeOption(subs[n + 1][1], subs[n + 1][2])
      BY <1>2, <2>1 DEF x
    <2>5. UpToWritten(subs, n + 1) = head \o (f \o x) /\ UpToWritten(subs, n) = head \o f
      BY <1>4, <2>1, <2>2 DEF f
    <2>6. QED
      BY <2>3, <2>4, <2>5, Zenon
  <1>10. QED
    BY <1>6, <1>7, <1>8, <1>9 DEF N

\* After which options the cut is.
CutAfter(subs, cut) == {n \in 0 .. Len(subs) : Len(EncodeOptions(SubSeq(subs, 1, n))) = cut}

\* Options cut short are refused, but between two of them.
CutIsRead(b, subs, cut) ==
    /\ b \in Seq(Byte) /\ Len(b) = cut
    /\ \A n \in CutAfter(subs, cut) : cut >= 4 /\ Suboptions(b) = SubSeq(subs, 1, n)
    /\ CutAfter(subs, cut) = {} => cut < 4 \/ Suboptions(b) = Failed

LEMMA OptionsCut ==
  ASSUME Failed \notin Seq(Option), NEW subs \in Seq(Option),
         NEW cut \in 0 .. Len(EncodeOptions(subs)), NEW b,
         b = SubSeq(EncodeOptions(subs), 1, cut)
  PROVE  CutIsRead(b, subs, cut)
  <1> DEFINE N == Len(subs)
             E == EncodeOptions(subs)
             e == [n \in 0 .. N |-> UpToWritten(subs, n)]
             between == {n \in 0 .. N : Len(UpToWritten(subs, n)) = cut}
             enc(n) == EncodeOption(subs[n + 1][1], subs[n + 1][2])
  <1>1. N \in Nat /\ N \in 0 .. N /\ 0 \in 0 .. N
    OBVIOUS
  <1>2. \A n \in Nat : n + 1 <= N =>
           /\ subs[n + 1] \in Option /\ enc(n) \in Seq(Byte)
           /\ Len(enc(n)) = 4 + Len(subs[n + 1][2]) /\ Len(subs[n + 1][2]) \in Nat
           /\ Uint16(enc(n), 3) = Len(subs[n + 1][2])
    <2>1. \A o \in Option : Len(o[2]) \in Nat
      BY DEF Option, TwoBytes
    <2>2. \A n \in Nat : n + 1 <= N => subs[n + 1] \in Option
      BY <1>1
    <2>3. QED
      BY <2>1, <2>2, OptionBytes
  <1> HIDE DEF enc
  <1>3. /\ Len(e[0]) = 4 /\ e[N] = E
        /\ \A n \in 0 .. N : e[n] = UpToWritten(subs, n) /\ e[n] \in Seq(Byte) /\ Len(e[n]) \in Nat
        /\ \A n \in Nat : n + 1 <= N => e[n + 1] = e[n] \o enc(n)
    <2>1. /\ Len(UpToWritten(subs, 0)) = 4 /\ UpToWritten(subs, N) = E
          /\ \A n \in 0 .. N : UpToWritten(subs, n) \in Seq(Byte)
          /\ \A n \in Nat : n + 1 <= N => UpToWritten(subs, n + 1) = UpToWritten(subs, n) \o enc(n)
      BY WrittenGrows DEF enc
    <2>2. \A n \in Nat : n + 1 <= N => n \in 0 .. N /\ n + 1 \in 0 .. N
      BY <1>1
    <2>3. \A n \in 0 .. N : e[n] = UpToWritten(subs, n)
      OBVIOUS
    <2> HIDE DEF e, E, N
    <2>4. \A n \in 0 .. N : e[n] \in Seq(Byte) /\ Len(e[n]) \in Nat
      BY <2>1, <2>3
    <2>5. QED
      BY <1>1, <2>1, <2>2, <2>3, <2>4
  <1> HIDE DEF e
  <1>4. \A m \in 0 .. N : \A n \in 0 .. m :
           Len(e[n]) <= Len(e[m]) /\ \A i \in 1 .. Len(e[n]) : e[m][i] = e[n][i]
    <2>1. \A n \in Nat : n + 1 <= N => \E x \in Seq(Byte) : e[n + 1] = e[n] \o x
      BY <1>2, <1>3
    <2>2. \A n \in 0 .. N : e[n] \in Seq(Byte)
      BY <1>3
    <2>3. Grows(e, N, Byte)
      BY <2>1, <2>2 DEF Grows
    <2> HIDE DEF N
    <2>4. QED
      BY <1>1, <2>3, Beginnings
  <1>5. E \in Seq(Byte) /\ cut \in 0 .. Len(E) /\ Len(E) \in Nat
        /\ \A n \in 0 .. N : Len(e[n]) <= Len(E) /\ \A i \in 1 .. Len(e[n]) : E[i] = e[n][i]
    <2>1. cut \in 0 .. Len(E)
      OBVIOUS
    <2> HIDE DEF E, N
    <2>2. \A n \in 0 .. N : n \in 0 .. N
      OBVIOUS
    <2>3. QED
      BY <1>1, <1>3, <1>4, <2>1
  <1>6. b \in Seq(Byte) /\ Len(b) = cut /\ \A i \in 1 .. cut : b[i] = E[i]
    <2>1. b = SubSeq(E, 1, cut)
      OBVIOUS
    <2> HIDE DEF E
    <2>2. QED
      BY <1>5, <2>1
  <1> HIDE DEF E
  <1>7. ASSUME NEW n \in 0 .. N, Len(e[n]) = cut
        PROVE  cut >= 4 /\ Suboptions(b) = SubSeq(subs, 1, n)
    <2>1. b = e[n]
      BY <1>3, <1>5, <1>6, <1>7, SameSeq
    <2>2. cut >= 4
      <3>1. 0 \in 0 .. n
        BY <1>1
      <3>2. QED
        BY <1>3, <1>4, <1>7, <3>1
    <2> DEFINE part == SubSeq(subs, 1, n)
    <2>3. part \in Seq(Option)
      OBVIOUS
    <2>4. b = EncodeOptions(part) \o <<>>
      <3>1. b \o <<>> = b
        BY <1>6
      <3>2. QED
        BY <1>3, <2>1, <3>1 DEF UpToWritten
    <2> HIDE DEF part
    <2>5. <<>> \in Seq(Byte)
      OBVIOUS
    <2>6. Suboptions(EncodeOptions(part) \o <<>>) = part
      BY <2>3, <2>5, WholeRead
    <2>7. QED
      BY <2>2, <2>4, <2>6 DEF part
  <1>8. ASSUME \A n \in 0 .. N : Len(e[n]) # cut, cut >= 4 PROVE Suboptions(b) = Failed
    <2>1. \E n \in Nat : n + 1 <= N /\ Len(e[n]) < cut /\ cut < Len(e[n + 1])
      <3> SUFFICES ASSUME \A n \in Nat : ~(n + 1 <= N /\ Len(e[n]) < cut /\ cut < Len(e[n + 1]))
                   PROVE FALSE
        OBVIOUS
      <3> DEFINE T == {n \in Nat : n <= N => Len(e[n]) < cut}
      <3>1. 0 \in T
        <4>1. Len(e[0]) # cut /\ Len(e[0]) = 4
          BY <1>1, <1>3, <1>8
        <4>2. Len(e[0]) < cut
          BY <1>5, <1>8, <4>1
        <4>3. QED
          BY <4>2
      <3>2. ASSUME NEW n \in Nat, n \in T PROVE n + 1 \in T
        <4> SUFFICES ASSUME n + 1 <= N PROVE Len(e[n + 1]) < cut
          OBVIOUS
        <4>1. n \in 0 .. N /\ n + 1 \in 0 .. N
          BY <1>1
        <4>2. Len(e[n]) < cut /\ Len(e[n + 1]) # cut /\ Len(e[n + 1]) \in Nat
          BY <1>1, <1>3, <1>8, <3>2, <4>1
        <4>3. QED
          BY <1>5, <4>2
      <3>3. Nat \subseteq T
        <4> HIDE DEF T
        <4>1. QED
          BY <3>1, <3>2, Induction
      <3>4. Len(e[N]) < cut
        BY <1>1, <3>3
      <3>5. QED
        BY <1>1, <1>3, <1>5, <3>4
    <2>2. PICK n \in Nat : n + 1 <= N /\ Len(e[n]) < cut /\ cut < Len(e[n + 1])
      BY <2>1
    <2> DEFINE part == SubSeq(subs, 1, n)
               h == Len(e[n])
               tail == SubSeq(E, h + 1, cut)
               v == subs[n + 1][2]
    <2>3. n \in 0 .. N /\ n + 1 \in 0 .. N /\ part \in Seq(Option)
      BY <1>1, <2>2
    <2>4. e[n] = EncodeOptions(part) /\ e[n] \in Seq(Byte) /\ h \in Nat /\ h < cut
      BY <1>3, <2>2, <2>3 DEF UpToWritten
    <2> HIDE DEF part
    <2>5. /\ tail \in Seq(Byte) /\ Len(tail) = cut - h
          /\ \A j \in 1 .. Len(tail) : tail[j] = E[h + j]
      <3> HIDE DEF h
      <3>1. QED
        BY <1>5, <2>4, SMTT(30)
    <2> HIDE DEF tail
    <2>6. /\ Len(e[n + 1]) = h + Len(enc(n))
          /\ \A j \in 1 .. Len(enc(n)) : e[n + 1][h + j] = enc(n)[j]
      <3> DEFINE x == enc(n)
      <3>1. e[n + 1] = e[n] \o x /\ x \in Seq(Byte)
        BY <1>2, <1>3, <2>2
      <3> HIDE DEF x
      <3>2. /\ Len(e[n] \o x) = Len(e[n]) + Len(x)
            /\ \A j \in 1 .. Len(x) : (e[n] \o x)[Len(e[n]) + j] = x[j]
        BY <2>4, <3>1, Joined, SMTT(30)
      <3>3. QED
        BY <3>1, <3>2 DEF x
    <2>7. Len(enc(n)) = 4 + Len(v) /\ Len(v) \in Nat /\ Uint16(enc(n), 3) = Len(v)
      BY <1>2, <2>2
    <2> HIDE DEF h, v
    <2>8. \A j \in 1 .. Len(tail) : tail[j] = enc(n)[j]
      <3> SUFFICES ASSUME NEW j \in 1 .. Len(tail) PROVE tail[j] = enc(n)[j]
        OBVIOUS
      <3>1. cut < h + (4 + Len(v)) /\ j <= cut - h
        BY <2>2, <2>5, <2>6, <2>7
      <3>2. j \in 1 .. Len(enc(n)) /\ h + j \in 1 .. Len(e[n + 1])
        BY <1>5, <2>4, <2>5, <2>6, <2>7, <3>1
      <3>3. E[h + j] = e[n + 1][h + j]
        BY <1>5, <2>3, <3>2
      <3>4. QED
        BY <2>5, <2>6, <3>2, <3>3
    <2>9. CutOff(tail)
      <3>1. Len(tail) > 0 /\ Len(tail) < 4 + Len(v) /\ Len(tail) \in Nat
        BY <1>5, <2>2, <2>4, <2>5, <2>6, <2>7
      <3>2. ASSUME Len(tail) >= 4 PROVE Uint16(tail, 3) = Len(v)
        <4>1. 3 \in 1 .. Len(tail) /\ 4 \in 1 .. Len(tail) /\ 3 + 1 = 4
          BY <3>1, <3>2
        <4>2. tail[3] = enc(n)[3] /\ tail[4] = enc(n)[4]
          BY <2>8, <4>1
        <4>3. Uint16(tail, 3) = Uint16(enc(n), 3)
          BY <4>1, <4>2, Zenon DEF Uint16
        <4>4. QED
          BY <2>7, <4>3
      <3>3. QED
        BY <3>1, <3>2 DEF CutOff
    <2>10. b = e[n] \o tail
      <3> DEFINE w == e[n] \o tail
      <3>1. /\ w \in Seq(Byte) /\ Len(w) = h + Len(tail)
            /\ \A i \in 1 .. h : w[i] = e[n][i]
            /\ \A j \in 1 .. Len(tail) : w[h + j] = tail[j]
        BY <2>4, <2>5, Joined DEF h
      <3> HIDE DEF w
      <3>2. Len(w) = cut
        BY <1>5, <2>4, <2>5, <3>1
      <3>3. ASSUME NEW i \in 1 .. cut PROVE b[i] = w[i]
        <4>1. CASE i <= h
          <5>1. i \in 1 .. h
            BY <2>4, <4>1
          <5>2. E[i] = e[n][i]
            BY <1>5, <2>3, <5>1 DEF h
          <5>3. QED
            BY <1>6, <3>1, <5>1, <5>2
        <4>2. CASE i > h
          <5>1. i - h \in 1 .. Len(tail) /\ h + (i - h) = i
            BY <1>5, <2>4, <2>5, <4>2
          <5>2. w[h + (i - h)] = E[h + (i - h)]
            BY <2>5, <3>1, <5>1
          <5>3. QED
            BY <1>6, <5>1, <5>2
        <4>3. QED
          BY <1>5, <2>4, <4>1, <4>2
      <3>4. b = w
        BY <1>6, <3>1, <3>2, <3>3, SameSeq
      <3>5. QED
        BY <3>4 DEF w
    <2>11. Suboptions(EncodeOptions(part) \o tail) = Failed
      BY <2>3, <2>5, <2>9, WholeRead
    <2>12. QED
      BY <2>4, <2>10, <2>11
  <1>9. \A n \in 0 .. N : e[n] = EncodeOptions(SubSeq(subs, 1, n))
    BY <1>3 DEF UpToWritten
  <1> HIDE DEF N
  <1>10. ASSUME NEW n \in between PROVE cut >= 4 /\ Suboptions(b) = SubSeq(subs, 1, n)
    BY <1>3, <1>7
  <1>11. between = {} => cut < 4 \/ Suboptions(b) = Failed
    <2> SUFFICES ASSUME between = {}, ~(cut < 4) PROVE Suboptions(b) = Failed
      OBVIOUS
    <2>1. \A n \in 0 .. N : Len(e[n]) # cut
      BY <1>3
    <2>2. cut >= 4
      BY <1>5
    <2>3. QED
      BY <1>8, <2>1, <2>2
  <1>12. between = CutAfter(subs, cut)
    BY DEF UpToWritten, CutAfter, N
  <1> HIDE DEF between
  <1>13. QED
    BY <1>6, <1>10, <1>11, <1>12 DEF CutIsRead

\* What OptionsUpTo says of itself is so.
LEMMA OptionsUpToAre ==
  ASSUME NEW S, NEW subs \in Seq(S)
  PROVE  /\ OptionsUpTo(subs)[0] = NoOptions
         /\ \A n \in 1 .. Len(subs) :
               OptionsUpTo(subs)[n] = ReadOption(OptionsUpTo(subs)[n - 1], subs[n])
  <1> DEFINE Good(g, k) ==
                g = [n \in 0 .. k |-> IF n = 0 THEN NoOptions ELSE ReadOption(g[n - 1], subs[n])]
             T == {k \in Nat : \E g : Good(g, k)}
  <1>1. 0 \in T
    <2> DEFINE g == [n \in 0 .. 0 |-> NoOptions]
    <2>1. Good(g, 0)
      OBVIOUS
    <2>2. QED
      BY <2>1
  <1>2. ASSUME NEW k \in Nat, k \in T PROVE k + 1 \in T
    <2>1. PICK g : Good(g, k)
      BY <1>2
    <2> DEFINE h == [n \in 0 .. k + 1 |->
                        IF n = 0 THEN NoOptions ELSE ReadOption(g[n - 1], subs[n])]
    <2>2. \A n \in 0 .. k : h[n] = g[n]
      BY <2>1
    <2>3. Good(h, k + 1)
      <3>1. \A n \in 0 .. k + 1 : n # 0 => n - 1 \in 0 .. k
        OBVIOUS
      <3>2. QED
        BY <2>2, <3>1
    <2> HIDE DEF h, Good
    <2>4. QED
      BY <2>3
  <1>3. Nat \subseteq T
    <2> HIDE DEF T
    <2>1. QED
      BY <1>1, <1>2, Induction
  <1>4. Len(subs) \in T
    BY <1>3
  <1>5. Good(OptionsUpTo(subs), Len(subs))
    BY <1>4 DEF OptionsUpTo
  <1> DEFINE upTo == OptionsUpTo(subs)
  <1> HIDE DEF upTo
  <1>6. upTo = [n \in 0 .. Len(subs) |->
                   IF n = 0 THEN NoOptions ELSE ReadOption(upTo[n - 1], subs[n])]
    BY <1>5 DEF upTo
  <1>7. QED
    BY <1>6 DEF upTo

\* The value that an option is read as, and the last of the first n options
\* of a code.
ReadAs(o) == IF o[1] = SIPDomain THEN DecodeDNSName(o[2]) ELSE o[2]

LastOption(subs, n, code) ==
    {i \in 1 .. n : subs[i][1] = code /\ \A j \in i + 1 .. n : subs[j][1] # code}

\* What has been read of options after the first n.
ReadOfOptions(vo, subs, n) ==
    IF \E i \in 1 .. n : ReadAs(subs[i]) = Failed THEN vo = Failed
    ELSE /\ vo \in [DOMAIN NoOptions -> OptionValues]
         /\ \A code \in DOMAIN NoOptions :
               /\ LastOption(subs, n, code) = {} => vo[code] = None
               /\ \A i \in LastOption(subs, n, code) : vo[code] = ReadAs(subs[i])

LEMMA OptionsAreRead ==
  ASSUME Failed \notin [DOMAIN NoOptions -> OptionValues],
         NEW S, NEW subs \in Seq(S),
         \A i \in 1 .. Len(subs) : ReadAs(subs[i]) \in OptionValues \union {Failed}
  PROVE  ReadOfOptions(OptionsUpTo(subs)[Len(subs)], subs, Len(subs))
  <1> DEFINE N == Len(subs)
             vo(n) == OptionsUpTo(subs)[n]
             Codes == DOMAIN NoOptions
             T == {n \in Nat : n <= N => ReadOfOptions(vo(n), subs, n)}
  <1>1. N \in Nat
    OBVIOUS
  <1>2. vo(0) = NoOptions
        /\ \A n \in Nat : n + 1 <= N => vo(n + 1) = ReadOption(vo(n), subs[n + 1])
    <2>1. \A n \in Nat : n + 1 <= N => n + 1 \in 1 .. N /\ (n + 1) - 1 = n
      BY <1>1
    <2>2. QED
      BY <2>1, OptionsUpToAre
  <1>3. \A i \in 1 .. N : ReadAs(subs[i]) \in OptionValues \union {Failed}
    OBVIOUS
  <1> HIDE DEF N, vo
  <1>4. 0 \in T
    <2>1. NoOptions \in [Codes -> OptionValues] /\ \A code \in Codes : NoOptions[code] = None
      BY DEF NoOptions, OptionValues
    <2>2. \A code : LastOption(subs, 0, code) = {}
      BY DEF LastOption
    <2>3. ~\E i \in 1 .. 0 : ReadAs(subs[i]) = Failed
      OBVIOUS
    <2>4. ReadOfOptions(NoOptions, subs, 0)
      BY <2>1, <2>2, <2>3 DEF ReadOfOptions
    <2>5. QED
      BY <1>2, <2>4
  <1>5. ASSUME NEW n \in Nat, n \in T PROVE n + 1 \in T
    <2> SUFFICES ASSUME n + 1 <= N PROVE ReadOfOptions(vo(n + 1), subs, n + 1)
      OBVIOUS
    <2> DEFINE code == subs[n + 1][1]
               val == ReadAs(subs[n + 1])
               old == vo(n)
               new == vo(n + 1)
    <2>1. ReadOfOptions(old, subs, n)
      BY <1>1, <1>5
    <2>2. new = IF old = Failed \/ val = Failed THEN Failed
                ELSE IF code \in DOMAIN old THEN [old EXCEPT ![code] = val] ELSE old
      BY <1>2 DEF ReadOption, ReadAs
    <2>3. \A i : i \in 1 .. n + 1 <=> i \in 1 .. n \/ i = n + 1
      OBVIOUS
    <2>4. val \in OptionValues \union {Failed}
      BY <1>1, <1>3
    <2>5. \A c : LastOption(subs, n + 1, c) = IF c = code THEN {n + 1} ELSE LastOption(subs, n, c)
      <3> SUFFICES ASSUME NEW c
                   PROVE  /\ c = code => LastOption(subs, n + 1, c) = {n + 1}
                          /\ c # code => LastOption(subs, n + 1, c) = LastOption(subs, n, c)
        OBVIOUS
      <3>1. ~\E j : j \in (n + 1) + 1 .. n + 1
        OBVIOUS
      <3>2. ASSUME NEW k \in 1 .. n PROVE \A j : j \in k + 1 .. n + 1 <=> j \in k + 1 .. n \/ j = n + 1
        OBVIOUS
      <3>3. ASSUME c = code PROVE LastOption(subs, n + 1, c) = {n + 1}
        BY <2>3, <3>1, <3>2, <3>3 DEF LastOption
      <3>4. ASSUME c # code PROVE LastOption(subs, n + 1, c) = LastOption(subs, n, c)
        BY <2>3, <3>2, <3>4 DEF LastOption
      <3>5. QED
        BY <3>3, <3>4
    <2> HIDE DEF code, val, old, new
    <2>6. CASE \E i \in 1 .. n + 1 : ReadAs(subs[i]) = Failed
      <3>1. old = Failed \/ val = Failed
        BY <2>1, <2>3, <2>6 DEF ReadOfOptions, val
      <3>2. new = Failed
        BY <2>2, <3>1
      <3>3. QED
        BY <2>6, <3>2 DEF ReadOfOptions, new
    <2>7. CASE ~\E i \in 1 .. n + 1 : ReadAs(subs[i]) = Failed
      <3>1. val # Failed /\ val \in OptionValues /\ ~\E i \in 1 .. n : ReadAs(subs[i]) = Failed
        BY <2>3, <2>4, <2>7 DEF val
      <3>2. /\ old \in [Codes -> OptionValues] /\ old # Failed
            /\ \A c \in Codes : /\ LastOption(subs, n, c) = {} => old[c] = None
                                /\ \A i \in LastOption(subs, n, c) : old[c] = ReadAs(subs[i])
        BY <2>1, <3>1 DEF ReadOfOptions
      <3> HIDE DEF Codes
      <3>3. /\ new \in [Codes -> OptionValues]
            /\ \A c \in Codes : new[c] = IF c = code THEN val ELSE old[c]
        BY <2>2, <3>1, <3>2
      <3>4. \A c \in Codes : /\ LastOption(subs, n + 1, c) = {} => new[c] = None
                             /\ \A i \in LastOption(subs, n + 1, c) : new[c] = ReadAs(subs[i])
        BY <2>5, <3>2, <3>3, ZenonT(30) DEF val
      <3>5. QED
        BY <2>7, <3>3, <3>4 DEF ReadOfOptions, Codes, new
    <2>8. QED
      BY <2>6, <2>7
  <1>6. Nat \subseteq T
    <2> HIDE DEF T
    <2>1. QED
      BY <1>4, <1>5, Induction
  <1>7. QED
    BY <1>1, <1>6 DEF N, vo

\* A domain is read as the name it is, and refused if it is none.
LEMMA DomainIsRead ==
  ASSUME NEW s \in Subs, NEW i \in DOMAIN s, s[i][1] = SIPDomain
  PROVE  LET v == s[i][2]
             name == DecodeDNSName(v)
         IN  /\ NamesIn(v) = {} => name = Failed
             /\ NamesIn(v) # {} => name \in NamesIn(v) /\ name \in Seq(Seq(Byte))
  <1> DEFINE v == s[i][2]
             Rest(n) == SubSeq(v, Len(EncodeName(n)) + 1, Len(v))
  <1>1. Failed \notin Seq(Seq(Byte)) /\ s \in Seq(Option) /\ Names \subseteq Seq(Label) \ {<<>>}
    BY WrittenOptionsAssumption DEF OptionValues
  <1>2. v \in Seq(Byte)
    <2>1. s[i] \in Option
      BY <1>1
    <2>2. QED
      BY <2>1 DEF Option
  <1>3. PICK n \in Names \union {<<>>} :
           v = EncodeName(n) \o Rest(n) /\ (Rest(n) \in {<<>>, <<0>>} \/ NoLabel(Rest(n)))
    <2>1. \E n \in Names \union {<<>>} :
             v = EncodeName(n) \o Rest(n) /\ (Rest(n) \in {<<>>, <<0>>} \/ NoLabel(Rest(n)))
      BY WrittenOptionsAssumption
    <2>2. QED
      BY <2>1
  <1>4. ASSUME NEW m \in Seq(Label)
        PROVE  m \in Seq(Seq(Byte)) /\ EncodeName(m) \in Seq(Byte)
    <2> DEFINE ss == [k \in DOMAIN m |-> <<Len(m[k])>> \o m[k]]
    <2>1. \A k \in DOMAIN m : m[k] \in Label
      OBVIOUS
    <2>2. \A l \in Label : <<Len(l)>> \o l \in Seq(Byte)
      <3> SUFFICES ASSUME NEW l \in Label PROVE <<Len(l)>> \o l \in Seq(Byte)
        OBVIOUS
      <3>1. l \in Seq(Byte) /\ Len(l) \in Byte
        BY DEF Label, Byte
      <3>2. QED
        BY <3>1
    <2>3. ss \in [1 .. Len(m) -> Seq(Byte)] /\ Len(m) \in Nat
      BY <2>1, <2>2
    <2> HIDE DEF ss
    <2>4. ss \in Seq(Seq(Byte))
      BY <2>3, FunctionIsSeq
    <2>5. EncodeName(m) = FlattenSeq(ss)
      BY DEF EncodeName, ss
    <2>6. m \in Seq(Seq(Byte))
      BY DEF Label
    <2>7. QED
      BY <2>4, <2>5, <2>6, FlatIs
  <1>5. n \in Seq(Label) /\ Rest(n) \in Seq(Byte)
    <2>1. n \in Seq(Label)
      <3>1. <<>> \in Seq(Label) /\ Names \subseteq Seq(Label)
        BY <1>1
      <3>2. QED
        BY <1>3, <3>1
    <2>2. EncodeName(n) \in Seq(Byte)
      BY <1>4, <2>1
    <2>3. QED
      BY <1>2, <2>1, <2>2
  <1> DEFINE tail == Rest(n)
  <1> HIDE DEF v, Rest
  <1>6. ASSUME NEW m \in NamesIn(v)
        PROVE  DecodeDNSName(v) = m /\ m \in Seq(Seq(Byte))
    <2> m \in Names /\ v \in {EncodeName(m), EncodeName(m) \o <<0>>}
      BY DEF NamesIn
    <2>1. m \in Seq(Label) /\ m # <<>> /\ EncodeName(m) \in Seq(Byte) /\ m \in Seq(Seq(Byte))
      BY <1>1, <1>4
    <2>2. <<>> \in Seq(Byte) /\ <<0>> \in Seq(Byte) /\ EndsName(<<>>) /\ EndsName(<<0>>)
      BY DEF EndsName, Byte
    <2>3. EncodeName(m) \o <<>> = EncodeName(m)
      BY <2>1
    <2>4. DecodeDNSName(EncodeName(m) \o <<>>) = m /\ DecodeDNSName(EncodeName(m) \o <<0>>) = m
      BY <1>1, <2>1, <2>2, NameIsRead
    <2>5. QED
      BY <2>1, <2>3, <2>4
  <1>7. ASSUME NamesIn(v) # {} PROVE DecodeDNSName(v) \in NamesIn(v) /\ DecodeDNSName(v) \in Seq(Seq(Byte))
    BY <1>6, <1>7 DEF NamesIn
  <1>8. ASSUME NamesIn(v) = {} PROVE DecodeDNSName(v) = Failed
    <2>1. CASE NoLabel(tail)
      BY <1>1, <1>3, <1>5, <2>1, NameIsRead
    <2>2. CASE tail \in {<<>>, <<0>>}
      <3>1. EncodeName(n) \in Seq(Byte)
        BY <1>4, <1>5
      <3>2. v \in {EncodeName(n), EncodeName(n) \o <<0>>}
        BY <1>3, <2>2, <3>1
      <3>3. n = <<>>
        BY <1>3, <1>8, <3>2 DEF NamesIn
      <3>4. EndsName(tail)
        BY <2>2 DEF EndsName
      <3>5. QED
        BY <1>1, <1>3, <1>5, <3>3, <3>4, NameIsRead
    <2>3. QED
      BY <1>3, <2>1, <2>2
  <1>9. QED
    BY <1>7, <1>8 DEF v

\* What comes of vendor options once they are read.
VendorOptsAreRead ==
    input.kind = "options" =>
        /\ input.subs \in Subs /\ input.style \in Styles
        /\ input.cut \in 0 .. Len(EncodeOptions(input.subs))
        /\ \/ output = None
           \/ output = DecodeVendorOpts(Printed(input.subs, input.cut, input.style))

LEMMA VendorOptsAreReadHolds == InputsSpec => []VendorOptsAreRead
  <1>1. InputsInit => VendorOptsAreRead
    BY DEF InputsInit, VendorOptsAreRead
  <1>2. ASSUME VendorOptsAreRead, [InputsNext]_inputsVars PROVE VendorOptsAreRead'
    <2> USE DEF Returns
    <2>1. CASE ReadOptions
      BY <1>2, <2>1 DEF ReadOptions, VendorOptsAreRead
    <2>2. CASE input.kind # "options" /\ UNCHANGED input
      BY <2>2 DEF VendorOptsAreRead
    <2>3. CASE UNCHANGED inputsVars
      BY <1>2, <2>3 DEF VendorOptsAreRead, inputsVars
    <2>4. QED
      BY <1>2, <2>1, <2>2, <2>3 DEF InputsNext, ReadConfig, ReadAnswer, ReadOffer,
         ReadOur200, ReadInvite, ReadResponse
  <1>3. QED
    BY <1>1, <1>2, PTL DEF InputsSpec

\* The vendor options are read back however dhclient printed them: for any
\* number of options and labels, of any codes and lengths, cut anywhere.
THEOREM VendorOptionsAreReadBack == InputsSpec => []OptionsRead
  <1>1. VendorOptsAreRead => OptionsRead
    <2> SUFFICES ASSUME VendorOptsAreRead, input.kind = "options", output # None
                 PROVE  OptionsRead
      BY DEF OptionsRead
    <2> DEFINE subs == input.subs
               cut == input.cut
               b == SubSeq(EncodeOptions(subs), 1, cut)
               heard == {n \in 0 .. Len(subs) : Len(EncodeOptions(SubSeq(subs, 1, n))) = cut}
               upTo == CHOOSE n \in heard : TRUE
               part == SubSeq(subs, 1, upTo)
               last(code) == {i \in 1 .. upTo : /\ subs[i][1] = code
                                                /\ \A j \in i + 1 .. upTo : subs[j][1] # code}
               domains == {subs[i][2] : i \in {j \in 1 .. upTo : subs[j][1] = SIPDomain}}
    <2>1. /\ subs \in Subs /\ subs \in Seq(Option) /\ input.style \in Styles
          /\ cut \in 0 .. Len(EncodeOptions(subs))
          /\ output = DecodeVendorOpts(Printed(subs, cut, input.style))
          /\ Failed \notin Seq(Option) /\ Failed \notin OptionValues
          /\ Failed \notin [DOMAIN NoOptions -> OptionValues]
      BY WrittenOptionsAssumption DEF VendorOptsAreRead
    <2> HIDE DEF subs, cut
    <2>2. /\ b \in Seq(Byte) /\ Len(b) = cut
          /\ \A n \in heard : cut >= 4 /\ Suboptions(b) = SubSeq(subs, 1, n)
          /\ heard = {} => cut < 4 \/ Suboptions(b) = Failed
      <3>1. b = SubSeq(EncodeOptions(subs), 1, cut)
        OBVIOUS
      <3>2. heard = CutAfter(subs, cut)
        BY DEF CutAfter
      <3> HIDE DEF b, heard
      <3>3. CutIsRead(b, subs, cut)
        BY <2>1, <3>1, OptionsCut
      <3>4. QED
        BY <3>2, <3>3 DEF CutIsRead
    <2>3. /\ DecodeHexish(Printed(subs, cut, input.style)) \in {b, Failed}
          /\ cut > 1 => DecodeHexish(Printed(subs, cut, input.style)) = b
      BY <2>1, <2>2, HexIsRead DEF Printed
    <2> HIDE DEF b
    <2>4. b # Failed
      BY <2>1, <2>2 DEF OptionValues
    <2>5. output = IF cut < 4 \/ Suboptions(b) = Failed THEN Failed
                   ELSE OptionsUpTo(Suboptions(b))[Len(Suboptions(b))]
      <3>1. cut \in Nat
        BY <2>2
      <3>2. CASE cut > 1
        BY <2>1, <2>2, <2>3, <2>4, <3>2 DEF DecodeVendorOpts
      <3>3. CASE ~(cut > 1)
        <4>1. cut < 4
          BY <3>1, <3>3
        <4>2. QED
          BY <2>1, <2>2, <2>3, <4>1 DEF DecodeVendorOpts
      <3>4. QED
        BY <3>2, <3>3
    <2>6. CASE heard = {}
      <3>1. output = Failed
        BY <2>2, <2>5, <2>6
      <3>2. QED
        BY <2>6, <3>1 DEF OptionsRead, subs, cut
    <2>7. CASE heard # {}
      <3>1. upTo \in heard
        BY <2>7
      <3> HIDE DEF upTo
      <3>2. upTo \in 0 .. Len(subs) /\ cut >= 4 /\ Suboptions(b) = part
        BY <2>2, <3>1
      <3>3. /\ part \in Seq(Option) /\ Len(part) = upTo /\ upTo \in Nat
            /\ \A i \in 1 .. upTo : part[i] = subs[i] /\ i \in DOMAIN subs /\ subs[i] \in Option
        BY <2>1, <3>2
      <3> HIDE DEF heard, part
      <3>4. output = OptionsUpTo(part)[Len(part)]
        <4>1. part # Failed /\ ~(cut < 4)
          BY <2>1, <2>2, <3>2, <3>3
        <4>2. QED
          BY <2>5, <3>2, <4>1
      <3>5. ASSUME NEW i \in 1 .. upTo
            PROVE  /\ subs[i][1] = SIPDomain =>
                        /\ NamesIn(subs[i][2]) = {} => ReadAs(part[i]) = Failed
                        /\ NamesIn(subs[i][2]) # {} =>
                              /\ ReadAs(part[i]) \in NamesIn(subs[i][2])
                              /\ ReadAs(part[i]) \in OptionValues
                   /\ subs[i][1] # SIPDomain =>
                        ReadAs(part[i]) = subs[i][2] /\ ReadAs(part[i]) \in OptionValues
        <4>1. part[i] = subs[i] /\ i \in DOMAIN subs /\ subs[i][2] \in Seq(Byte)
          BY <3>3 DEF Option
        <4>2. CASE subs[i][1] = SIPDomain
          BY <2>1, <4>1, <4>2, DomainIsRead DEF ReadAs, OptionValues
        <4>3. CASE subs[i][1] # SIPDomain
          BY <4>1, <4>3 DEF ReadAs, OptionValues
        <4>4. QED
          BY <4>2, <4>3
      <3>6. ReadOfOptions(output, part, upTo)
        <4>1. \A i \in 1 .. Len(part) : ReadAs(part[i]) \in OptionValues \union {Failed}
          BY <3>3, <3>5
        <4>2. QED
          BY <2>1, <3>3, <3>4, <4>1, OptionsAreRead
      <3>7. (\E v \in domains : NamesIn(v) = {}) <=> \E i \in 1 .. upTo : ReadAs(part[i]) = Failed
        BY <2>1, <3>5
      <3>8. \A code : last(code) = LastOption(part, upTo, code)
        <4>1. \A i \in 1 .. upTo : \A j \in i + 1 .. upTo : j \in 1 .. upTo
          BY <3>3
        <4>2. QED
          BY <3>3, <4>1 DEF LastOption
      <3>9. \A code : \A i \in last(code) : i \in 1 .. upTo /\ subs[i][1] = code
        OBVIOUS
      <3> HIDE DEF last, domains
      <3>10. CASE \E v \in domains : NamesIn(v) = {}
        <4>1. output = Failed
          BY <3>6, <3>7, <3>10 DEF ReadOfOptions
        <4>2. QED
          BY <3>10, <4>1 DEF OptionsRead, subs, cut, heard, upTo, domains
      <3>11. CASE ~\E v \in domains : NamesIn(v) = {}
        <4>1. /\ output \in [DOMAIN NoOptions -> OptionValues]
              /\ \A code \in DOMAIN NoOptions :
                    /\ last(code) = {} => output[code] = None
                    /\ \A i \in last(code) : output[code] = ReadAs(part[i])
          BY <3>6, <3>7, <3>8, <3>11 DEF ReadOfOptions
        <4>2. output # Failed
          BY <2>1, <4>1
        <4>3. \A i \in 1 .. upTo : subs[i][1] = SIPDomain => NamesIn(subs[i][2]) # {}
          BY <3>11 DEF domains
        <4>4. ASSUME NEW code \in DOMAIN NoOptions, NEW i \in last(code)
              PROVE  IF code = SIPDomain THEN output[code] \in NamesIn(subs[i][2])
                                         ELSE output[code] = subs[i][2]
          BY <3>5, <3>9, <4>1, <4>3
        <4>5. /\ output # Failed
              /\ \A code \in DOMAIN NoOptions :
                    /\ last(code) = {} => output[code] = None
                    /\ \A i \in last(code) :
                          IF code = SIPDomain THEN output[code] \in NamesIn(subs[i][2])
                                              ELSE output[code] = subs[i][2]
          BY <4>1, <4>2, <4>4
        <4>6. QED
          BY <2>7, <3>11, <4>5, Zenon DEF OptionsRead, subs, cut, heard, upTo, domains, last
      <3>12. QED
        BY <3>10, <3>11
    <2>8. QED
      BY <2>6, <2>7
  <1>2. QED
    BY <1>1, VendorOptsAreReadHolds, PTL


-----------------------------------------------------------------------------
(***************************************************************************)
(* The messages: lists of headers, the lines they are written in, what is  *)
(* read of a message, and the requests of a dialog.                        *)
(***************************************************************************)
\* A full name is its own canonical name.
LEMMA CanonIs == \A n \in FullNames : Canon(n) = n
  BY DEF Canon, CompactForms, FullNames

\* A header is written under a name that is read back as its own.
LEMMA NameInIs ==
  ASSUME NEW c, NEW n \in FullNames
  PROVE  NameIn(n, c) \in Words /\ Canon(NameIn(n, c)) = n
  <1> DEFINE short == {f \in DOMAIN CompactForms : CompactForms[f] = n}
  <1>1. \A f \in short : f \in Words /\ Canon(f) = n
    BY DEF Canon, Words
  <1>2. CASE c.compact /\ short # {}
    <2>1. (CHOOSE f \in short : TRUE) \in short
      <3> HIDE DEF short
      <3>1. QED
        BY <1>2
    <2>2. NameIn(n, c) = CHOOSE f \in short : TRUE
      BY <1>2 DEF NameIn
    <2> HIDE DEF short
    <2>3. QED
      BY <1>1, <2>1, <2>2
  <1>3. CASE ~(c.compact /\ short # {})
    <2>1. NameIn(n, c) = n
      BY <1>3 DEF NameIn
    <2>2. QED
      BY <2>1, CanonIs DEF Words
  <1>4. QED
    BY <1>2, <1>3

\* What a header adds to the values of a name.
One(h, name) == IF Named(h, name) THEN <<h.value>> ELSE <<>>

\* Headers H with values V.
Carry(H, V) == \A h \in H : h.value \in V

\* One more header, and its value if it has the name.
LEMMA ValuesGrow ==
  ASSUME NEW V, NEW H, Carry(H, V), NEW hs \in Seq(H), NEW name
  PROVE  /\ Values(hs, name) \in Seq(V) /\ Values(<<>>, name) = <<>>
         /\ \A h \in H : Values(Append(hs, h), name) = Values(hs, name) \o One(h, name)
  <1> DEFINE all(ks) == [i \in DOMAIN ks |-> One(ks[i], name)]
  <1>1. \A ks : Values(ks, name) = FlattenSeq(all(ks))
    BY DEF Values, One
  <1>2. \A k \in H : One(k, name) \in Seq(V)
    BY DEF One, Carry
  <1>3. all(hs) \in Seq(Seq(V))
    <2>1. all(hs) \in [1 .. Len(hs) -> Seq(V)] /\ Len(hs) \in Nat
      BY <1>2
    <2> HIDE DEF all
    <2>2. QED
      BY <2>1, FunctionIsSeq
  <1>4. ASSUME NEW h \in H PROVE all(Append(hs, h)) = Append(all(hs), One(h, name))
    <2>1. all(Append(hs, h)) \in [1 .. Len(hs) + 1 -> Seq(V)] /\ Len(hs) \in Nat
      <3>1. \A i \in 1 .. Len(hs) + 1 : Append(hs, h)[i] \in H
        OBVIOUS
      <3>2. QED
        BY <1>2, <3>1
    <2>2. all(Append(hs, h)) \in Seq(Seq(V)) /\ Len(all(Append(hs, h))) = Len(hs) + 1
      <3> HIDE DEF all
      <3>1. QED
        BY <2>1, FunctionIsSeq
    <2>3. Len(all(hs)) = Len(hs)
      BY <1>3
    <2>4. \A i \in 1 .. Len(hs) + 1 :
             all(Append(hs, h))[i] = IF i <= Len(hs) THEN all(hs)[i] ELSE One(h, name)
      OBVIOUS
    <2> HIDE DEF all
    <2>5. Append(all(hs), One(h, name)) \in Seq(Seq(V))
      BY <1>2, <1>3
    <2>6. Len(Append(all(hs), One(h, name))) = Len(hs) + 1
      BY <1>2, <1>3, <2>3
    <2>7. \A i \in 1 .. Len(hs) + 1 : all(Append(hs, h))[i] = Append(all(hs), One(h, name))[i]
      BY <1>2, <1>3, <2>3, <2>4
    <2>8. QED
      BY <2>2, <2>5, <2>6, <2>7, SameSeq
  <1>5. FlattenSeq(<<>>) = <<>> /\ all(<<>>) = <<>>
    BY DEF FlattenSeq
  <1> HIDE DEF all
  <1>6. FlattenSeq(all(hs)) \in Seq(V)
    <2>1. <<>> \in Seq(V)
      OBVIOUS
    <2>2. QED
      BY <1>3, <2>1, FlattenGrows
  <1>7. ASSUME NEW h \in H
        PROVE  FlattenSeq(Append(all(hs), One(h, name))) = FlattenSeq(all(hs)) \o One(h, name)
    BY <1>2, <1>3, FlattenGrows
  <1>8. QED
    BY <1>1, <1>4, <1>5, <1>6, <1>7

\* The values in two lists, one behind the other.
LEMMA ValuesJoin ==
  ASSUME NEW V, NEW H, Carry(H, V), NEW hs \in Seq(H), NEW ks \in Seq(H), NEW name
  PROVE  Values(hs \o ks, name) = Values(hs, name) \o Values(ks, name)
  <1> DEFINE upTo(n) == SubSeq(ks, 1, n)
             T == {n \in Nat : n <= Len(ks) =>
                      Values(hs \o upTo(n), name) = Values(hs, name) \o Values(upTo(n), name)}
  <1> HIDE DEF upTo
  <1>0. ASSUME NEW xs \in Seq(H), NEW x \in H
        PROVE  /\ Values(xs, name) \in Seq(V)
               /\ Values(Append(xs, x), name) = Values(xs, name) \o One(x, name)
    BY ValuesGrow
  <1>1. 0 \in T
    <2>1. Values(hs, name) \in Seq(V) /\ Values(<<>>, name) = <<>>
      BY ValuesGrow
    <2>2. upTo(0) = <<>>
      BY DEF upTo
    <2>3. hs \o <<>> = hs /\ Values(hs, name) \o <<>> = Values(hs, name)
      BY <2>1
    <2>4. QED
      BY <2>1, <2>2, <2>3
  <1>2. ASSUME NEW n \in Nat, n \in T PROVE n + 1 \in T
    <2> SUFFICES ASSUME n + 1 <= Len(ks)
                 PROVE  Values(hs \o upTo(n + 1), name)
                           = Values(hs, name) \o Values(upTo(n + 1), name)
      OBVIOUS
    <2> DEFINE h == ks[n + 1]
    <2>1. h \in H /\ upTo(n) \in Seq(H) /\ hs \o upTo(n) \in Seq(H)
      BY DEF upTo
    <2>2. upTo(n + 1) = Append(upTo(n), h)
      BY DEF upTo
    <2>3. hs \o upTo(n + 1) = Append(hs \o upTo(n), h)
      <3>1. \A u \in Seq(H), x \in H : hs \o Append(u, x) = Append(hs \o u, x)
        OBVIOUS
      <3> HIDE DEF h
      <3>2. QED
        BY <2>1, <2>2, <3>1
    <2>4. Values(hs \o upTo(n), name) = Values(hs, name) \o Values(upTo(n), name)
      BY <1>2
    <2> HIDE DEF h
    <2>5. /\ Values(upTo(n + 1), name) = Values(upTo(n), name) \o One(h, name)
          /\ Values(upTo(n), name) \in Seq(V)
      BY <1>0, <2>1, <2>2
    <2>6. /\ Values(hs \o upTo(n + 1), name) = Values(hs \o upTo(n), name) \o One(h, name)
      BY <1>0, <2>1, <2>3
    <2>7. Values(hs, name) \in Seq(V)
      BY ValuesGrow
    <2>8. One(h, name) \in Seq(V)
      BY <2>1 DEF One, Carry
    <2>9. (Values(hs, name) \o Values(upTo(n), name)) \o One(h, name)
             = Values(hs, name) \o (Values(upTo(n), name) \o One(h, name))
      BY <2>5, <2>7, <2>8
    <2>10. QED
      BY <2>4, <2>5, <2>6, <2>9
  <1>3. Nat \subseteq T
    <2> HIDE DEF T
    <2>1. QED
      BY <1>1, <1>2, Induction
  <1>4. Len(ks) \in T /\ Len(ks) \in Nat
    <2> HIDE DEF T
    <2>1. QED
      BY <1>3
  <1>5. Values(hs \o upTo(Len(ks)), name) = Values(hs, name) \o Values(upTo(Len(ks)), name)
    BY <1>4
  <1>6. upTo(Len(ks)) = ks
    BY DEF upTo
  <1>7. QED
    BY <1>5, <1>6

\* Values is the function that starts with nothing and takes header by header.
LEMMA ValuesBy ==
  ASSUME NEW V, NEW H, Carry(H, V), NEW hs \in Seq(H), NEW name, NEW F, F[0] = <<>>,
         \A n \in Nat : n + 1 <= Len(hs) => F[n + 1] = F[n] \o One(hs[n + 1], name)
  PROVE  Values(hs, name) = F[Len(hs)]
  <1> DEFINE upTo(n) == SubSeq(hs, 1, n)
             T == {n \in Nat : n <= Len(hs) => Values(upTo(n), name) = F[n]}
  <1> HIDE DEF upTo
  <1>1. 0 \in T
    <2>1. Values(<<>>, name) = <<>>
      BY ValuesGrow
    <2>2. upTo(0) = <<>>
      BY DEF upTo
    <2>3. QED
      BY <2>1, <2>2
  <1>2. ASSUME NEW n \in Nat, n \in T PROVE n + 1 \in T
    <2> SUFFICES ASSUME n + 1 <= Len(hs) PROVE Values(upTo(n + 1), name) = F[n + 1]
      OBVIOUS
    <2>1. hs[n + 1] \in H /\ upTo(n) \in Seq(H) /\ upTo(n + 1) = Append(upTo(n), hs[n + 1])
      BY DEF upTo
    <2>2. Values(upTo(n + 1), name) = Values(upTo(n), name) \o One(hs[n + 1], name)
      <3>1. ASSUME NEW u \in Seq(H), NEW x \in H
            PROVE  Values(Append(u, x), name) = Values(u, name) \o One(x, name)
        BY ValuesGrow, SMTT(30)
      <3>2. QED
        BY <2>1, <3>1
    <2>3. Values(upTo(n), name) = F[n]
      BY <1>2
    <2>4. QED
      BY <2>2, <2>3
  <1>3. Len(hs) \in T
    <2> HIDE DEF T
    <2>1. QED
      BY <1>1, <1>2, Induction
  <1>4. upTo(Len(hs)) = hs
    BY DEF upTo
  <1>5. QED
    BY <1>3, <1>4

\* No header of the name, one, or nothing but such headers.
LEMMA NoneNamed ==
  ASSUME NEW V, NEW H, Carry(H, V), NEW hs \in Seq(H), NEW name,
         \A i \in 1 .. Len(hs) : ~Named(hs[i], name)
  PROVE  Values(hs, name) = <<>>
  <1> DEFINE F == [n \in 0 .. Len(hs) |-> <<>>]
  <1>1. F[0] = <<>> /\ F[Len(hs)] = <<>>
    OBVIOUS
  <1>2. ASSUME NEW n \in Nat, n + 1 <= Len(hs) PROVE F[n + 1] = F[n] \o One(hs[n + 1], name)
    <2>1. F[n + 1] = <<>> /\ F[n] = <<>> /\ One(hs[n + 1], name) = <<>>
      BY <1>2 DEF One
    <2>2. QED
      BY <2>1
  <1> HIDE DEF F
  <1>3. QED
    BY <1>1, <1>2, ValuesBy

LEMMA OnlyNamed ==
  ASSUME NEW V, NEW H, Carry(H, V), NEW hs \in Seq(H), NEW name,
         NEW i \in 1 .. Len(hs), \A j \in 1 .. Len(hs) : Named(hs[j], name) <=> j = i
  PROVE  Values(hs, name) = <<hs[i].value>>
  <1> DEFINE F == [n \in 0 .. Len(hs) |-> IF n < i THEN <<>> ELSE <<hs[i].value>>]
  <1>1. F[0] = <<>> /\ F[Len(hs)] = <<hs[i].value>>
    OBVIOUS
  <1>2. ASSUME NEW n \in Nat, n + 1 <= Len(hs) PROVE F[n + 1] = F[n] \o One(hs[n + 1], name)
    <2>1. One(hs[n + 1], name) = IF n + 1 = i THEN <<hs[i].value>> ELSE <<>>
      BY <1>2 DEF One
    <2>2. F[n + 1] = (IF n + 1 < i THEN <<>> ELSE <<hs[i].value>>)
          /\ F[n] = (IF n < i THEN <<>> ELSE <<hs[i].value>>)
      BY <1>2
    <2> HIDE DEF F
    <2> DEFINE v == <<hs[i].value>>
    <2>3. <<>> \o <<>> = <<>> /\ <<>> \o v = v /\ v \o <<>> = v
      <3>1. v \in Seq({hs[i].value})
        OBVIOUS
      <3> HIDE DEF v
      <3>2. QED
        BY <3>1
    <2> HIDE DEF v
    <2>4. CASE n + 1 < i
      BY <2>1, <2>2, <2>3, <2>4 DEF v
    <2>5. CASE n + 1 = i
      <3>1. F[n + 1] = v /\ F[n] = <<>> /\ One(hs[n + 1], name) = v
        BY <2>1, <2>2, <2>5 DEF v
      <3>2. QED
        BY <2>3, <3>1
    <2>6. CASE n + 1 > i
      <3>1. F[n + 1] = v /\ F[n] = v /\ One(hs[n + 1], name) = <<>>
        BY <2>1, <2>2, <2>6 DEF v
      <3>2. QED
        BY <2>3, <3>1
    <2>7. n + 1 < i \/ n + 1 = i \/ n + 1 > i
      BY <1>2
    <2>8. QED
      BY <2>4, <2>5, <2>6, <2>7
  <1> HIDE DEF F
  <1>3. QED
    BY <1>1, <1>2, ValuesBy

LEMMA AllNamed ==
  ASSUME NEW V, NEW H, Carry(H, V), NEW hs \in Seq(H), NEW name,
         \A i \in 1 .. Len(hs) : Named(hs[i], name)
  PROVE  Values(hs, name) = [i \in DOMAIN hs |-> hs[i].value]
  <1> DEFINE upTo(n) == [i \in 1 .. n |-> hs[i].value]
             F == [n \in 0 .. Len(hs) |-> upTo(n)]
  <1>1. F[0] = <<>> /\ F[Len(hs)] = [i \in DOMAIN hs |-> hs[i].value]
    OBVIOUS
  <1>2. ASSUME NEW n \in Nat, n + 1 <= Len(hs) PROVE F[n + 1] = F[n] \o One(hs[n + 1], name)
    <2>1. One(hs[n + 1], name) = <<hs[n + 1].value>> /\ hs[n + 1].value \in V
      BY <1>2 DEF One, Carry
    <2>2. F[n + 1] = upTo(n + 1) /\ F[n] = upTo(n)
      BY <1>2
    <2>3. upTo(n) \in [1 .. n -> V] /\ upTo(n + 1) \in [1 .. n + 1 -> V]
      BY <1>2 DEF Carry
    <2>4. \A i \in 1 .. n : upTo(n)[i] = upTo(n + 1)[i]
      BY <1>2
    <2>5. upTo(n + 1)[n + 1] = hs[n + 1].value
      BY <1>2
    <2> HIDE DEF F, upTo
    <2>6. upTo(n) \in Seq(V) /\ Len(upTo(n)) = n /\ upTo(n + 1) \in Seq(V) /\ Len(upTo(n + 1)) = n + 1
      BY <2>3, FunctionIsSeq
    <2>7. upTo(n + 1) = upTo(n) \o <<hs[n + 1].value>>
      <3>1. \A s, t \in Seq(V), x \in V :
               /\ Len(s) = n /\ Len(t) = n + 1 /\ t[n + 1] = x
               /\ \A i \in 1 .. n : s[i] = t[i]
               => t = s \o <<x>>
        OBVIOUS
      <3>2. QED
        BY <2>1, <2>4, <2>5, <2>6, <3>1
    <2>8. QED
      BY <2>1, <2>2, <2>7
  <1> HIDE DEF F
  <1>3. QED
    BY <1>1, <1>2, ValuesBy, ZenonT(30)

\* Lists of one element each make the list of the elements.
LEMMA Singles ==
  ASSUME NEW S, NEW s \in Seq(S)
  PROVE  FlattenSeq([i \in DOMAIN s |-> <<s[i]>>]) = s
  <1> DEFINE ss == [i \in DOMAIN s |-> <<s[i]>>]
  <1>1. ss \in [1 .. Len(s) -> Seq(S)] /\ Len(s) \in Nat
    OBVIOUS
  <1>2. \A i \in 1 .. Len(s) : Len(ss[i]) = 1 /\ ss[i][1] = s[i]
    OBVIOUS
  <1> HIDE DEF ss
  <1>3. ss \in Seq(Seq(S)) /\ Len(ss) = Len(s) /\ DOMAIN ss = 1 .. Len(s)
    BY <1>1, FunctionIsSeq
  <1> DEFINE k == 1
  <1>4. k \in Nat /\ (\A x \in Int : k * x = x) /\ \A i \in DOMAIN ss : Len(ss[i]) = k
    BY <1>2, <1>3
  <1>5. k > 0 /\ k <= k
    OBVIOUS
  <1> HIDE DEF k
  <1>6. /\ FlattenSeq(ss) \in Seq(S) /\ Len(FlattenSeq(ss)) = k * Len(ss)
        /\ \A i \in DOMAIN ss : \A j \in Nat : 0 < j /\ j <= k =>
              FlattenSeq(ss)[k * (i - 1) + j] = ss[i][j]
    BY <1>3, <1>4, EvenPieces
  <1>7. ASSUME NEW i \in 1 .. Len(s) PROVE FlattenSeq(ss)[i] = s[i]
    <2>1. FlattenSeq(ss)[k * (i - 1) + k] = ss[i][k]
      BY <1>3, <1>4, <1>5, <1>6
    <2>2. k * (i - 1) = i - 1 /\ (i - 1) + k = i /\ k = 1
      BY <1>4 DEF k
    <2>3. QED
      BY <1>2, <2>1, <2>2
  <1>8. Len(FlattenSeq(ss)) = Len(s)
    <2>1. k * Len(s) = Len(s)
      BY <1>1 DEF k
    <2>2. QED
      BY <1>3, <1>6, <2>1
  <1>9. FlattenSeq(ss) = s
    BY <1>6, <1>7, <1>8, SameSeq
  <1>10. QED
    BY <1>9 DEF ss

\* A header that is not there yet is put behind the others.
LEMMA PutIs ==
  ASSUME NEW H, NEW hs \in Seq(H), NEW name, NEW value, Header(name, value) \in H,
         \A i \in 1 .. Len(hs) : ~Named(hs[i], name)
  PROVE  Put(hs, name, value) = Append(hs, Header(name, value))
  <1> DEFINE h == Header(name, value)
             all == Append(hs, h)
             same == {i \in DOMAIN all : Named(all[i], name)}
  <1>1. Named(h, name)
    BY DEF Named, Header
  <1> HIDE DEF h
  <1>2. Len(hs) \in Nat /\ all \in Seq(H) /\ Len(all) = Len(hs) + 1 /\ DOMAIN all = 1 .. Len(hs) + 1
        /\ all[Len(hs) + 1] = h /\ \A i \in 1 .. Len(hs) : all[i] = hs[i]
    BY DEF h
  <1> HIDE DEF all
  <1>3. same = {Len(hs) + 1}
    BY <1>1, <1>2
  <1> HIDE DEF same
  <1>4. [i \in DOMAIN all |-> IF i \notin same THEN <<all[i]>>
                              ELSE IF \A j \in same : i <= j THEN <<h>> ELSE <<>>]
           = [i \in DOMAIN all |-> <<all[i]>>]
    BY <1>2, <1>3
  <1>5. FlattenSeq([i \in DOMAIN all |-> <<all[i]>>]) = all
    BY <1>2, Singles
  <1>6. Put(hs, name, value) = FlattenSeq([i \in DOMAIN all |->
                                  IF i \notin same THEN <<all[i]>>
                                  ELSE IF \A j \in same : i <= j THEN <<h>> ELSE <<>>])
    BY DEF Put, all, same, h
  <1>7. QED
    BY <1>4, <1>5, <1>6 DEF all, h

\* What Unfolding says of itself is so.
LEMMA UnfoldingIs ==
  ASSUME NEW S, NEW lines \in Seq(S)
  PROVE  /\ Unfolding(lines)[0] = <<>>
         /\ \A n \in Nat : n + 1 <= Len(lines) =>
               Unfolding(lines)[n + 1] = ReadOn(Unfolding(lines)[n], lines[n + 1])
  <1> DEFINE Good(g, k) ==
                g = [n \in 0 .. k |-> IF n = 0 THEN <<>> ELSE ReadOn(g[n - 1], lines[n])]
             T == {k \in Nat : \E g : Good(g, k)}
  <1>1. 0 \in T
    <2> DEFINE g == [n \in 0 .. 0 |-> <<>>]
    <2>1. Good(g, 0)
      OBVIOUS
    <2>2. QED
      BY <2>1
  <1>2. ASSUME NEW k \in Nat, k \in T PROVE k + 1 \in T
    <2>1. PICK g : Good(g, k)
      BY <1>2
    <2> DEFINE h == [n \in 0 .. k + 1 |-> IF n = 0 THEN <<>> ELSE ReadOn(g[n - 1], lines[n])]
    <2>2. \A n \in 0 .. k : h[n] = g[n]
      BY <2>1
    <2>3. Good(h, k + 1)
      <3>1. \A n \in 0 .. k + 1 : n # 0 => n - 1 \in 0 .. k
        OBVIOUS
      <3>2. QED
        BY <2>2, <3>1
    <2> HIDE DEF h, Good
    <2>4. QED
      BY <2>3
  <1>3. Nat \subseteq T
    <2> HIDE DEF T
    <2>1. QED
      BY <1>1, <1>2, Induction
  <1>4. Len(lines) \in T
    BY <1>3
  <1>5. Good(Unfolding(lines), Len(lines))
    BY <1>4 DEF Unfolding
  <1> DEFINE upTo == Unfolding(lines)
  <1> HIDE DEF upTo
  <1>6. upTo = [n \in 0 .. Len(lines) |-> IF n = 0 THEN <<>> ELSE ReadOn(upTo[n - 1], lines[n])]
    BY <1>5 DEF upTo
  <1>7. upTo[0] = <<>>
    BY <1>6
  <1>8. ASSUME NEW n \in Nat, n + 1 <= Len(lines) PROVE upTo[n + 1] = ReadOn(upTo[n], lines[n + 1])
    <2>1. n + 1 \in 0 .. Len(lines) /\ n + 1 # 0 /\ (n + 1) - 1 = n
      BY <1>8
    <2>2. QED
      BY <1>6, <2>1
  <1>9. QED
    BY <1>7, <1>8 DEF upTo

\* Headers with names of N and pieces of P.
HeadersOf(N, P) == [name : N, value : Seq(P)]

\* A header with a name begins, and one without goes on.
LEMMA ReadOnIs ==
  ASSUME NEW N, None \notin N, NEW P, NEW out \in Seq(HeadersOf(N, P))
  PROVE  /\ \A h : h.name # None => ReadOn(out, h) = Append(out, h)
         /\ \A n \in N, v, w \in Seq(P) :
               ReadOn(Append(out, Header(n, v)), Header(None, w)) = Append(out, Header(n, v \o w))
  <1>1. ASSUME NEW h, h.name # None PROVE ReadOn(out, h) = Append(out, h)
    BY <1>1 DEF ReadOn
  <1> DEFINE W == HeadersOf(N, P)
  <1>0. out \in Seq(W) /\ \A n \in N, v \in Seq(P) : Header(n, v) \in W
    BY DEF Header, HeadersOf
  <1> HIDE DEF W
  <1>2. ASSUME NEW n \in N, NEW v \in Seq(P), NEW w \in Seq(P)
        PROVE  ReadOn(Append(out, Header(n, v)), Header(None, w)) = Append(out, Header(n, v \o w))
    <2> DEFINE h == Header(n, v)
               q == Append(out, h)
               l == Header(None, w)
               x == Header(n, v \o w)
    <2>1. h \in W /\ x \in W
      <3>1. v \o w \in Seq(P)
        OBVIOUS
      <3>2. QED
        BY <1>0, <3>1
    <2>2. /\ q \in Seq(W) /\ Len(q) = Len(out) + 1 /\ q # <<>> /\ DOMAIN q = 1 .. Len(out) + 1
          /\ q[Len(q)] = h /\ Len(out) \in Nat
          /\ \A i \in 1 .. Len(out) : q[i] = out[i]
      <3> HIDE DEF h, x, l
      <3>1. /\ q \in Seq(W) /\ Len(q) = Len(out) + 1 /\ q[Len(out) + 1] = h
            /\ Len(out) \in Nat
        BY <1>0, <2>1
      <3>2. \A i \in 1 .. Len(out) : q[i] = out[i]
        BY <1>0, <2>1
      <3>3. DOMAIN q = 1 .. Len(out) + 1 /\ q # <<>>
        <4> HIDE DEF q
        <4>1. QED
          BY <3>1
      <3>4. QED
        BY <3>1, <3>2, <3>3
    <2>3. Header(q[Len(q)].name, q[Len(q)].value \o l.value) = x /\ l.name = None
      <3>1. Header(h.name, h.value \o l.value) = x /\ l.name = None
        BY DEF Header
      <3>2. QED
        BY <2>2, <3>1
    <2> HIDE DEF q, l, x, h
    <2>4. ReadOn(q, l) = [q EXCEPT ![Len(q)] = x]
      BY <2>2, <2>3 DEF ReadOn
    <2> DEFINE r == [q EXCEPT ![Len(q)] = x]
    <2>5. r \in [1 .. Len(out) + 1 -> W] /\ r[Len(out) + 1] = x
          /\ \A i \in 1 .. Len(out) : r[i] = out[i]
      BY <1>0, <2>1, <2>2
    <2> HIDE DEF r
    <2>6. r \in Seq(W) /\ Len(r) = Len(out) + 1
      <3>1. Len(out) + 1 \in Nat
        BY <2>2
      <3>2. QED
        BY <2>5, <3>1, FunctionIsSeq
    <2>7. \A s, t \in Seq(W), y \in W :
             /\ Len(t) = Len(s) + 1 /\ t[Len(s) + 1] = y
             /\ \A i \in 1 .. Len(s) : t[i] = s[i]
             => t = Append(s, y)
      OBVIOUS
    <2>8. r = Append(out, x)
      BY <2>1, <2>5, <2>6, <2>7
    <2>9. QED
      BY <2>4, <2>8 DEF q, l, x, r, h
  <1>3. QED
    BY <1>1, <1>2

\* Lines of which the first begins a header, and the others go on with it.
Spell(lines, h, P) ==
    /\ Len(lines) > 0 /\ lines[1].name = h.name
    /\ \A j \in Nat : 1 <= j /\ j + 1 <= Len(lines) =>
          lines[j + 1] = Header(None, lines[j + 1].value)
    /\ \E part \in [1 .. Len(lines) -> Seq(P)] :
          /\ lines[1] = Header(h.name, part[1]) /\ part[Len(lines)] = h.value
          /\ \A j \in Nat : 1 <= j /\ j + 1 <= Len(lines) =>
                part[j + 1] = part[j] \o lines[j + 1].value

\* Lines that spell the headers are unfolded to the headers.
LEMMA LinesRead ==
  ASSUME NEW N, None \notin N, NEW P,
         NEW L, \A l \in L : l.value \in Seq(P),
         NEW hs \in Seq(HeadersOf(N, P)), NEW ss \in Seq(Seq(L)), Len(ss) = Len(hs),
         \A i \in 1 .. Len(hs) : Spell(ss[i], hs[i], P)
  PROVE  Unfold(FlattenSeq(ss)) = hs
  <1> DEFINE W == HeadersOf(N, P)
             lines == FlattenSeq(ss)
             U == Unfolding(lines)
             before(n) == Len(Flat(ss, n))
             upTo(n) == SubSeq(hs, 1, n)
             T == {n \in Nat : n <= Len(hs) => U[before(n)] = upTo(n)}
  <1>1. hs \in Seq(W) /\ Len(hs) \in Nat /\ Len(ss) \in 0 .. Len(ss) /\ Flat(ss, Len(ss)) = lines
    BY FlatIs
  <1>2. /\ lines \in Seq(L) /\ before(0) = 0 /\ before(Len(ss)) = Len(lines)
        /\ \A n \in 0 .. Len(hs) : before(n) \in Nat
    <2>1. \A n \in 0 .. Len(ss) : Flat(ss, n) \in Seq(L)
      BY FlatIs
    <2>2. Flat(ss, 0) = <<>>
      BY FlatIs
    <2>3. QED
      BY <1>1, <2>1, <2>2
  <1>3. ASSUME NEW n \in Nat, n + 1 <= Len(hs)
        PROVE  /\ before(n + 1) = before(n) + Len(ss[n + 1])
               /\ before(n + 1) <= Len(lines)
               /\ \A j \in 1 .. Len(ss[n + 1]) : lines[before(n) + j] = ss[n + 1][j]
    <2>1. /\ before(n + 1) = before(n) + Len(ss[n + 1])
          /\ before(n + 1) <= Len(Flat(ss, Len(ss)))
          /\ \A j \in 1 .. Len(ss[n + 1]) : Flat(ss, Len(ss))[before(n) + j] = ss[n + 1][j]
      BY <1>1, <1>3, Placed
    <2>2. QED
      BY <1>1, <2>1
  <1> HIDE DEF lines, before, W
  <1>4. U[0] = <<>> /\ \A n \in Nat : n + 1 <= Len(lines) => U[n + 1] = ReadOn(U[n], lines[n + 1])
    BY <1>2, UnfoldingIs
  <1> HIDE DEF U
  <1>5. 0 \in T
    <2>1. upTo(0) = <<>>
      OBVIOUS
    <2> HIDE DEF upTo
    <2>2. QED
      BY <1>2, <1>4, <2>1
  <1>6. ASSUME NEW n \in Nat, n \in T PROVE n + 1 \in T
    <2> SUFFICES ASSUME n + 1 <= Len(hs) PROVE U[before(n + 1)] = upTo(n + 1)
      OBVIOUS
    <2> DEFINE h == hs[n + 1]
               piece == ss[n + 1]
    <2>1. h \in W /\ upTo(n) \in Seq(W) /\ upTo(n + 1) = Append(upTo(n), h)
      <3>1. \A s \in Seq(W) : n + 1 <= Len(s) =>
               /\ s[n + 1] \in W /\ SubSeq(s, 1, n) \in Seq(W)
               /\ SubSeq(s, 1, n + 1) = Append(SubSeq(s, 1, n), s[n + 1])
        OBVIOUS
      <3>2. QED
        BY <1>1, <3>1
    <2>2. piece \in Seq(L)
      BY <1>1
    <2>3. Spell(piece, h, P) /\ U[before(n)] = upTo(n)
      BY <1>6
    <2>4. before(n) \in Nat /\ n \in 0 .. Len(hs)
      BY <1>2
    <2>5. /\ before(n + 1) = before(n) + Len(piece)
          /\ before(n + 1) <= Len(lines)
          /\ \A j \in 1 .. Len(piece) : lines[before(n) + j] = piece[j]
      BY <1>3
    <2> HIDE DEF h, piece, upTo
    <2>6. /\ Len(piece) \in Nat /\ Len(piece) > 0 /\ piece[1].name = h.name
          /\ \A j \in Nat : 1 <= j /\ j + 1 <= Len(piece) =>
                piece[j + 1] = Header(None, piece[j + 1].value)
      BY <2>2, <2>3 DEF Spell
    <2>7. PICK part \in [1 .. Len(piece) -> Seq(P)] :
             /\ piece[1] = Header(h.name, part[1]) /\ part[Len(piece)] = h.value
             /\ \A j \in Nat : 1 <= j /\ j + 1 <= Len(piece) =>
                   part[j + 1] = part[j] \o piece[j + 1].value
      BY <2>3 DEF Spell
    <2>8. h.name \in N /\ h.name # None /\ h = Header(h.name, h.value)
      BY <2>1 DEF Header, HeadersOf, W
    <2>9. /\ \A x : x.name # None => ReadOn(upTo(n), x) = Append(upTo(n), x)
          /\ \A m \in N, v, w \in Seq(P) :
               ReadOn(Append(upTo(n), Header(m, v)), Header(None, w))
                  = Append(upTo(n), Header(m, v \o w))
      BY <2>1, ReadOnIs DEF W
    <2>10. ASSUME NEW j \in Nat, j + 1 <= Len(piece)
           PROVE  U[before(n) + j + 1] = ReadOn(U[before(n) + j], piece[j + 1])
      <3>1. before(n) + j \in Nat /\ (before(n) + j) + 1 <= Len(lines)
        BY <2>4, <2>5, <2>6, <2>10, SMTT(30)
      <3>2. j + 1 \in 1 .. Len(piece) /\ (before(n) + j) + 1 = before(n) + (j + 1)
        BY <2>4, <2>6, <2>10
      <3>3. U[(before(n) + j) + 1] = ReadOn(U[before(n) + j], lines[(before(n) + j) + 1])
        BY <1>4, <3>1
      <3>4. lines[before(n) + (j + 1)] = piece[j + 1]
        BY <2>5, <3>2
      <3>5. QED
        BY <3>2, <3>3, <3>4
    <2> DEFINE R == {j \in Nat : j + 1 <= Len(piece) =>
                        U[before(n) + j + 1] = Append(upTo(n), Header(h.name, part[j + 1]))}
    <2>11. 0 \in R
      <3>1. U[before(n) + 0 + 1] = ReadOn(U[before(n) + 0], piece[0 + 1])
        BY <2>6, <2>10
      <3>2. U[before(n) + 0] = upTo(n)
        BY <2>3, <2>4
      <3>3. ReadOn(upTo(n), piece[1]) = Append(upTo(n), piece[1])
        BY <2>6, <2>8, <2>9
      <3>4. QED
        BY <2>7, <3>1, <3>2, <3>3
    <2>12. ASSUME NEW j \in Nat, j \in R PROVE j + 1 \in R
      <3> SUFFICES ASSUME (j + 1) + 1 <= Len(piece)
                   PROVE  U[before(n) + (j + 1) + 1]
                             = Append(upTo(n), Header(h.name, part[(j + 1) + 1]))
        OBVIOUS
      <3> DEFINE k == j + 1
      <3>1. k \in Nat /\ 1 <= k /\ k + 1 <= Len(piece) /\ k \in 1 .. Len(piece)
            /\ k + 1 \in 1 .. Len(piece) /\ before(n) + j + 1 = before(n) + k
        BY <2>4, <2>6
      <3>2. U[before(n) + k] = Append(upTo(n), Header(h.name, part[k]))
        BY <2>12, <3>1
      <3> HIDE DEF k
      <3>3. part[k] \in Seq(P) /\ part[k + 1] = part[k] \o piece[k + 1].value
        BY <2>7, <3>1
      <3>4. piece[k + 1] = Header(None, piece[k + 1].value) /\ piece[k + 1].value \in Seq(P)
        BY <2>2, <2>6, <3>1
      <3>5. ReadOn(U[before(n) + k], piece[k + 1])
               = Append(upTo(n), Header(h.name, part[k + 1]))
        BY <2>8, <2>9, <3>2, <3>3, <3>4, ZenonT(30)
      <3>6. U[before(n) + k + 1] = ReadOn(U[before(n) + k], piece[k + 1])
        BY <2>10, <3>1
      <3>7. QED
        BY <3>5, <3>6 DEF k
    <2>13. Nat \subseteq R
      <3> HIDE DEF R
      <3>1. QED
        BY <2>11, <2>12, Induction
    <2>14. Len(piece) - 1 \in Nat /\ (Len(piece) - 1) + 1 = Len(piece)
           /\ before(n) + (Len(piece) - 1) + 1 = before(n) + Len(piece)
      BY <2>4, <2>6
    <2>15. U[before(n) + Len(piece)] = Append(upTo(n), Header(h.name, part[Len(piece)]))
      <3>1. Len(piece) - 1 \in R
        <4> HIDE DEF R
        <4>1. QED
          BY <2>13, <2>14
      <3>2. QED
        BY <2>6, <2>14, <3>1
    <2>16. QED
      BY <2>1, <2>5, <2>7, <2>8, <2>15
  <1>7. Len(hs) \in T
    <2> HIDE DEF T
    <2>1. QED
      BY <1>1, <1>5, <1>6, Induction
  <1>8. upTo(Len(hs)) = hs
    OBVIOUS
  <1> HIDE DEF upTo
  <1>9. U[Len(lines)] = hs
    BY <1>1, <1>2, <1>7, <1>8
  <1>10. QED
    BY <1>9 DEF Unfold, U, lines

\* The first of one place is that place.
LEMMA MinOfOne == \A i \in Nat : Min({i}) = i
  BY DEF Min

\* What is looked up in a value of one or two pieces.
LEMMA PiecesRead ==
  /\ \A x : AtomOf(<<Atom(x)>>) = x /\ Having(<<Atom(x)>>, "atom") # {}
  /\ \A u : URIInAngle(<<URI(u)>>) = u /\ Param(<<URI(u)>>, "tag") = None
  /\ \A u, t : /\ URIInAngle(<<URI(u), Parameter("tag", t)>>) = u
               /\ Param(<<URI(u), Parameter("tag", t)>>, "tag") = t
  /\ URIInAngle(<<>>) = None /\ AtomOf(<<>>) = None
  <1>1. ASSUME NEW x PROVE AtomOf(<<Atom(x)>>) = x /\ Having(<<Atom(x)>>, "atom") # {}
    <2>1. Having(<<Atom(x)>>, "atom") = {1} /\ <<Atom(x)>>[1].atom = x
      BY DEF Having, Atom
    <2>2. QED
      BY <2>1, MinOfOne DEF AtomOf
  <1>2. ASSUME NEW u PROVE URIInAngle(<<URI(u)>>) = u /\ Param(<<URI(u)>>, "tag") = None
    <2>1. Having(<<URI(u)>>, "uri") = {1} /\ <<URI(u)>>[1].uri = u
          /\ Having(<<URI(u)>>, "param") = {}
      BY DEF Having, URI
    <2>2. QED
      BY <2>1, MinOfOne DEF URIInAngle, Param
  <1>3. ASSUME NEW u, NEW t
        PROVE  /\ URIInAngle(<<URI(u), Parameter("tag", t)>>) = u
               /\ Param(<<URI(u), Parameter("tag", t)>>, "tag") = t
    <2> DEFINE v == <<URI(u), Parameter("tag", t)>>
    <2>1. DOMAIN v = {1, 2} /\ v[1] = URI(u) /\ v[2] = Parameter("tag", t)
      OBVIOUS
    <2> HIDE DEF v
    <2>2. Having(v, "uri") = {1} /\ v[1].uri = u /\ Having(v, "param") = {2}
      BY <2>1 DEF Having, URI, Parameter
    <2>3. v[2].param = "tag" /\ v[2].is = t
      BY <2>1 DEF Parameter
    <2>4. {i \in Having(v, "param") : v[i].param = "tag"} = {2}
      BY <2>2, <2>3
    <2>5. QED
      BY <2>2, <2>3, <2>4, MinOfOne DEF URIInAngle, Param, v
  <1>4. URIInAngle(<<>>) = None /\ AtomOf(<<>>) = None
    BY DEF URIInAngle, AtomOf, Having
  <1>5. QED
    BY <1>1, <1>2, <1>3, <1>4

\* However the far end writes a header, its lines are the header.
LEMMA LinesAre ==
  ASSUME NEW P, NEW c, NEW h \in HeadersOf(FullNames, P), h.value # <<>>
  PROVE  LET x == Header(NameIn(h.name, c), h.value)
             lines == LinesOf(h, c)
         IN  /\ x \in HeadersOf(Words, P) /\ Spell(lines, x, P)
             /\ lines \in Seq(HeadersOf(Words \union {None}, P))
  <1> DEFINE x == Header(NameIn(h.name, c), h.value)
             v == h.value
             lines == LinesOf(h, c)
             W == HeadersOf(Words \union {None}, P)
  <1>1. h.name \in FullNames /\ v \in Seq(P)
    BY DEF HeadersOf
  <1>2. NameIn(h.name, c) \in Words
    BY <1>1, NameInIs
  <1>3. x \in HeadersOf(Words, P) /\ x \in W /\ x.name = NameIn(h.name, c) /\ x.value = v
        /\ x = Header(x.name, v)
    BY <1>1, <1>2 DEF HeadersOf, Header
  <1>4. \A n \in Words \union {None}, w \in Seq(P) : Header(n, w) \in W
    BY DEF HeadersOf, Header
  <1>5. Len(v) \in Nat /\ Len(v) > 0
    BY <1>1
  <1> HIDE DEF x, v, W, lines
  <1>6. CASE ~c.folded
    <2>1. lines = <<x>>
      BY <1>6 DEF LinesOf, lines, x, v
    <2>2. lines \in Seq(W) /\ Len(lines) = 1 /\ lines[1] = x
      BY <1>3, <2>1
    <2> DEFINE part == [j \in 1 .. 1 |-> v]
    <2>3. part \in [1 .. Len(lines) -> Seq(P)] /\ part[1] = v /\ part[Len(lines)] = v
      BY <1>1, <2>2
    <2> HIDE DEF part
    <2>4. \A j \in Nat : ~(1 <= j /\ j + 1 <= Len(lines))
      BY <2>2
    <2>5. Spell(lines, x, P)
      <3>1. lines[1] = Header(x.name, part[1]) /\ part[Len(lines)] = x.value
            /\ lines[1].name = x.name /\ Len(lines) > 0
        BY <1>3, <2>2, <2>3
      <3>2. QED
        BY <2>3, <2>4, <3>1 DEF Spell
    <2>6. QED
      BY <1>3, <2>2, <2>5 DEF x, v, W, lines
  <1>7. CASE c.folded
    <2> DEFINE f == [i \in 1 .. Len(v) |-> Header(IF i = 1 THEN x.name ELSE None, <<v[i]>>)]
    <2>1. lines = f
      BY <1>1, <1>3, <1>7 DEF LinesOf, lines, v
    <2>2. f \in [1 .. Len(v) -> W]
      <3>1. \A i \in 1 .. Len(v) : <<v[i]>> \in Seq(P)
        BY <1>1
      <3>2. x.name \in Words
        BY <1>2, <1>3
      <3>3. QED
        BY <1>4, <3>1, <3>2
    <2>3. \A i \in 1 .. Len(v) : f[i] = Header(IF i = 1 THEN x.name ELSE None, <<v[i]>>)
      OBVIOUS
    <2> HIDE DEF f
    <2>4. lines \in Seq(W) /\ Len(lines) = Len(v)
      BY <1>5, <2>1, <2>2, FunctionIsSeq
    <2> DEFINE part == [j \in 1 .. Len(v) |-> SubSeq(v, 1, j)]
    <2>5. part \in [1 .. Len(lines) -> Seq(P)]
      BY <1>1, <1>5, <2>4
    <2>6. part[1] = <<v[1]>> /\ part[Len(lines)] = v
      <3>1. \A w \in Seq(P) : Len(w) > 0 => SubSeq(w, 1, 1) = <<w[1]>>
        <4> SUFFICES ASSUME NEW w \in Seq(P), Len(w) > 0 PROVE SubSeq(w, 1, 1) = <<w[1]>>
          OBVIOUS
        <4>1. <<w[1]>> \in Seq(P) /\ Len(<<w[1]>>) = 1 /\ <<w[1]>>[1] = w[1]
          OBVIOUS
        <4>2. SubSeq(w, 1, 1) \in Seq(P) /\ Len(SubSeq(w, 1, 1)) = 1
              /\ \A i \in 1 .. 1 : SubSeq(w, 1, 1)[i] = w[i]
          OBVIOUS
        <4> DEFINE a == SubSeq(w, 1, 1)
                   b == <<w[1]>>
        <4> HIDE DEF a, b
        <4>3. a \in Seq(P) /\ b \in Seq(P) /\ Len(a) = Len(b) /\ \A i \in 1 .. Len(a) : a[i] = b[i]
          BY <4>1, <4>2 DEF a, b
        <4>4. a = b
          BY <4>3, SameSeq
        <4>5. QED
          BY <4>4 DEF a, b
      <3>2. SubSeq(v, 1, 1) = <<v[1]>>
        BY <1>1, <1>5, <3>1
      <3>3. SubSeq(v, 1, Len(v)) = v
        BY <1>1
      <3>4. QED
        BY <1>5, <2>4, <3>2, <3>3
    <2>7. \A j \in Nat : 1 <= j /\ j + 1 <= Len(v) => part[j + 1] = part[j] \o <<v[j + 1]>>
      BY <1>1, <1>5
    <2> HIDE DEF part
    <2>8. lines[1] = Header(x.name, part[1])
      BY <1>5, <2>1, <2>3, <2>6
    <2>9. ASSUME NEW j \in Nat, 1 <= j, j + 1 <= Len(v)
          PROVE  lines[j + 1] = Header(None, <<v[j + 1]>>) /\ lines[j + 1].value = <<v[j + 1]>>
      <3>1. j + 1 \in 1 .. Len(v) /\ j + 1 # 1
        BY <1>5, <2>9
      <3>2. lines[j + 1] = Header(None, <<v[j + 1]>>)
        BY <2>1, <2>3, <3>1
      <3>3. QED
        BY <3>2 DEF Header
    <2>10. lines[1].name = x.name
      BY <2>8 DEF Header
    <2>11. \A j \in Nat : 1 <= j /\ j + 1 <= Len(lines) =>
              /\ lines[j + 1] = Header(None, lines[j + 1].value)
              /\ part[j + 1] = part[j] \o lines[j + 1].value
      BY <2>4, <2>7, <2>9
    <2>12. Spell(lines, x, P)
      BY <1>3, <1>5, <2>4, <2>5, <2>6, <2>8, <2>10, <2>11 DEF Spell
    <2>13. QED
      BY <1>3, <2>4, <2>12 DEF x, v, W, lines
  <1>8. QED
    BY <1>6, <1>7

\* Headers as they are given to a message that is sent, Content-Length not
\* yet among them.
Sent(P) == {h \in HeadersOf(FullNames \ {"content-length"}, P) : h.value # <<>>}

\* A message of such headers, and how it is written.
IsSent(m, c, P, S) ==
    /\ m.headers \in Seq(Sent(P)) /\ Atom(Len(m.body)) \in P
    /\ m.body \in Seq(S) /\ c.spare \in Seq(S)
    /\ m.start # Bad

\* However a message is written, and whatever stands behind its body, it is
\* read with the values and the body that it was given: Content-Length, put
\* last, cuts the body where it ends.
LEMMA MessageRead ==
  ASSUME NEW m, NEW c, NEW P, NEW S, IsSent(m, c, P, S)
  PROVE  LET r == ParseMessage(Written(m, c))
         IN  /\ r.start = m.start /\ r.body = m.body
             /\ \A name \in FullNames \ {"content-length"} :
                   Values(r.headers, name) = Values(m.headers, name)
  <1> DEFINE CL == "content-length"
             H == HeadersOf(FullNames, P)
             V == Seq(P)
             L == HeadersOf(Words \union {None}, P)
             ms == m.headers
             x == Header(CL, <<Atom(Len(m.body))>>)
             hs == Append(ms, x)
             N == Len(hs)
             seen(h) == Header(NameIn(h.name, c), h.value)
             rs == [i \in 1 .. N |-> seen(hs[i])]
             ss == [i \in 1 .. N |-> LinesOf(hs[i], c)]
  <1>1. ms \in Seq(Sent(P)) /\ ms \in Seq(H)
    <2>1. Sent(P) \subseteq H
      BY DEF Sent, HeadersOf
    <2>2. QED
      BY <2>1 DEF IsSent
  <1>2. x \in H /\ x.value # <<>> /\ x.name = CL /\ x.value = <<Atom(Len(m.body))>>
    BY DEF IsSent, HeadersOf, Header, FullNames
  <1>3. hs \in Seq(H) /\ N = Len(ms) + 1 /\ N \in Nat /\ Len(ms) \in Nat
        /\ DOMAIN hs = 1 .. N /\ hs[N] = x /\ \A i \in 1 .. Len(ms) : hs[i] = ms[i]
    <2> HIDE DEF ms, x, H
    <2>1. QED
      BY <1>1, <1>2
  <1>4. \A i \in 1 .. Len(ms) : ms[i] \in Sent(P) /\ ms[i].name \in FullNames /\ ms[i].name # CL
                                /\ ms[i].value # <<>>
    BY <1>1 DEF Sent, HeadersOf
  <1>5. Carry(H, V) /\ Carry(L, V)
    BY DEF Carry, HeadersOf
  <1> HIDE DEF hs, x, ms, N, H, L, V
  <1>6. \A i \in 1 .. N : hs[i] \in H /\ hs[i].value # <<>> /\ hs[i].name \in FullNames
    <2> SUFFICES ASSUME NEW i \in 1 .. N
                 PROVE  hs[i] \in H /\ hs[i].value # <<>> /\ hs[i].name \in FullNames
      OBVIOUS
    <2>1. hs[i] \in H
      BY <1>3
    <2>2. CASE i = N
      BY <1>2, <1>3, <2>1, <2>2 DEF FullNames
    <2>3. CASE i # N
      <3>1. i \in 1 .. Len(ms)
        BY <1>3, <2>3
      <3>2. QED
        BY <1>3, <1>4, <2>1, <3>1
    <2>4. QED
      BY <2>2, <2>3
  <1>7. Written(m, c).start = m.start /\ Written(m, c).body = m.body \o c.spare
        /\ Written(m, c).lines = FlattenSeq(ss)
    <2>1. \A i \in 1 .. Len(ms) : ~Named(ms[i], CL)
      <3>1. CL \in FullNames
        BY DEF FullNames
      <3>2. QED
        BY <1>4, <3>1, CanonIs DEF Named
    <2>2. Put(ms, CL, <<Atom(Len(m.body))>>) = hs
      BY <1>1, <1>2, <2>1, PutIs DEF hs, x
    <2>3. MarshalMessage(m) = [start |-> m.start, lines |-> hs, body |-> m.body]
      BY <2>2 DEF MarshalMessage, ms
    <2> DEFINE w == MarshalMessage(m)
    <2>4. w.start = m.start /\ w.lines = hs /\ w.body = m.body
      BY <2>3
    <2> DEFINE body == w.body \o c.spare
               all == FlattenSeq([i \in DOMAIN w.lines |-> LinesOf(w.lines[i], c)])
               wire == Written(m, c)
    <2>5. wire = [start |-> w.start, body |-> body, lines |-> all]
      BY DEF Written
    <2> HIDE DEF wire
    <2>6. [i \in DOMAIN w.lines |-> LinesOf(w.lines[i], c)] = ss
      <3> HIDE DEF w
      <3>1. QED
        BY <1>3, <2>4
    <2>7. body = m.body \o c.spare /\ all = FlattenSeq(ss)
      <3> HIDE DEF ss, w
      <3>1. QED
        BY <2>4, <2>6
    <2> HIDE DEF w, body, all, ss
    <2>8. wire.start = m.start /\ wire.body = body /\ wire.lines = all
      BY <2>4, <2>5
    <2>9. QED
      BY <2>7, <2>8 DEF wire
  <1>8. \A i \in 1 .. N : /\ seen(hs[i]) \in HeadersOf(Words, P)
                          /\ LinesOf(hs[i], c) \in Seq(L)
                          /\ Spell(LinesOf(hs[i], c), seen(hs[i]), P)
    BY <1>6, LinesAre DEF H, L
  <1>9. /\ rs \in Seq(HeadersOf(Words, P)) /\ Len(rs) = N /\ DOMAIN rs = 1 .. N
        /\ ss \in Seq(Seq(L)) /\ Len(ss) = N
    <2>1. rs \in [1 .. N -> HeadersOf(Words, P)] /\ ss \in [1 .. N -> Seq(L)]
      BY <1>8
    <2> HIDE DEF rs, ss
    <2>2. QED
      BY <1>3, <2>1, FunctionIsSeq
  <1>10. \A i \in 1 .. N : /\ rs[i].value = hs[i].value /\ Canon(rs[i].name) = hs[i].name
                           /\ rs[i].name # Bad /\ Spell(ss[i], rs[i], P)
    <2> SUFFICES ASSUME NEW i \in 1 .. N
                 PROVE  /\ rs[i].value = hs[i].value /\ Canon(rs[i].name) = hs[i].name
                        /\ rs[i].name # Bad /\ Spell(ss[i], rs[i], P)
      OBVIOUS
    <2>1. rs[i] = seen(hs[i]) /\ ss[i] = LinesOf(hs[i], c)
      OBVIOUS
    <2>2. NameIn(hs[i].name, c) \in Words /\ Canon(NameIn(hs[i].name, c)) = hs[i].name
      BY <1>6, NameInIs
    <2>3. Bad \notin Words
      BY CallsAssumption
    <2>4. seen(hs[i]).name = NameIn(hs[i].name, c) /\ seen(hs[i]).value = hs[i].value
      BY DEF Header
    <2> HIDE DEF rs, ss, seen
    <2>5. QED
      BY <1>8, <2>1, <2>2, <2>3, <2>4
  <1> HIDE DEF rs, ss
  <1>11. Unfold(FlattenSeq(ss)) = rs
    <2>1. None \notin Words /\ \A l \in L : l.value \in Seq(P)
      BY CallsAssumption DEF HeadersOf, L
    <2>2. QED
      BY <1>9, <1>10, <2>1, LinesRead
  <1>12. \A name : Values(rs, name) = Values(hs, name)
    <2> SUFFICES ASSUME NEW name PROVE Values(rs, name) = Values(hs, name)
      OBVIOUS
    <2>1. \A i \in 1 .. N : Named(rs[i], name) <=> Named(hs[i], name)
      BY <1>6, <1>10, CanonIs DEF Named
    <2>2. QED
      BY <1>3, <1>9, <1>10, <2>1 DEF Values
  <1>13. \A name \in FullNames \ {CL} : Values(hs, name) = Values(ms, name)
    <2> SUFFICES ASSUME NEW name \in FullNames \ {CL} PROVE Values(hs, name) = Values(ms, name)
      OBVIOUS
    <2>1. Values(hs, name) = Values(ms, name) \o One(x, name) /\ Values(ms, name) \in Seq(V)
      BY <1>1, <1>2, <1>5, ValuesGrow DEF hs
    <2>2. One(x, name) = <<>>
      <3>1. CL \in FullNames
        BY DEF FullNames
      <3>2. QED
        BY <1>2, <3>1, CanonIs DEF One, Named
    <2>3. QED
      BY <2>1, <2>2
  <1>14. Values(hs, CL) = <<<<Atom(Len(m.body))>>>>
    <2>1. \A j \in 1 .. N : Named(hs[j], CL) <=> j = N
      <3>1. CL \in FullNames
        BY DEF FullNames
      <3>2. QED
        BY <1>2, <1>3, <1>4, <3>1, CanonIs DEF Named
    <2>2. N \in 1 .. Len(hs)
      BY <1>3 DEF N
    <2>3. Values(hs, CL) = <<hs[N].value>>
      BY <1>3, <1>5, <2>1, <2>2, OnlyNamed DEF N
    <2>4. QED
      BY <1>2, <1>3, <2>3
  <1>15. AtomOf(Get(rs, CL)) = Len(m.body)
    BY <1>12, <1>14, PiecesRead DEF Get
  <1>16. ParseMessage(Written(m, c)) = [start |-> m.start, headers |-> rs, body |-> m.body]
    <2>1. m.body \in Seq(S) /\ c.spare \in Seq(S) /\ m.start # Bad
      BY DEF IsSent
    <2>2. Len(m.body) \in 0 .. Len(m.body \o c.spare)
          /\ SubSeq(m.body \o c.spare, 1, Len(m.body)) = m.body
      <3>1. ASSUME NEW a \in Seq(S), NEW b \in Seq(S)
            PROVE  Len(a) \in 0 .. Len(a \o b) /\ SubSeq(a \o b, 1, Len(a)) = a
        <4>1. Len(a \o b) = Len(a) + Len(b) /\ \A i \in 1 .. Len(a) : (a \o b)[i] = a[i]
          OBVIOUS
        <4>2. a \o b \in Seq(S)
          OBVIOUS
        <4> DEFINE t == a \o b
        <4> HIDE DEF t
        <4>3. t \in Seq(S) /\ Len(t) = Len(a) + Len(b) /\ \A i \in 1 .. Len(a) : t[i] = a[i]
          BY <4>1, <4>2 DEF t
        <4>4. SubSeq(t, 1, Len(a)) \in Seq(S) /\ Len(SubSeq(t, 1, Len(a))) = Len(a)
              /\ \A i \in 1 .. Len(a) : SubSeq(t, 1, Len(a))[i] = t[i]
          BY <4>3
        <4>5. SubSeq(t, 1, Len(a)) = a
          BY <4>3, <4>4, SameSeq
        <4>6. QED
          BY <4>3, <4>5 DEF t
      <3>2. QED
        BY <2>1, <3>1
    <2>3. QED
      BY <1>7, <1>9, <1>10, <1>11, <1>15, <2>1, <2>2 DEF ParseMessage
  <1>17. QED
    BY <1>12, <1>13, <1>16 DEF ms

\* What a header made of a full name is called.
LEMMA NameIs ==
  /\ \A n, k \in FullNames : \A v : Named(Header(n, v), k) <=> n = k
  /\ \A n, v : Header(n, v).name = n /\ Header(n, v).value = v
  BY CanonIs DEF Named, Header

\* What is read in a list of headers of one name, of other names, of names
\* that differ, and in two lists.
LEMMA ListRead ==
  ASSUME NEW P, NEW hs \in Seq(HeadersOf(FullNames, P)), NEW name \in FullNames
  PROVE  /\ Values(hs, name) \in Seq(Seq(P))
         /\ (\A i \in 1 .. Len(hs) : hs[i].name # name) => Values(hs, name) = <<>>
         /\ (\A i \in 1 .. Len(hs) : hs[i].name = name) =>
               Values(hs, name) = [i \in DOMAIN hs |-> hs[i].value]
         /\ \A i \in 1 .. Len(hs) :
               (\A j \in 1 .. Len(hs) : hs[j].name = name <=> j = i) =>
                  Values(hs, name) = <<hs[i].value>>
         /\ \A ks \in Seq(HeadersOf(FullNames, P)) :
               Values(hs \o ks, name) = Values(hs, name) \o Values(ks, name)
  <1> DEFINE H == HeadersOf(FullNames, P)
             V == Seq(P)
  <1>1. Carry(H, V)
    BY DEF Carry, HeadersOf
  <1>2. \A i \in 1 .. Len(hs) : Named(hs[i], name) <=> hs[i].name = name
    <2> SUFFICES ASSUME NEW i \in 1 .. Len(hs) PROVE Named(hs[i], name) <=> hs[i].name = name
      OBVIOUS
    <2>1. hs[i].name \in FullNames
      <3>1. hs[i] \in H
        OBVIOUS
      <3>2. QED
        BY <3>1 DEF HeadersOf
    <2>2. QED
      BY <2>1, CanonIs DEF Named
  <1> HIDE DEF H, V
  <1>3. hs \in Seq(H)
    BY DEF H
  <1>4. Values(hs, name) \in Seq(V)
    BY <1>1, <1>3, ValuesGrow
  <1>5. ASSUME \A i \in 1 .. Len(hs) : hs[i].name # name PROVE Values(hs, name) = <<>>
    BY <1>1, <1>2, <1>3, <1>5, NoneNamed
  <1>6. ASSUME \A i \in 1 .. Len(hs) : hs[i].name = name
        PROVE  Values(hs, name) = [i \in DOMAIN hs |-> hs[i].value]
    BY <1>1, <1>2, <1>3, <1>6, AllNamed
  <1>7. ASSUME NEW i \in 1 .. Len(hs), \A j \in 1 .. Len(hs) : hs[j].name = name <=> j = i
        PROVE  Values(hs, name) = <<hs[i].value>>
    BY <1>1, <1>2, <1>3, <1>7, OnlyNamed
  <1>8. ASSUME NEW ks \in Seq(H)
        PROVE  Values(hs \o ks, name) = Values(hs, name) \o Values(ks, name)
    BY <1>1, <1>3, ValuesJoin
  <1>9. QED
    BY <1>4, <1>5, <1>6, <1>7, <1>8 DEF H, V

\* How ngntun writes.
Plain == [compact |-> FALSE, folded |-> FALSE, spare |-> <<>>]

\* What ngntun sends is written in the plainest way.
LEMMA PlainlyWritten ==
  ASSUME NEW m, NEW P, NEW S, IsSent(m, Plain, P, S)
  PROVE  MarshalMessage(m) = Written(m, Plain)
  <1> DEFINE CL == "content-length"
             H == HeadersOf(FullNames, P)
             ms == m.headers
             x == Header(CL, <<Atom(Len(m.body))>>)
             hs == Append(ms, x)
  <1>1. ms \in Seq(H)
    <2>1. Sent(P) \subseteq H
      BY DEF Sent, HeadersOf
    <2>2. QED
      BY <2>1 DEF IsSent
  <1>2. x \in H
    BY DEF IsSent, HeadersOf, Header, FullNames
  <1>3. \A i \in 1 .. Len(ms) : ~Named(ms[i], CL)
    <2>1. \A i \in 1 .. Len(ms) : ms[i].name \in FullNames /\ ms[i].name # CL
      BY DEF Sent, HeadersOf, IsSent
    <2>2. CL \in FullNames
      BY DEF FullNames
    <2>3. QED
      BY <2>1, <2>2, CanonIs DEF Named
  <1>4. MarshalMessage(m) = [start |-> m.start, lines |-> hs, body |-> m.body]
    <2>1. Put(ms, CL, <<Atom(Len(m.body))>>) = hs
      BY <1>1, <1>2, <1>3, PutIs
    <2>2. QED
      BY <2>1 DEF MarshalMessage
  <1>5. hs \in Seq(H)
    <2> HIDE DEF H, ms, x
    <2>1. QED
      BY <1>1, <1>2
  <1> DEFINE w == MarshalMessage(m)
             ls == [i \in DOMAIN hs |-> LinesOf(hs[i], Plain)]
  <1>6. \A h \in H : LinesOf(h, Plain) = <<h>>
    BY DEF LinesOf, Plain, NameIn, Header, HeadersOf, H
  <1> HIDE DEF H, hs
  <1>7. FlattenSeq(ls) = hs
    <2>1. ls = [i \in DOMAIN hs |-> <<hs[i]>>]
      BY <1>5, <1>6
    <2>2. FlattenSeq([i \in DOMAIN hs |-> <<hs[i]>>]) = hs
      BY <1>5, Singles
    <2>3. QED
      BY <2>1, <2>2
  <1>8. w.start = m.start /\ w.lines = hs /\ w.body = m.body
    BY <1>4
  <1>9. m.body \o Plain.spare = m.body
    BY DEF IsSent, Plain
  <1>10. Written(m, Plain) = [start |-> w.start, body |-> w.body \o Plain.spare,
                              lines |-> FlattenSeq([i \in DOMAIN w.lines |-> LinesOf(w.lines[i], Plain)])]
    BY DEF Written
  <1>11. FlattenSeq([i \in DOMAIN w.lines |-> LinesOf(w.lines[i], Plain)]) = hs
    <2> HIDE DEF w
    <2>1. QED
      BY <1>7, <1>8
  <1> HIDE DEF w
  <1>12. Written(m, Plain) = [start |-> m.start, body |-> m.body, lines |-> hs]
    BY <1>8, <1>9, <1>10, <1>11
  <1>13. QED
    BY <1>4, <1>12

\* What is sent is read as it was sent.
LEMMA SentIsRead ==
  ASSUME NEW m, NEW P, NEW S, IsSent(m, Plain, P, S)
  PROVE  LET r == ParseMessage(MarshalMessage(m))
         IN  /\ r.start = m.start /\ r.body = m.body
             /\ \A name \in FullNames \ {"content-length"} :
                   Values(r.headers, name) = Values(m.headers, name)
  <1>1. MarshalMessage(m) = Written(m, Plain)
    BY PlainlyWritten
  <1>2. QED
    BY <1>1, MessageRead

\* What is read in a list of From, To, Call-ID and CSeq.
LEMMA FourRead ==
  ASSUME NEW P, NEW a \in HeadersOf(FullNames, P), NEW b \in HeadersOf(FullNames, P),
         NEW x \in HeadersOf(FullNames, P), NEW y \in HeadersOf(FullNames, P),
         NEW name \in FullNames,
         a.name = "from", b.name = "to", x.name = "call-id", y.name = "cseq"
  PROVE  LET hs == <<a, b, x, y>>
         IN  /\ hs \in Seq(HeadersOf(FullNames, P))
             /\ name \notin {"from", "to", "call-id", "cseq"} => Values(hs, name) = <<>>
             /\ name = "from" => Values(hs, name) = <<a.value>>
             /\ name = "to" => Values(hs, name) = <<b.value>>
             /\ name = "call-id" => Values(hs, name) = <<x.value>>
             /\ name = "cseq" => Values(hs, name) = <<y.value>>
  <1> DEFINE H == HeadersOf(FullNames, P)
             hs == <<a, b, x, y>>
  <1> HIDE DEF H
  <1>1. hs \in Seq(H) /\ Len(hs) = 4 /\ hs[1] = a /\ hs[2] = b /\ hs[3] = x /\ hs[4] = y
    BY DEF H
  <1> HIDE DEF hs
  <1>2. \A j \in 1 .. Len(hs) : j \in {1, 2, 3, 4}
    BY <1>1
  <1>3. hs[1].name = "from" /\ hs[2].name = "to" /\ hs[3].name = "call-id" /\ hs[4].name = "cseq"
    BY <1>1
  <1>4. /\ (\A i \in 1 .. Len(hs) : hs[i].name # name) => Values(hs, name) = <<>>
        /\ \A i \in 1 .. Len(hs) :
               (\A j \in 1 .. Len(hs) : hs[j].name = name <=> j = i) =>
                  Values(hs, name) = <<hs[i].value>>
    BY <1>1, ListRead DEF H
  <1>5. ASSUME name \notin {"from", "to", "call-id", "cseq"} PROVE Values(hs, name) = <<>>
    BY <1>2, <1>3, <1>4, <1>5
  <1>6. 1 \in 1 .. Len(hs) /\ 2 \in 1 .. Len(hs) /\ 3 \in 1 .. Len(hs) /\ 4 \in 1 .. Len(hs)
    BY <1>1
  <1>7. ASSUME name = "from" PROVE Values(hs, name) = <<a.value>>
    <2>1. \A j \in 1 .. Len(hs) : hs[j].name = name <=> j = 1
      BY <1>2, <1>3, <1>7
    <2>2. QED
      BY <1>1, <1>4, <1>6, <2>1
  <1>8. ASSUME name = "to" PROVE Values(hs, name) = <<b.value>>
    <2>1. \A j \in 1 .. Len(hs) : hs[j].name = name <=> j = 2
      BY <1>2, <1>3, <1>8
    <2>2. QED
      BY <1>1, <1>4, <1>6, <2>1
  <1>9. ASSUME name = "call-id" PROVE Values(hs, name) = <<x.value>>
    <2>1. \A j \in 1 .. Len(hs) : hs[j].name = name <=> j = 3
      BY <1>2, <1>3, <1>9
    <2>2. QED
      BY <1>1, <1>4, <1>6, <2>1
  <1>10. ASSUME name = "cseq" PROVE Values(hs, name) = <<y.value>>
    <2>1. \A j \in 1 .. Len(hs) : hs[j].name = name <=> j = 4
      BY <1>2, <1>3, <1>10
    <2>2. QED
      BY <1>1, <1>4, <1>6, <2>1
  <1>11. QED
    BY <1>1, <1>5, <1>7, <1>8, <1>9, <1>10 DEF hs, H

\* A header by itself.
LEMMA OneRead ==
  ASSUME NEW P, NEW h \in HeadersOf(FullNames, P), NEW name \in FullNames
  PROVE  /\ <<h>> \in Seq(HeadersOf(FullNames, P))
         /\ Values(<<h>>, name) = IF h.name = name THEN <<h.value>> ELSE <<>>
  <1> DEFINE H == HeadersOf(FullNames, P)
             hs == <<h>>
  <1> HIDE DEF H
  <1>1. hs \in Seq(H) /\ Len(hs) = 1 /\ hs[1] = h /\ 1 \in 1 .. Len(hs)
    BY DEF H
  <1> HIDE DEF hs
  <1>2. \A j \in 1 .. Len(hs) : j = 1
    BY <1>1
  <1>3. /\ (\A i \in 1 .. Len(hs) : hs[i].name # name) => Values(hs, name) = <<>>
        /\ \A i \in 1 .. Len(hs) :
               (\A j \in 1 .. Len(hs) : hs[j].name = name <=> j = i) =>
                  Values(hs, name) = <<hs[i].value>>
    BY <1>1, ListRead DEF H
  <1>4. CASE h.name = name
    BY <1>1, <1>2, <1>3, <1>4 DEF hs, H
  <1>5. CASE h.name # name
    BY <1>1, <1>2, <1>3, <1>5 DEF hs, H
  <1>6. QED
    BY <1>4, <1>5

\* Headers of one name, by the values of a sequence.
ListOf(name, s) == [i \in DOMAIN s |-> Header(name, s[i])]

\* Such a list has the values of the sequence under its name, and no others.
LEMMA ListOfRead ==
  ASSUME NEW P, NEW s \in Seq(Seq(P)), NEW n \in FullNames, NEW name \in FullNames
  PROVE  /\ ListOf(n, s) \in Seq(HeadersOf(FullNames, P))
         /\ Values(ListOf(n, s), name) = IF n = name THEN s ELSE <<>>
  <1> DEFINE H == HeadersOf(FullNames, P)
             hs == ListOf(n, s)
  <1>1. \A i \in 1 .. Len(s) : Header(n, s[i]) \in H
    BY DEF Header, HeadersOf
  <1> HIDE DEF H
  <1>2. hs \in [1 .. Len(s) -> H] /\ Len(s) \in Nat
    BY <1>1 DEF ListOf
  <1>3. \A i \in 1 .. Len(s) : hs[i].name = n /\ hs[i].value = s[i]
    BY DEF ListOf, Header
  <1> HIDE DEF hs
  <1>4. hs \in Seq(H) /\ Len(hs) = Len(s) /\ DOMAIN hs = 1 .. Len(s)
    BY <1>2, FunctionIsSeq
  <1>5. /\ (\A i \in 1 .. Len(hs) : hs[i].name # name) => Values(hs, name) = <<>>
        /\ (\A i \in 1 .. Len(hs) : hs[i].name = name) =>
               Values(hs, name) = [i \in DOMAIN hs |-> hs[i].value]
    BY <1>4, ListRead DEF H
  <1>6. [i \in DOMAIN hs |-> hs[i].value] = s
    BY <1>3, <1>4
  <1>7. CASE n = name
    BY <1>3, <1>4, <1>5, <1>6, <1>7 DEF hs, H
  <1>8. CASE n # name
    BY <1>3, <1>4, <1>5, <1>8 DEF hs, H
  <1>9. QED
    BY <1>7, <1>8

\* The values of the headers for the steps of a path.
Links(path) == [i \in DOMAIN path |-> <<URI(path[i])>>]

\* Headers with a value of some pieces are such as are sent.
LEMMA SentHeader ==
  ASSUME NEW P, NEW name \in FullNames \ {"content-length"}
  PROVE  /\ \A v \in Seq(P) : v # <<>> => Header(name, v) \in Sent(P)
         /\ \A x \in P : Header(name, <<x>>) \in Sent(P)
         /\ \A x, y \in P : Header(name, <<x, y>>) \in Sent(P)
  <1>1. ASSUME NEW v \in Seq(P), v # <<>> PROVE Header(name, v) \in Sent(P)
    BY <1>1 DEF Sent, HeadersOf, Header
  <1>2. ASSUME NEW x \in P PROVE Header(name, <<x>>) \in Sent(P)
    <2> DEFINE v == <<x>>
    <2>1. v \in Seq(P) /\ v # <<>>
      OBVIOUS
    <2> HIDE DEF v
    <2>2. Header(name, v) \in Sent(P)
      BY <1>1, <2>1
    <2>3. QED
      BY <2>2 DEF v
  <1>3. ASSUME NEW x \in P, NEW y \in P PROVE Header(name, <<x, y>>) \in Sent(P)
    <2> DEFINE v == <<x, y>>
    <2>1. v \in Seq(P) /\ v # <<>>
      OBVIOUS
    <2> HIDE DEF v
    <2>2. Header(name, v) \in Sent(P)
      BY <1>1, <2>1
    <2>3. QED
      BY <2>2 DEF v
  <1>4. QED
    BY <1>1, <1>2, <1>3

\* Each step of a path is the value of a header.
LEMMA LinksAre ==
  ASSUME NEW S, NEW path \in Seq(S), NEW P, \A u \in S : URI(u) \in P
  PROVE  /\ Links(path) \in Seq(Seq(P)) /\ Len(Links(path)) = Len(path)
         /\ \A i \in 1 .. Len(path) : Links(path)[i] = <<URI(path[i])>>
  <1>1. \A i \in 1 .. Len(path) : <<URI(path[i])>> \in Seq(P)
    OBVIOUS
  <1>2. Links(path) \in [1 .. Len(path) -> Seq(P)] /\ Len(path) \in Nat
    BY <1>1 DEF Links
  <1>3. Links(path) \in Seq(Seq(P)) /\ Len(Links(path)) = Len(path)
    BY <1>2, FunctionIsSeq
  <1>4. \A i \in 1 .. Len(path) : Links(path)[i] = <<URI(path[i])>>
    BY DEF Links
  <1>5. QED
    BY <1>3, <1>4

\* The same of a call's path.
LEMMA CallLinks ==
  ASSUME NEW c \in Calls, NEW P, \A u \in Range(c.path) : URI(u) \in P
  PROVE  /\ Links(c.path) \in Seq(Seq(P)) /\ Len(Links(c.path)) = Len(c.path)
         /\ \A i \in 1 .. Len(c.path) : Links(c.path)[i] = <<URI(c.path[i])>>
         /\ \A i \in 1 .. Len(Links(c.path)) : Links(c.path)[i] # <<>>
  <1> DEFINE S == Range(c.path)
             s == c.path
  <1>1. s \in Seq(S)
    BY CallsAssumption
  <1> HIDE DEF s, S
  <1>2. \A u \in S : URI(u) \in P
    BY DEF S
  <1>3. /\ Links(s) \in Seq(Seq(P)) /\ Len(Links(s)) = Len(s)
        /\ \A i \in 1 .. Len(s) : Links(s)[i] = <<URI(s[i])>>
    BY <1>1, <1>2, LinksAre
  <1>4. ASSUME NEW i \in 1 .. Len(Links(s)) PROVE Links(s)[i] # <<>>
    <2>1. Links(s)[i] = <<URI(s[i])>>
      BY <1>3
    <2>2. \A x : <<x>> # <<>>
      OBVIOUS
    <2>3. QED
      BY <2>1, <2>2
  <1>5. QED
    BY <1>3, <1>4 DEF s

\* The dialog as the far end knows it.
IsDialog(d, c) ==
    /\ d.callID = "call" /\ d.localTag = "ours" /\ d.remoteTag = c.tag
    /\ d.localURI = Self /\ d.remoteURI = Peer /\ d.remoteTarget = c.target
    /\ d.routeSet = Links(c.path)

\* The first step from ngntun to the far end.
FirstHop(c) == IF c.path = <<>> THEN c.target ELSE c.path[1]

\* The first step of the dialog's requests is the first of the path.
LEMMA NextHopIs ==
  ASSUME NEW c \in Calls, NEW d, IsDialog(d, c)
  PROVE  NextHop(d) = FirstHop(c)
  <1> DEFINE P == {URI(u) : u \in Range(c.path)}
  <1>1. \A u \in Range(c.path) : URI(u) \in P
    OBVIOUS
  <1> HIDE DEF P
  <1>2. Len(Links(c.path)) = Len(c.path) /\ Links(c.path) \in Seq(Seq(P))
        /\ \A i \in 1 .. Len(c.path) : Links(c.path)[i] = <<URI(c.path[i])>>
    BY <1>1, CallLinks
  <1>3. c.path \in Seq(Range(c.path))
    BY CallsAssumption
  <1>4. CASE c.path = <<>>
    <2>1. Links(c.path) = <<>>
      BY <1>2, <1>4
    <2>2. QED
      BY <1>4, <2>1 DEF IsDialog, NextHop, FirstHop
  <1>5. CASE c.path # <<>>
    <2>1. 1 \in 1 .. Len(c.path)
      BY <1>3, <1>5
    <2>2. Links(c.path) # <<>> /\ Links(c.path)[1] = <<URI(c.path[1])>>
      BY <1>2, <2>1
    <2>3. QED
      BY <1>5, <2>2, PiecesRead DEF IsDialog, NextHop, FirstHop
  <1>6. QED
    BY <1>4, <1>5

\* A request of the dialog is read as the far end's.
LEMMA RequestArrives ==
  ASSUME NEW c \in Calls, NEW d, IsDialog(d, c), NEW method \in {"ACK", "BYE"}, NEW n,
         HasAddress(FirstHop(c), 5060)
  PROVE  Arrives(NewRequest(d, method, n, Us), c, method, n)
  <1> DEFINE request == NewRequest(d, method, n, Us)
             m == request.message
             S == Range(c.path)
             us == FormatURI(None, Us)
             words == {Atom("call"), Atom(<<n, method>>), Atom(0), Parameter("tag", "ours"),
                       Parameter("tag", c.tag)}
             P == {URI(u) : u \in S \union {Self, Peer, us}} \union words
             H == HeadersOf(FullNames, P)
             via == Header("via", <<URI(us)>>)
             A == <<via>>
             R == ListOf("route", Links(c.path))
             from == Header("from", <<URI(Self), Parameter("tag", "ours")>>)
             to == Header("to", <<URI(Peer), Parameter("tag", c.tag)>>)
             id == Header("call-id", <<Atom("call")>>)
             number == Header("cseq", <<Atom(<<n, method>>)>>)
             B == <<from, to, id, number>>
             NL == FullNames \ {"content-length"}
  <1>1. NextHop(d) = FirstHop(c)
    BY NextHopIs
  <1>2. /\ request.to = AddrPortFromURI(FirstHop(c), 5060)
        /\ m.start = [method |-> method, uri |-> c.target]
        /\ m.headers = (A \o R) \o B /\ m.body = <<>>
    <2> DEFINE f == Header("from", <<URI(d.localURI), Parameter("tag", d.localTag)>>)
               t == Header("to", <<URI(d.remoteURI), Parameter("tag", d.remoteTag)>>)
               k == Header("call-id", <<Atom(d.callID)>>)
               hs == (A \o ListOf("route", d.routeSet)) \o <<f, t, k, number>>
               start == [method |-> method, uri |-> d.remoteTarget]
               msg == [start |-> start, headers |-> hs, body |-> <<>>]
               hop == AddrPortFromURI(NextHop(d), 5060)
    <2>1. request = [to |-> hop, message |-> msg]
      BY <1>1 DEF NewRequest, ListOf
    <2>2. f = from /\ t = to /\ k = id /\ d.routeSet = Links(c.path) /\ d.remoteTarget = c.target
      BY DEF IsDialog
    <2>3. hop = AddrPortFromURI(FirstHop(c), 5060)
      BY <1>1
    <2> HIDE DEF f, t, k, from, to, id, number, A
    <2>4. hs = (A \o R) \o B /\ start = [method |-> method, uri |-> c.target]
      BY <2>2
    <2> HIDE DEF hs, start, request, hop, R, B
    <2>5. request.to = hop /\ request.message = msg
      BY <2>1
    <2>6. m.start = start /\ m.headers = hs /\ m.body = <<>>
      BY <2>5
    <2>7. QED
      BY <2>3, <2>4, <2>5, <2>6
  <1>3. /\ URI(us) \in P /\ URI(Self) \in P /\ URI(Peer) \in P /\ words \subseteq P
        /\ \A u \in S : URI(u) \in P
    OBVIOUS
  <1>4. /\ via \in Sent(P) /\ from \in Sent(P) /\ to \in Sent(P) /\ id \in Sent(P)
        /\ number \in Sent(P)
        /\ \A v \in Seq(P) : v # <<>> => Header("route", v) \in Sent(P)
    <2> HIDE DEF P
    <2>1. Atom("call") \in P /\ Atom(<<n, method>>) \in P /\ Parameter("tag", "ours") \in P
          /\ Parameter("tag", c.tag) \in P
      BY <1>3
    <2> HIDE DEF us, words
    <2>2. {"via", "from", "to", "call-id", "cseq", "route"} \subseteq FullNames \ {"content-length"}
      BY DEF FullNames
    <2>3. QED
      BY <1>3, <2>1, <2>2, SentHeader
  <1>6. c.path \in Seq(S)
    BY CallsAssumption
  <1> HIDE DEF P, S, us, words
  <1>5. Sent(P) \subseteq H
    BY DEF Sent, HeadersOf
  <1>7. Links(c.path) \in Seq(Seq(P)) /\ \A i \in 1 .. Len(Links(c.path)) : Links(c.path)[i] # <<>>
    <2>1. \A u \in Range(c.path) : URI(u) \in P
      BY <1>3 DEF S
    <2>2. QED
      BY <2>1, CallLinks
  <1>8. R \in Seq(Sent(P))
    <2> DEFINE s == Links(c.path)
    <2> HIDE DEF s
    <2>1. s \in Seq(Seq(P)) /\ \A i \in 1 .. Len(s) : s[i] # <<>>
      BY <1>7 DEF s
    <2>2. R = ListOf("route", s)
      BY DEF s
    <2>3. \A i \in 1 .. Len(s) : Header("route", s[i]) \in Sent(P)
      BY <1>4, <2>1
    <2>4. R \in [1 .. Len(s) -> Sent(P)] /\ Len(s) \in Nat
      BY <2>1, <2>2, <2>3 DEF ListOf
    <2>5. QED
      BY <2>4, FunctionIsSeq
  <1> DEFINE s == Links(c.path)
  <1>9. \A name \in FullNames :
           /\ Values(A, name) = IF name = "via" THEN <<<<URI(us)>>>> ELSE <<>>
           /\ Values(R, name) = IF name = "route" THEN s ELSE <<>>
           /\ name \notin {"from", "to", "call-id", "cseq"} => Values(B, name) = <<>>
           /\ name = "from" => Values(B, name) = <<from.value>>
           /\ name = "to" => Values(B, name) = <<to.value>>
           /\ name = "call-id" => Values(B, name) = <<id.value>>
           /\ name = "cseq" => Values(B, name) = <<number.value>>
    <2> SUFFICES ASSUME NEW name \in FullNames
                 PROVE  /\ Values(A, name) = IF name = "via" THEN <<<<URI(us)>>>> ELSE <<>>
                        /\ Values(R, name) = IF name = "route" THEN s ELSE <<>>
                        /\ name \notin {"from", "to", "call-id", "cseq"} => Values(B, name) = <<>>
                        /\ name = "from" => Values(B, name) = <<from.value>>
                        /\ name = "to" => Values(B, name) = <<to.value>>
                        /\ name = "call-id" => Values(B, name) = <<id.value>>
                        /\ name = "cseq" => Values(B, name) = <<number.value>>
      OBVIOUS
    <2>1. via \in H /\ from \in H /\ to \in H /\ id \in H /\ number \in H
      BY <1>4, <1>5
    <2>2. via.name = "via" /\ via.value = <<URI(us)>> /\ from.name = "from" /\ to.name = "to"
          /\ id.name = "call-id" /\ number.name = "cseq"
      BY NameIs
    <2>3. "route" \in FullNames
      BY DEF FullNames
    <2> HIDE DEF via, from, to, id, number, H, s
    <2>4. Values(A, name) = IF name = "via" THEN <<<<URI(us)>>>> ELSE <<>>
      BY <2>1, <2>2, OneRead DEF H
    <2>5. Values(R, name) = IF name = "route" THEN s ELSE <<>>
      BY <1>7, <2>3, ListOfRead DEF s
    <2>6. /\ name \notin {"from", "to", "call-id", "cseq"} => Values(B, name) = <<>>
          /\ name = "from" => Values(B, name) = <<from.value>>
          /\ name = "to" => Values(B, name) = <<to.value>>
          /\ name = "call-id" => Values(B, name) = <<id.value>>
          /\ name = "cseq" => Values(B, name) = <<number.value>>
      BY <2>1, <2>2, FourRead DEF H
    <2>7. QED
      BY <2>4, <2>5, <2>6
  <1>10. A \in Seq(Sent(P)) /\ B \in Seq(Sent(P)) /\ m.headers \in Seq(Sent(P))
         /\ A \in Seq(H) /\ R \in Seq(H) /\ B \in Seq(H) /\ A \o R \in Seq(H)
    <2> HIDE DEF H, R, via, from, to, id, number, m
    <2>1. A \in Seq(Sent(P)) /\ B \in Seq(Sent(P))
      BY <1>4
    <2> HIDE DEF A, B
    <2>2. (A \o R) \o B \in Seq(Sent(P)) /\ A \o R \in Seq(Sent(P))
      BY <1>8, <2>1
    <2>3. QED
      BY <1>2, <1>5, <1>8, <2>1, <2>2
  <1> HIDE DEF A, R, B, s, from, to, id, number, H
  <1>11. ASSUME NEW name \in FullNames
         PROVE  Values((A \o R) \o B, name) = (Values(A, name) \o Values(R, name)) \o Values(B, name)
    <2>1. ASSUME NEW hs \in Seq(H), NEW ks \in Seq(H)
          PROVE  Values(hs \o ks, name) = Values(hs, name) \o Values(ks, name)
      BY ListRead DEF H
    <2> DEFINE AR == A \o R
    <2>2. Values(AR \o B, name) = Values(AR, name) \o Values(B, name)
      <3> HIDE DEF AR
      <3>1. AR \in Seq(H) /\ B \in Seq(H)
        BY <1>10 DEF AR
      <3>2. QED
        BY <2>1, <3>1
    <2>3. Values(A \o R, name) = Values(A, name) \o Values(R, name)
      BY <1>10, <2>1
    <2>4. QED
      BY <2>2, <2>3
  <1>12. IsSent(m, Plain, P, {})
    <2>1. m.start # Bad
      <3>1. Bad \notin [method : {"INVITE", "ACK", "BYE"}, uri : {Self, c.target}]
        BY CallsAssumption
      <3>2. m.start \in [method : {"INVITE", "ACK", "BYE"}, uri : {Self, c.target}]
        <4> HIDE DEF m
        <4>1. QED
          BY <1>2
      <3>3. QED
        BY <3>1, <3>2
    <2>2. Atom(Len(m.body)) \in P
      <3>1. Len(m.body) = 0
        BY <1>2
      <3>2. Atom(0) \in P
        BY <1>3 DEF words
      <3>3. QED
        BY <3>1, <3>2
    <2>3. m.body \in Seq({}) /\ Plain.spare \in Seq({})
      BY <1>2 DEF Plain
    <2>4. QED
      BY <1>10, <2>1, <2>2, <2>3 DEF IsSent
  <1> DEFINE got == ParseMessage(MarshalMessage(m))
  <1>13. got.start = m.start /\ \A name \in NL : Values(got.headers, name) = Values(m.headers, name)
    BY <1>12, SentIsRead
  <1> HIDE DEF got, m
  <1>14. \A name \in NL :
            Values(got.headers, name) = (Values(A, name) \o Values(R, name)) \o Values(B, name)
    BY <1>2, <1>11, <1>13
  <1>15. {"route", "from", "to", "call-id", "cseq"} \subseteq NL /\ NL \subseteq FullNames
    BY DEF FullNames
  <1> HIDE DEF NL
  <1>16. Values(got.headers, "route") = s
    <2>1. Values(A, "route") = <<>> /\ Values(R, "route") = s /\ Values(B, "route") = <<>>
      BY <1>9, <1>15
    <2>2. s \in Seq(Seq(P))
      BY <1>7 DEF s
    <2>3. (<<>> \o s) \o <<>> = s
      BY <2>2
    <2>4. Values(got.headers, "route")
             = (Values(A, "route") \o Values(R, "route")) \o Values(B, "route")
      BY <1>14, <1>15
    <2> DEFINE a == Values(A, "route")
               r == Values(R, "route")
               b == Values(B, "route")
    <2>5. (a \o r) \o b = s
      <3> HIDE DEF a, r, b
      <3>1. a = <<>> /\ r = s /\ b = <<>>
        BY <2>1 DEF a, r, b
      <3>2. QED
        BY <2>3, <3>1
    <2>6. QED
      BY <2>4, <2>5
  <1>17. \A v : (<<>> \o <<>>) \o <<v>> = <<v>>
    OBVIOUS
  <1>18. /\ Values(got.headers, "from") = <<from.value>> /\ Values(got.headers, "to") = <<to.value>>
         /\ Values(got.headers, "call-id") = <<id.value>>
         /\ Values(got.headers, "cseq") = <<number.value>>
    <2>1. \A name \in {"from", "to", "call-id", "cseq"} :
             Values(got.headers, name) = (<<>> \o <<>>) \o Values(B, name)
      BY <1>9, <1>14, <1>15, SMTT(30)
    <2>2. /\ Values(B, "from") = <<from.value>> /\ Values(B, "to") = <<to.value>>
          /\ Values(B, "call-id") = <<id.value>> /\ Values(B, "cseq") = <<number.value>>
      BY <1>9, <1>15
    <2>3. QED
      BY <1>17, <2>1, <2>2
  <1>19. /\ Get(got.headers, "from") = <<URI(Self), Parameter("tag", "ours")>>
         /\ Get(got.headers, "to") = <<URI(Peer), Parameter("tag", c.tag)>>
         /\ Get(got.headers, "call-id") = <<Atom("call")>>
         /\ Get(got.headers, "cseq") = <<Atom(<<n, method>>)>>
    BY <1>18 DEF Get, Header, from, to, id, number
  <1>20. CSeq(got) = <<n, method>>
    BY <1>19, PiecesRead DEF CSeq
  <1>21. QED
    BY <1>2, <1>13, <1>16, <1>19, <1>20 DEF Arrives, FirstHop, got, m, s, Links

\* A list of headers whose names differ.
LEMMA DistinctRead ==
  ASSUME NEW P, NEW hs \in Seq(HeadersOf(FullNames, P)),
         \A i, j \in 1 .. Len(hs) : hs[i].name = hs[j].name => i = j
  PROVE  \A i \in 1 .. Len(hs) : /\ Values(hs, hs[i].name) = <<hs[i].value>>
                                 /\ Get(hs, hs[i].name) = hs[i].value
  <1> DEFINE H == HeadersOf(FullNames, P)
  <1> SUFFICES ASSUME NEW i \in 1 .. Len(hs)
               PROVE  /\ Values(hs, hs[i].name) = <<hs[i].value>>
                      /\ Get(hs, hs[i].name) = hs[i].value
    OBVIOUS
  <1>1. hs[i].name \in FullNames
    <2>1. hs[i] \in H
      OBVIOUS
    <2>2. QED
      BY <2>1 DEF HeadersOf
  <1>2. \A j \in 1 .. Len(hs) : hs[j].name = hs[i].name <=> j = i
    OBVIOUS
  <1>3. ASSUME NEW name \in FullNames,
               \A j \in 1 .. Len(hs) : hs[j].name = name <=> j = i
        PROVE  Values(hs, name) = <<hs[i].value>>
    BY <1>3, ListRead
  <1>4. Values(hs, hs[i].name) = <<hs[i].value>>
    BY <1>1, <1>2, <1>3
  <1>5. QED
    BY <1>4 DEF Get

\* What ngntun's INVITE has in two of its headers.
OurVia == <<URI(FormatURI(None, Us))>>
OurFrom == <<URI(Self), Parameter("tag", "ours")>>

\* What ngntun's INVITE says.
LEMMA OurInviteSays ==
  LET Says(name) == Get(OurInvite.headers, name)
  IN  /\ Says("via") = OurVia /\ Says("from") = OurFrom
      /\ Says("call-id") = <<Atom("call")>> /\ Says("cseq") = <<Atom(<<1, "INVITE">>)>>
      /\ CSeq(OurInvite) = <<1, "INVITE">> /\ OurInvite.start.uri = Peer
  <1> DEFINE pieces == {URI(Self), URI(Peer), URI(FormatURI(None, Us)),
                        URI(FormatURI(None, Proxy)), URI(FormatURI("instance", Us)),
                        Parameter("tag", "ours"), Atom("call"), Atom(<<1, "INVITE">>)}
             hs == OurInvite.headers
             H == HeadersOf(FullNames, pieces)
             a == Header("via", <<URI(FormatURI(None, Us))>>)
             b == Header("route", <<URI(FormatURI(None, Proxy))>>)
             d == Header("from", <<URI(Self), Parameter("tag", "ours")>>)
             e == Header("to", <<URI(Peer)>>)
             f == Header("call-id", <<Atom("call")>>)
             g == Header("cseq", <<Atom(<<1, "INVITE">>)>>)
             h == Header("contact", <<URI(FormatURI("instance", Us))>>)
  <1>1. hs = <<a, b, d, e, f, g, h>> /\ OurInvite.start.uri = Peer
    BY DEF OurInvite, Invite
  <1>2. /\ URI(Self) \in pieces /\ URI(Peer) \in pieces /\ URI(FormatURI(None, Us)) \in pieces
        /\ URI(FormatURI(None, Proxy)) \in pieces /\ URI(FormatURI("instance", Us)) \in pieces
        /\ Parameter("tag", "ours") \in pieces /\ Atom("call") \in pieces
        /\ Atom(<<1, "INVITE">>) \in pieces
    OBVIOUS
  <1> HIDE DEF pieces
  <1>3. {"via", "route", "from", "to", "call-id", "cseq", "contact"}
           \subseteq FullNames \ {"content-length"}
    BY DEF FullNames
  <1>4. a \in Sent(pieces) /\ b \in Sent(pieces) /\ d \in Sent(pieces) /\ e \in Sent(pieces)
        /\ f \in Sent(pieces) /\ g \in Sent(pieces) /\ h \in Sent(pieces)
    BY <1>2, <1>3, SentHeader
  <1>5. Sent(pieces) \subseteq H
    BY DEF Sent, HeadersOf
  <1>6. /\ a.name = "via" /\ b.name = "route" /\ d.name = "from" /\ e.name = "to"
        /\ f.name = "call-id" /\ g.name = "cseq" /\ h.name = "contact"
        /\ a.value = OurVia /\ d.value = OurFrom /\ f.value = <<Atom("call")>>
        /\ g.value = <<Atom(<<1, "INVITE">>)>>
    BY DEF Header, OurVia, OurFrom
  <1> HIDE DEF a, b, d, e, f, g, h, H, hs
  <1>7. hs \in Seq(H) /\ Len(hs) = 7 /\ hs[1] = a /\ hs[2] = b /\ hs[3] = d /\ hs[4] = e
        /\ hs[5] = f /\ hs[6] = g /\ hs[7] = h
    BY <1>1, <1>4, <1>5
  <1>8. \A i \in 1 .. Len(hs) : i \in {1, 2, 3, 4, 5, 6, 7}
    BY <1>7
  <1>9. \A i, j \in 1 .. Len(hs) : hs[i].name = hs[j].name => i = j
    BY <1>6, <1>7, <1>8
  <1>10. \A i \in 1 .. Len(hs) : Get(hs, hs[i].name) = hs[i].value
    BY <1>7, <1>9, DistinctRead DEF H
  <1>11. 1 \in 1 .. Len(hs) /\ 3 \in 1 .. Len(hs) /\ 5 \in 1 .. Len(hs) /\ 6 \in 1 .. Len(hs)
    BY <1>7
  <1>12. /\ Get(hs, "via") = OurVia /\ Get(hs, "from") = OurFrom
         /\ Get(hs, "call-id") = <<Atom("call")>> /\ Get(hs, "cseq") = <<Atom(<<1, "INVITE">>)>>
    BY <1>6, <1>7, <1>10, <1>11
  <1>13. CSeq(OurInvite) = <<1, "INVITE">>
    BY <1>12, PiecesRead DEF CSeq, hs
  <1>14. QED
    BY <1>1, <1>12, <1>13 DEF hs

\* Two elements, and one before four.
LEMMA PairJoined ==
  ASSUME NEW x, NEW y
  PROVE  <<x>> \o <<y>> = <<x, y>>
  <1> DEFINE s == <<x>> \o <<y>>
             t == <<x, y>>
             S == {x, y}
  <1>1. <<x>> \in Seq(S) /\ <<y>> \in Seq(S)
    OBVIOUS
  <1>2. s \in Seq(S) /\ Len(s) = 2 /\ s[1] = x /\ s[2] = y
    <2> HIDE DEF S
    <2>1. QED
      BY <1>1
  <1>3. t \in Seq(S) /\ Len(t) = 2 /\ t[1] = x /\ t[2] = y
    OBVIOUS
  <1> HIDE DEF s, t, S
  <1>4. \A i \in 1 .. Len(s) : s[i] = t[i]
    BY <1>2, <1>3
  <1>5. s = t
    BY <1>2, <1>3, <1>4, SameSeq
  <1>6. QED
    BY <1>5 DEF s, t

\* The far end's pieces.
LEMMA Theirs ==
  /\ \A tag : LET v == <<URI(Peer)>> \o TheirTag(tag)
              IN  /\ Param(v, "tag") = tag /\ URIInAngle(v) = Peer
                  /\ Given(tag) => v = <<URI(Peer), Parameter("tag", tag)>>
                  /\ ~Given(tag) => v = <<URI(Peer)>>
  /\ \A u : URIInAngle(IF Given(u) THEN <<URI(u)>> ELSE <<>>) = u
  /\ \A x : AtomOf(IF Given(x) THEN <<Atom(x)>> ELSE <<>>) = x
  <1>1. ASSUME NEW tag
        PROVE  LET v == <<URI(Peer)>> \o TheirTag(tag)
               IN  /\ Param(v, "tag") = tag /\ URIInAngle(v) = Peer
                   /\ Given(tag) => v = <<URI(Peer), Parameter("tag", tag)>>
                   /\ ~Given(tag) => v = <<URI(Peer)>>
    <2> DEFINE v == <<URI(Peer)>> \o TheirTag(tag)
    <2>1. CASE Given(tag)
      <3>1. v = <<URI(Peer), Parameter("tag", tag)>>
        <4> DEFINE x == URI(Peer)
                   y == Parameter("tag", tag)
        <4>1. v = <<x>> \o <<y>>
          BY <2>1 DEF TheirTag
        <4>2. QED
          BY <4>1, PairJoined
      <3>2. QED
        BY <2>1, <3>1, PiecesRead
    <2>2. CASE ~Given(tag)
      <3>1. v = <<URI(Peer)>>
        <4>1. \A x : <<x>> \o <<>> = <<x>>
          OBVIOUS
        <4>2. QED
          BY <2>2, <4>1 DEF TheirTag
      <3>2. QED
        BY <2>2, <3>1, PiecesRead DEF Given
    <2>3. QED
      BY <2>1, <2>2
  <1>2. ASSUME NEW u PROVE URIInAngle(IF Given(u) THEN <<URI(u)>> ELSE <<>>) = u
    BY PiecesRead DEF Given
  <1>3. ASSUME NEW x PROVE AtomOf(IF Given(x) THEN <<Atom(x)>> ELSE <<>>) = x
    BY PiecesRead DEF Given
  <1>4. QED
    BY <1>1, <1>2, <1>3

LEMMA FiveJoined ==
  ASSUME NEW v, NEW a, NEW b, NEW x, NEW y
  PROVE  <<v>> \o <<a, b, x, y>> = <<v, a, b, x, y>>
  <1> DEFINE S == {v, a, b, x, y}
             one == <<v>>
             four == <<a, b, x, y>>
             s == one \o four
             t == <<v, a, b, x, y>>
  <1>1. one \in Seq(S) /\ Len(one) = 1 /\ one[1] = v
    OBVIOUS
  <1>2. four \in Seq(S) /\ Len(four) = 4
        /\ four[1] = a /\ four[2] = b /\ four[3] = x /\ four[4] = y
    OBVIOUS
  <1>3. t \in Seq(S) /\ Len(t) = 5
        /\ t[1] = v /\ t[2] = a /\ t[3] = b /\ t[4] = x /\ t[5] = y
    OBVIOUS
  <1> HIDE DEF S, one, four, t
  <1>4. one \in Seq(S) /\ four \in Seq(S)
    BY <1>1, <1>2
  <1>5. /\ s \in Seq(S) /\ Len(s) = Len(one) + Len(four)
        /\ \A i \in 1 .. Len(one) : s[i] = one[i]
        /\ \A i \in 1 .. Len(four) : s[Len(one) + i] = four[i]
    BY <1>4, Joined
  <1> HIDE DEF s
  <1>6. Len(s) = 5 /\ s[1] = one[1]
        /\ s[2] = four[1] /\ s[3] = four[2] /\ s[4] = four[3] /\ s[5] = four[4]
    <2>1. Len(s) = 5 /\ s[1] = one[1]
      BY <1>1, <1>2, <1>5
    <2>2. \A i \in 1 .. 4 : s[1 + i] = four[i]
      BY <1>1, <1>2, <1>5
    <2>3. s[1 + 1] = four[1] /\ s[1 + 2] = four[2] /\ s[1 + 3] = four[3] /\ s[1 + 4] = four[4]
      BY <2>2
    <2>4. QED
      BY <2>1, <2>3
  <1>7. \A i \in 1 .. 5 : i \in {1, 2, 3, 4, 5}
    OBVIOUS
  <1>8. \A i \in 1 .. Len(s) : s[i] = t[i]
    BY <1>1, <1>2, <1>3, <1>4, <1>6, <1>7
  <1>9. s = t
    BY <1>3, <1>5, <1>6, <1>8, SameSeq
  <1>10. QED
    BY <1>9 DEF s, t, one, four

\* A list of values that are not empty can be sent.
LEMMA ListOfSent ==
  ASSUME NEW P, NEW s \in Seq(Seq(P)), \A i \in 1 .. Len(s) : s[i] # <<>>,
         NEW name \in FullNames \ {"content-length"}
  PROVE  ListOf(name, s) \in Seq(Sent(P))
  <1>1. \A i \in 1 .. Len(s) : Header(name, s[i]) \in Sent(P)
    BY SentHeader
  <1>2. ListOf(name, s) \in [1 .. Len(s) -> Sent(P)] /\ Len(s) \in Nat
    BY <1>1 DEF ListOf
  <1>3. QED
    BY <1>2, FunctionIsSeq

\* No headers at all.
LEMMA EmptyRead ==
  ASSUME NEW P
  PROVE  <<>> \in Seq(Sent(P)) /\ \A name \in FullNames : Values(<<>>, name) = <<>>
  <1> DEFINE H == HeadersOf(FullNames, P)
             V == Seq(P)
             O == <<>>
  <1>1. Carry(H, V)
    BY DEF Carry, HeadersOf
  <1> HIDE DEF H, V
  <1>2. O \in Seq(H)
    OBVIOUS
  <1>3. ASSUME NEW name PROVE Values(<<>>, name) = <<>>
    BY <1>1, <1>2, ValuesGrow
  <1>4. QED
    BY <1>3

\* A header of one piece that is there or not.
LEMMA OptionalRead ==
  ASSUME NEW P, NEW name \in FullNames \ {"content-length"}, NEW piece, NEW given,
         Given(given) => piece \in P
  PROVE  LET O == Optional(given, Header(name, <<piece>>))
         IN  /\ O \in Seq(Sent(P))
             /\ \A k \in FullNames :
                   Values(O, k) = IF k = name /\ Given(given) THEN <<<<piece>>>> ELSE <<>>
  <1> DEFINE O == Optional(given, Header(name, <<piece>>))
             H == HeadersOf(FullNames, P)
             h == Header(name, <<piece>>)
  <1>1. CASE Given(given)
    <2>1. h \in Sent(P)
      BY <1>1, SentHeader
    <2>2. Sent(P) \subseteq H
      BY DEF Sent, HeadersOf
    <2>3. h.name = name /\ h.value = <<piece>>
      BY NameIs
    <2>4. O = <<h>>
      BY <1>1 DEF Optional
    <2> HIDE DEF h, O
    <2>5. O \in Seq(Sent(P))
      BY <2>1, <2>4
    <2>6. \A k \in FullNames : Values(O, k) = IF h.name = k THEN <<h.value>> ELSE <<>>
      BY <2>1, <2>2, <2>4, OneRead DEF H
    <2>7. QED
      BY <1>1, <2>3, <2>5, <2>6 DEF O, h
  <1>2. CASE ~Given(given)
    <2>1. O = <<>>
      BY <1>2 DEF Optional
    <2> HIDE DEF O
    <2>2. O \in Seq(Sent(P)) /\ \A k \in FullNames : Values(O, k) = <<>>
      BY <2>1, EmptyRead
    <2>3. QED
      BY <1>2, <2>2 DEF O
  <1>3. QED
    BY <1>1, <1>2

\* A message of the far end: what the proxies and it put there.
TheirList(rr, vias, fixed, contact) ==
    ((ListOf("record-route", rr) \o ListOf("via", vias)) \o fixed) \o contact

\* Its parts can be sent, and have their names.
ArePut(P, rr, vias, v, a, b, x, y, target) ==
    /\ rr \in Seq(Seq(P)) /\ \A i \in 1 .. Len(rr) : rr[i] # <<>>
    /\ vias \in Seq(Seq(P)) /\ \A i \in 1 .. Len(vias) : vias[i] # <<>>
    /\ {v, a, b, x, y} \subseteq Sent(P)
    /\ v.name = "via" /\ a.name = "from" /\ b.name = "to" /\ x.name = "call-id"
    /\ y.name = "cseq" /\ (Given(target) => URI(target) \in P)

\* What the headers of such a message say.
LEMMA TheirHeaders ==
  ASSUME NEW P, NEW rr, NEW vias, NEW v, NEW a, NEW b, NEW x, NEW y, NEW target,
         ArePut(P, rr, vias, v, a, b, x, y, target)
  PROVE  LET hs == TheirList(rr, vias, <<v, a, b, x, y>>,
                             Optional(target, Header("contact", <<URI(target)>>)))
         IN  /\ hs \in Seq(Sent(P)) /\ Values(hs, "record-route") = rr
             /\ Get(hs, "from") = a.value /\ Get(hs, "to") = b.value
             /\ Get(hs, "call-id") = x.value /\ Get(hs, "cseq") = y.value
             /\ Get(hs, "contact") = IF Given(target) THEN <<URI(target)>> ELSE <<>>
  <1> DEFINE H == HeadersOf(FullNames, P)
             NL == FullNames \ {"content-length"}
             R == ListOf("record-route", rr)
             V == ListOf("via", vias)
             four == <<a, b, x, y>>
             F == <<v, a, b, x, y>>
             O == Optional(target, Header("contact", <<URI(target)>>))
             hs == TheirList(rr, vias, F, O)
  <1>0. /\ rr \in Seq(Seq(P)) /\ \A i \in 1 .. Len(rr) : rr[i] # <<>>
        /\ vias \in Seq(Seq(P)) /\ \A i \in 1 .. Len(vias) : vias[i] # <<>>
        /\ v \in Sent(P) /\ a \in Sent(P) /\ b \in Sent(P) /\ x \in Sent(P) /\ y \in Sent(P)
        /\ v.name = "via" /\ a.name = "from" /\ b.name = "to" /\ x.name = "call-id"
        /\ y.name = "cseq" /\ (Given(target) => URI(target) \in P)
    BY DEF ArePut
  <1>1. Sent(P) \subseteq H
    BY DEF Sent, HeadersOf
  <1>2. {"record-route", "via", "from", "to", "call-id", "cseq", "contact"} \subseteq NL
        /\ NL \subseteq FullNames
    BY DEF FullNames
  <1>3. R \in Seq(Sent(P)) /\ V \in Seq(Sent(P))
    <2>1. "record-route" \in NL /\ "via" \in NL
      BY <1>2
    <2>2. QED
      BY <1>0, <2>1, ListOfSent
  <1>4. F \in Seq(Sent(P)) /\ <<v>> \in Seq(Sent(P)) /\ four \in Seq(Sent(P))
        /\ <<v>> \o four = F
    <2>1. F \in Seq(Sent(P)) /\ <<v>> \in Seq(Sent(P)) /\ four \in Seq(Sent(P))
      BY <1>0
    <2>2. QED
      BY <2>1, FiveJoined
  <1>5. O \in Seq(Sent(P))
        /\ \A name \in FullNames :
              Values(O, name) = IF name = "contact" /\ Given(target) THEN <<<<URI(target)>>>>
                                ELSE <<>>
    <2>1. "contact" \in NL
      BY <1>2
    <2>2. CASE Given(target)
      BY <1>0, <2>1, <2>2, OptionalRead
    <2>3. CASE ~Given(target)
      <3>1. O = <<>>
        BY <2>3 DEF Optional
      <3> HIDE DEF O
      <3>2. O \in Seq(Sent(P)) /\ \A name \in FullNames : Values(O, name) = <<>>
        BY <3>1, EmptyRead
      <3>3. QED
        BY <2>3, <3>2
    <2>4. QED
      BY <2>2, <2>3
  <1>6. \A name \in FullNames :
           /\ Values(R, name) = IF name = "record-route" THEN rr ELSE <<>>
           /\ Values(V, name) = IF name = "via" THEN vias ELSE <<>>
    <2>1. "record-route" \in FullNames /\ "via" \in FullNames
      BY <1>2
    <2>2. rr \in Seq(Seq(P)) /\ vias \in Seq(Seq(P))
      BY <1>0
    <2>3. \A name \in FullNames : Values(R, name) = IF name = "record-route" THEN rr ELSE <<>>
      BY <2>1, <2>2, ListOfRead
    <2>4. \A name \in FullNames : Values(V, name) = IF name = "via" THEN vias ELSE <<>>
      BY <2>1, <2>2, ListOfRead
    <2>5. QED
      BY <2>3, <2>4
  <1>7. \A name \in FullNames :
           /\ name = "record-route" \/ name = "contact" => Values(F, name) = <<>>
           /\ name = "from" => Values(F, name) = <<a.value>>
           /\ name = "to" => Values(F, name) = <<b.value>>
           /\ name = "call-id" => Values(F, name) = <<x.value>>
           /\ name = "cseq" => Values(F, name) = <<y.value>>
    <2> SUFFICES ASSUME NEW name \in FullNames
                 PROVE  /\ name = "record-route" \/ name = "contact" => Values(F, name) = <<>>
                        /\ name = "from" => Values(F, name) = <<a.value>>
                        /\ name = "to" => Values(F, name) = <<b.value>>
                        /\ name = "call-id" => Values(F, name) = <<x.value>>
                        /\ name = "cseq" => Values(F, name) = <<y.value>>
      OBVIOUS
    <2> DEFINE t == <<v>>
               vt == Values(t, name)
               vf == Values(four, name)
    <2>1. t \in Seq(H) /\ four \in Seq(H) /\ t \o four = F
      BY <1>1, <1>4
    <2>2. vt = IF v.name = name THEN <<v.value>> ELSE <<>>
      BY <1>0, <1>1, OneRead DEF H
    <2>3. /\ name \notin {"from", "to", "call-id", "cseq"} => vf = <<>>
          /\ name = "from" => vf = <<a.value>>
          /\ name = "to" => vf = <<b.value>>
          /\ name = "call-id" => vf = <<x.value>>
          /\ name = "cseq" => vf = <<y.value>>
      BY <1>0, <1>1, FourRead DEF H
    <2> HIDE DEF t, four, F, H
    <2>4. Values(F, name) = vt \o vf
      <3>1. ASSUME NEW s \in Seq(H), NEW u \in Seq(H)
            PROVE  Values(s \o u, name) = Values(s, name) \o Values(u, name)
        BY ListRead DEF H
      <3>2. Values(t \o four, name) = Values(t, name) \o Values(four, name)
        BY <2>1, <3>1
      <3>3. QED
        BY <2>1, <3>2
    <2> HIDE DEF vt, vf
    <2>5. \A z : <<>> \o <<z>> = <<z>>
      OBVIOUS
    <2>6. <<>> \o <<>> = <<>>
      OBVIOUS
    <2>7. CASE name = "via"
      BY <2>7
    <2>8. CASE name # "via"
      <3>1. vt = <<>>
        BY <1>0, <2>2, <2>8
      <3>2. Values(F, name) = <<>> \o vf
        BY <2>4, <3>1
      <3>3. ASSUME name = "record-route" \/ name = "contact" PROVE Values(F, name) = <<>>
        BY <2>3, <2>6, <3>2, <3>3
      <3>4. ASSUME name = "from" PROVE Values(F, name) = <<a.value>>
        BY <2>3, <2>5, <3>2, <3>4
      <3>5. ASSUME name = "to" PROVE Values(F, name) = <<b.value>>
        BY <2>3, <2>5, <3>2, <3>5
      <3>6. ASSUME name = "call-id" PROVE Values(F, name) = <<x.value>>
        BY <2>3, <2>5, <3>2, <3>6
      <3>7. ASSUME name = "cseq" PROVE Values(F, name) = <<y.value>>
        BY <2>3, <2>5, <3>2, <3>7
      <3>8. QED
        BY <3>3, <3>4, <3>5, <3>6, <3>7
    <2>9. QED
      BY <2>7, <2>8
  <1> HIDE DEF R, V, F, O, H, four
  <1>8. hs = ((R \o V) \o F) \o O
    BY DEF TheirList, R, V, F, O
  <1> HIDE DEF hs
  <1>9. hs \in Seq(Sent(P))
    BY <1>3, <1>4, <1>5, <1>8
  <1>10. ASSUME NEW name \in FullNames
         PROVE  Values(hs, name)
                  = ((Values(R, name) \o Values(V, name)) \o Values(F, name)) \o Values(O, name)
    <2>1. R \in Seq(H) /\ V \in Seq(H) /\ F \in Seq(H) /\ O \in Seq(H)
      BY <1>1, <1>3, <1>4, <1>5
    <2>2. ASSUME NEW s \in Seq(H), NEW t \in Seq(H)
          PROVE  s \o t \in Seq(H) /\ Values(s \o t, name) = Values(s, name) \o Values(t, name)
      <3>1. Values(s \o t, name) = Values(s, name) \o Values(t, name)
        BY ListRead DEF H
      <3>2. QED
        BY <3>1
    <2> DEFINE RV == R \o V
               RVF == RV \o F
    <2>3. RV \in Seq(H) /\ Values(RV, name) = Values(R, name) \o Values(V, name)
      BY <2>1, <2>2
    <2> HIDE DEF RV
    <2>4. RVF \in Seq(H) /\ Values(RVF, name) = Values(RV, name) \o Values(F, name)
      BY <2>1, <2>2, <2>3
    <2> HIDE DEF RVF
    <2>5. Values(RVF \o O, name) = Values(RVF, name) \o Values(O, name)
      BY <2>1, <2>2, <2>4
    <2>6. QED
      BY <1>8, <2>3, <2>4, <2>5 DEF RV, RVF
  <1>11. /\ \A z : ((<<>> \o <<>>) \o <<z>>) \o <<>> = <<z>>
         /\ \A z : ((<<>> \o <<>>) \o <<>>) \o <<z>> = <<z>>
         /\ ((<<>> \o <<>>) \o <<>>) \o <<>> = <<>>
         /\ ((rr \o <<>>) \o <<>>) \o <<>> = rr
    BY <1>0
  <1>12. Values(hs, "record-route") = rr
    <2> DEFINE k == "record-route"
               r == Values(R, k)
               w == Values(V, k)
               f == Values(F, k)
               o == Values(O, k)
    <2>1. k \in FullNames /\ k # "via" /\ k # "contact"
      BY <1>2
    <2>2. r = rr /\ w = <<>> /\ f = <<>> /\ o = <<>>
      BY <1>5, <1>6, <1>7, <2>1
    <2>3. Values(hs, k) = ((r \o w) \o f) \o o
      BY <1>10, <2>1
    <2> HIDE DEF r, w, f, o, k
    <2>4. Values(hs, k) = rr
      BY <1>11, <2>2, <2>3
    <2>5. QED
      BY <2>4 DEF k
  <1>13. Get(hs, "contact") = IF Given(target) THEN <<URI(target)>> ELSE <<>>
    <2> DEFINE k == "contact"
               r == Values(R, k)
               w == Values(V, k)
               f == Values(F, k)
               o == Values(O, k)
    <2>1. k \in FullNames /\ k # "via" /\ k # "record-route"
      BY <1>2
    <2>2. r = <<>> /\ w = <<>> /\ f = <<>>
          /\ o = IF Given(target) THEN <<<<URI(target)>>>> ELSE <<>>
      BY <1>5, <1>6, <1>7, <2>1
    <2>3. Values(hs, k) = ((r \o w) \o f) \o o
      BY <1>10, <2>1
    <2> HIDE DEF r, w, f, o, k
    <2>4. Values(hs, k) = IF Given(target) THEN <<<<URI(target)>>>> ELSE <<>>
      BY <1>11, <2>2, <2>3
    <2>5. QED
      BY <2>4 DEF k, Get
  <1>14. ASSUME NEW k \in {"from", "to", "call-id", "cseq"}, NEW z, Values(F, k) = <<z>>
         PROVE  Get(hs, k) = z
    <2> DEFINE r == Values(R, k)
               w == Values(V, k)
               f == Values(F, k)
               o == Values(O, k)
    <2>1. k \in FullNames /\ k # "via" /\ k # "record-route" /\ k # "contact"
      BY <1>2
    <2>2. r = <<>> /\ w = <<>> /\ f = <<z>> /\ o = <<>>
      BY <1>5, <1>6, <1>14, <2>1
    <2>3. Values(hs, k) = ((r \o w) \o f) \o o
      BY <1>10, <2>1
    <2> HIDE DEF r, w, f, o
    <2>4. Values(hs, k) = <<z>>
      BY <1>11, <2>2, <2>3
    <2>5. QED
      BY <2>4 DEF Get
  <1>15. /\ Values(F, "from") = <<a.value>> /\ Values(F, "to") = <<b.value>>
         /\ Values(F, "call-id") = <<x.value>> /\ Values(F, "cseq") = <<y.value>>
    BY <1>2, <1>7
  <1>16. /\ Get(hs, "from") = a.value /\ Get(hs, "to") = b.value
         /\ Get(hs, "call-id") = x.value /\ Get(hs, "cseq") = y.value
    BY <1>14, <1>15
  <1>17. QED
    BY <1>9, <1>12, <1>13, <1>16 DEF hs, F, O

\* A message of a call's far end, and what is read of it.
IsTheirs(m, c, P, rr, vias, v, a, b, x, y) ==
    /\ ArePut(P, rr, vias, v, a, b, x, y, c.target)
    /\ Atom(1) \in P /\ m.start # Bad /\ m.body = <<"s">>
    /\ m.headers = TheirList(rr, vias, <<v, a, b, x, y>>,
                             Optional(c.target, Header("contact", <<URI(c.target)>>)))

SaysOfCall(r, m, c, P, rr, a, b, x, y) ==
    /\ r.body = <<"s">> /\ Values(r.headers, "record-route") = rr
    /\ Get(r.headers, "from") = a.value /\ Get(r.headers, "to") = b.value
    /\ Get(r.headers, "call-id") = x.value /\ Get(r.headers, "cseq") = y.value
    /\ URIInAngle(Get(r.headers, "contact")) = c.target
    /\ Values(r.headers, "via") = Values(m.headers, "via")
    /\ Values(m.headers, "via") \in Seq(Seq(P))

\* It is read as it was meant, however the far end writes it.
LEMMA TheirsRead ==
  ASSUME NEW c \in Calls, NEW P, NEW rr, NEW vias, NEW v, NEW a, NEW b, NEW x, NEW y, NEW m,
         IsTheirs(m, c, P, rr, vias, v, a, b, x, y)
  PROVE  SaysOfCall(ParseMessage(Written(m, c)), m, c, P, rr, a, b, x, y)
  <1> DEFINE hs == m.headers
             r == ParseMessage(Written(m, c))
             S == Range(c.spare) \union {"s"}
             NL == FullNames \ {"content-length"}
             H == HeadersOf(FullNames, P)
  <1>0. /\ ArePut(P, rr, vias, v, a, b, x, y, c.target)
        /\ Atom(1) \in P /\ m.start # Bad /\ m.body = <<"s">>
        /\ hs = TheirList(rr, vias, <<v, a, b, x, y>>,
                          Optional(c.target, Header("contact", <<URI(c.target)>>)))
    BY DEF IsTheirs
  <1>1. /\ hs \in Seq(Sent(P)) /\ Values(hs, "record-route") = rr
        /\ Get(hs, "from") = a.value /\ Get(hs, "to") = b.value
        /\ Get(hs, "call-id") = x.value /\ Get(hs, "cseq") = y.value
        /\ Get(hs, "contact") = IF Given(c.target) THEN <<URI(c.target)>> ELSE <<>>
    BY <1>0, TheirHeaders
  <1>2. IsSent(m, c, P, S)
    <2>1. m.body \in Seq(S) /\ Len(m.body) = 1
      BY <1>0
    <2>2. c.spare \in Seq(S)
      <3>1. c.spare \in Seq(Range(c.spare)) /\ Range(c.spare) \subseteq S
        BY CallsAssumption
      <3> HIDE DEF S
      <3>2. QED
        BY <3>1
    <2>3. QED
      BY <1>0, <1>1, <2>1, <2>2 DEF IsSent
  <1>3. r.body = m.body /\ \A name \in NL : Values(r.headers, name) = Values(hs, name)
    BY <1>2, MessageRead
  <1> HIDE DEF r
  <1>4. {"record-route", "via", "from", "to", "call-id", "cseq", "contact"} \subseteq NL
    BY DEF FullNames
  <1>5. \A name \in {"from", "to", "call-id", "cseq", "contact"} :
           Get(r.headers, name) = Get(hs, name)
    <2> SUFFICES ASSUME NEW name \in {"from", "to", "call-id", "cseq", "contact"}
                 PROVE  Get(r.headers, name) = Get(hs, name)
      OBVIOUS
    <2>1. Values(r.headers, name) = Values(hs, name)
      BY <1>3, <1>4
    <2> HIDE DEF hs
    <2>2. QED
      BY <2>1 DEF Get
  <1>6. Values(r.headers, "record-route") = rr /\ Values(r.headers, "via") = Values(hs, "via")
    BY <1>1, <1>3, <1>4
  <1>7. URIInAngle(Get(r.headers, "contact")) = c.target
    <2>1. Get(r.headers, "contact") = IF Given(c.target) THEN <<URI(c.target)>> ELSE <<>>
      BY <1>1, <1>5
    <2>2. QED
      BY <2>1, Theirs
  <1>8. Values(hs, "via") \in Seq(Seq(P))
    <2>1. Sent(P) \subseteq H
      BY DEF Sent, HeadersOf
    <2>2. "via" \in FullNames
      BY <1>4
    <2> HIDE DEF hs, H
    <2>3. hs \in Seq(H)
      BY <1>1, <2>1
    <2>4. QED
      BY <2>2, <2>3, ListRead DEF H
  <1>9. QED
    <2>1. r.body = <<"s">>
      BY <1>0, <1>3
    <2>2. \A name \in {"from", "to", "call-id", "cseq"} : Get(r.headers, name) = Get(hs, name)
      BY <1>5
    <2>3. /\ Get(r.headers, "from") = a.value /\ Get(r.headers, "to") = b.value
          /\ Get(r.headers, "call-id") = x.value /\ Get(r.headers, "cseq") = y.value
      BY <1>1, <2>2
    <2>4. SaysOfCall(r, m, c, P, rr, a, b, x, y)
      BY <1>6, <1>7, <1>8, <2>1, <2>3 DEF SaysOfCall
    <2>5. QED
      BY <2>4 DEF r

\* The pieces of a call's messages.
PiecesOf(c) ==
    {URI(u) : u \in Range(c.path) \union {Self, Peer, FormatURI(None, Us), c.target}}
       \union {Parameter("tag", "ours"), Parameter("tag", c.tag), Atom("call"),
               Atom(<<1, "INVITE">>), Atom(<<7, "INVITE">>), Atom(1)}

HasPieces(P, c) ==
    /\ \A u \in Range(c.path) : URI(u) \in P
    /\ URI(Self) \in P /\ URI(Peer) \in P /\ URI(FormatURI(None, Us)) \in P
    /\ URI(c.target) \in P
    /\ Parameter("tag", "ours") \in P /\ Parameter("tag", c.tag) \in P
    /\ Atom("call") \in P /\ Atom(<<1, "INVITE">>) \in P
    /\ Atom(<<7, "INVITE">>) \in P /\ Atom(1) \in P

\* The pieces are those that its messages need.
LEMMA CallPieces == ASSUME NEW c PROVE HasPieces(PiecesOf(c), c)
  <1> DEFINE uris == Range(c.path) \union {Self, Peer, FormatURI(None, Us), c.target}
             A == {URI(u) : u \in uris}
             B == {Parameter("tag", "ours"), Parameter("tag", c.tag), Atom("call"),
                   Atom(<<1, "INVITE">>), Atom(<<7, "INVITE">>), Atom(1)}
  <1>1. PiecesOf(c) = A \union B
    BY DEF PiecesOf
  <1>2. /\ Parameter("tag", "ours") \in B /\ Parameter("tag", c.tag) \in B
        /\ Atom("call") \in B /\ Atom(<<1, "INVITE">>) \in B
        /\ Atom(<<7, "INVITE">>) \in B /\ Atom(1) \in B
    OBVIOUS
  <1>3. \A u \in uris : URI(u) \in A
    OBVIOUS
  <1>4. /\ Range(c.path) \subseteq uris
        /\ Self \in uris /\ Peer \in uris /\ FormatURI(None, Us) \in uris /\ c.target \in uris
    OBVIOUS
  <1> HIDE DEF A, B, uris
  <1>5. \A u \in Range(c.path) : URI(u) \in PiecesOf(c)
    BY <1>1, <1>3, <1>4
  <1>6. /\ URI(Self) \in PiecesOf(c) /\ URI(Peer) \in PiecesOf(c)
        /\ URI(FormatURI(None, Us)) \in PiecesOf(c) /\ URI(c.target) \in PiecesOf(c)
    BY <1>1, <1>3, <1>4
  <1>7. B \subseteq PiecesOf(c)
    BY <1>1
  <1>8. /\ Parameter("tag", "ours") \in PiecesOf(c) /\ Parameter("tag", c.tag) \in PiecesOf(c)
        /\ Atom("call") \in PiecesOf(c) /\ Atom(1) \in PiecesOf(c)
    BY <1>2, <1>7
  <1>9. Atom(<<1, "INVITE">>) \in PiecesOf(c)
    BY <1>2, <1>7
  <1>10. Atom(<<7, "INVITE">>) \in PiecesOf(c)
    BY <1>2, <1>7
  <1>11. QED
    BY <1>5, <1>6, <1>8, <1>9, <1>10 DEF HasPieces

\* From or To of the far end, with or without its tag.
LEMMA TheirEnd ==
  ASSUME NEW P, URI(Peer) \in P, NEW tag, Parameter("tag", tag) \in P,
         NEW name \in FullNames \ {"content-length"}
  PROVE  Header(name, <<URI(Peer)>> \o TheirTag(tag)) \in Sent(P)
  <1>1. CASE Given(tag)
    <2>1. <<URI(Peer)>> \o TheirTag(tag) = <<URI(Peer), Parameter("tag", tag)>>
      BY <1>1, Theirs
    <2>2. QED
      BY <2>1, SentHeader
  <1>2. CASE ~Given(tag)
    <2>1. <<URI(Peer)>> \o TheirTag(tag) = <<URI(Peer)>>
      BY <1>2, Theirs
    <2>2. QED
      BY <2>1, SentHeader
  <1>3. QED
    BY <1>1, <1>2

\* The far end's INVITE is read as it was meant, the routes as they come.
LEMMA InviteIsRead ==
  ASSUME NEW c \in Calls
  PROVE  LET r == ParseMessage(Written(TheirInvite(c), c))
         IN  /\ r.body = <<"s">> /\ Values(r.headers, "record-route") = Links(c.path)
             /\ Get(r.headers, "from") = <<URI(Peer)>> \o TheirTag(c.tag)
             /\ Get(r.headers, "to") = <<URI(Self)>>
             /\ Get(r.headers, "call-id") = <<Atom("call")>>
             /\ Get(r.headers, "cseq") = <<Atom(<<7, "INVITE">>)>>
             /\ URIInAngle(Get(r.headers, "contact")) = c.target
             /\ Values(r.headers, "via") = Values(TheirInvite(c).headers, "via")
             /\ Values(TheirInvite(c).headers, "via") \in Seq(Seq(PiecesOf(c)))
  <1> DEFINE P == PiecesOf(c)
             l == Links(c.path)
             m == TheirInvite(c)
             end == <<URI(Peer)>> \o TheirTag(c.tag)
             v == Header("via", <<URI(Peer)>>)
             a == Header("from", end)
             b == Header("to", <<URI(Self)>>)
             x == Header("call-id", <<Atom("call")>>)
             y == Header("cseq", <<Atom(<<7, "INVITE">>)>>)
             o == Optional(c.target, Header("contact", <<URI(c.target)>>))
  <1>0. HasPieces(P, c)
    <2>1. HasPieces(PiecesOf(c), c)
      BY CallPieces
    <2>2. QED
      BY <2>1
  <1> HIDE DEF P
  <1>1. /\ URI(Self) \in P /\ URI(Peer) \in P /\ URI(c.target) \in P
        /\ Parameter("tag", c.tag) \in P /\ Atom("call") \in P
        /\ Atom(<<7, "INVITE">>) \in P /\ Atom(1) \in P
        /\ \A u \in Range(c.path) : URI(u) \in P
    BY <1>0 DEF HasPieces
  <1>2. l \in Seq(Seq(P)) /\ Len(l) = Len(c.path)
        /\ (\A i \in 1 .. Len(c.path) : l[i] = <<URI(c.path[i])>>)
        /\ \A i \in 1 .. Len(l) : l[i] # <<>>
    BY <1>1, CallLinks
  <1>3. {"via", "from", "to", "call-id", "cseq"} \subseteq FullNames \ {"content-length"}
    BY DEF FullNames
  <1>4. v \in Sent(P) /\ b \in Sent(P) /\ x \in Sent(P) /\ y \in Sent(P)
    BY <1>1, <1>3, SentHeader
  <1>5. a \in Sent(P)
    BY <1>1, <1>3, TheirEnd
  <1>6. v.name = "via" /\ a.name = "from" /\ b.name = "to" /\ x.name = "call-id" /\ y.name = "cseq"
        /\ a.value = end /\ b.value = <<URI(Self)>> /\ x.value = <<Atom("call")>>
        /\ y.value = <<Atom(<<7, "INVITE">>)>>
    BY NameIs
  <1>7. m.headers = TheirList(l, l, <<v, a, b, x, y>>, o) /\ m.body = <<"s">>
        /\ m.start = [method |-> "INVITE", uri |-> Self]
    <2>1. c.path \in Seq(Range(c.path))
      BY CallsAssumption
    <2>2. DOMAIN c.path = 1 .. Len(c.path) /\ DOMAIN l = 1 .. Len(c.path)
      BY <1>2, <2>1
    <2>3. RecordRoutes(c.path) = ListOf("record-route", l)
      BY <2>2 DEF RecordRoutes, ListOf, Links
    <2>4. [i \in DOMAIN c.path |-> Header("via", <<URI(c.path[i])>>)] = ListOf("via", l)
      BY <2>2 DEF ListOf, Links
    <2>5. QED
      BY <2>3, <2>4 DEF TheirInvite, TheirList
  <1>8. m.start # Bad
    <2>1. Bad \notin [method : {"INVITE", "ACK", "BYE"}, uri : {Self, c.target}]
      BY CallsAssumption
    <2>2. QED
      BY <1>7, <2>1
  <1> HIDE DEF v, a, b, x, y, m, l, end
  <1>9. IsTheirs(m, c, P, l, l, v, a, b, x, y)
    <2>1. ArePut(P, l, l, v, a, b, x, y, c.target)
      BY <1>1, <1>2, <1>4, <1>5, <1>6 DEF ArePut
    <2>2. QED
      BY <1>1, <1>7, <1>8, <2>1 DEF IsTheirs
  <1>10. SaysOfCall(ParseMessage(Written(m, c)), m, c, P, l, a, b, x, y)
    BY <1>9, TheirsRead
  <1> DEFINE r == ParseMessage(Written(m, c))
  <1> HIDE DEF r
  <1>11. SaysOfCall(r, m, c, P, l, a, b, x, y)
    BY <1>10 DEF r
  <1>12. QED
    BY <1>6, <1>11 DEF SaysOfCall, r, m, l, end, P

\* A sequence reversed, and reversed again.
LEMMA Reversed ==
  ASSUME NEW S, NEW s \in Seq(S)
  PROVE  /\ Reverse(s) \in Seq(S) /\ Len(Reverse(s)) = Len(s)
         /\ \A i \in 1 .. Len(s) : Reverse(s)[i] = s[(Len(s) - i) + 1]
         /\ Reverse(Reverse(s)) = s
  <1>1. \A w \in Seq(S) : Reverse(w) \in Seq(S) /\ Len(Reverse(w)) = Len(w)
                          /\ \A i \in 1 .. Len(w) : Reverse(w)[i] = w[(Len(w) - i) + 1]
    <2> SUFFICES ASSUME NEW w \in Seq(S)
                 PROVE  Reverse(w) \in Seq(S) /\ Len(Reverse(w)) = Len(w)
                        /\ \A i \in 1 .. Len(w) : Reverse(w)[i] = w[(Len(w) - i) + 1]
      OBVIOUS
    <2> DEFINE f == [i \in 1 .. Len(w) |-> w[(Len(w) - i) + 1]]
    <2>1. Reverse(w) = f
      BY DEF Reverse
    <2>2. Len(w) \in Nat /\ \A i \in 1 .. Len(w) : (Len(w) - i) + 1 \in 1 .. Len(w)
      OBVIOUS
    <2>3. f \in [1 .. Len(w) -> S]
      BY <2>2
    <2>4. \A i \in 1 .. Len(w) : f[i] = w[(Len(w) - i) + 1]
      OBVIOUS
    <2> HIDE DEF f
    <2>5. f \in Seq(S) /\ Len(f) = Len(w)
      BY <2>2, <2>3, FunctionIsSeq
    <2>6. QED
      BY <2>1, <2>4, <2>5
  <1> DEFINE t == Reverse(s)
             u == Reverse(t)
  <1>2. t \in Seq(S) /\ Len(t) = Len(s) /\ \A i \in 1 .. Len(s) : t[i] = s[(Len(s) - i) + 1]
    BY <1>1
  <1> HIDE DEF t
  <1>3. u \in Seq(S) /\ Len(u) = Len(s) /\ \A i \in 1 .. Len(s) : u[i] = t[(Len(s) - i) + 1]
    BY <1>1, <1>2
  <1> HIDE DEF u
  <1>4. \A i \in 1 .. Len(u) : u[i] = s[i]
    <2> SUFFICES ASSUME NEW i \in 1 .. Len(s) PROVE u[i] = s[i]
      BY <1>3
    <2> DEFINE j == (Len(s) - i) + 1
    <2>1. j \in 1 .. Len(s) /\ (Len(s) - j) + 1 = i
      OBVIOUS
    <2> HIDE DEF j
    <2>2. t[j] = s[i]
      BY <1>2, <2>1
    <2>3. QED
      BY <1>3, <2>2 DEF j
  <1>5. u = s
    BY <1>3, <1>4, SameSeq
  <1>6. QED
    BY <1>2, <1>5 DEF t, u

\* The routes of a reversed path are the path's, reversed.
LEMMA LinksReversed ==
  ASSUME NEW c \in Calls, NEW P, \A u \in Range(c.path) : URI(u) \in P
  PROVE  LET l == Links(Reverse(c.path))
         IN  /\ l \in Seq(Seq(P)) /\ \A i \in 1 .. Len(l) : l[i] # <<>>
             /\ DOMAIN l = DOMAIN Reverse(c.path)
             /\ Reverse(l) = Links(c.path)
  <1> DEFINE S == Range(c.path)
             s == c.path
             t == Reverse(s)
             l == Links(t)
             k == Links(s)
             V == Seq(P)
  <1>1. s \in Seq(S) /\ \A u \in S : URI(u) \in P
    BY CallsAssumption
  <1>2. k \in Seq(V) /\ Len(k) = Len(s) /\ \A i \in 1 .. Len(s) : k[i] = <<URI(s[i])>>
    BY CallLinks
  <1> HIDE DEF S, s, k
  <1>3. t \in Seq(S) /\ Len(t) = Len(s) /\ \A i \in 1 .. Len(s) : t[i] = s[(Len(s) - i) + 1]
    BY <1>1, Reversed
  <1> HIDE DEF t
  <1>4. l \in Seq(V) /\ Len(l) = Len(t) /\ \A i \in 1 .. Len(t) : l[i] = <<URI(t[i])>>
    BY <1>1, <1>3, LinksAre
  <1> HIDE DEF l, V
  <1> DEFINE r == Reverse(l)
  <1>5. r \in Seq(V) /\ Len(r) = Len(l) /\ \A i \in 1 .. Len(l) : r[i] = l[(Len(l) - i) + 1]
    BY <1>4, Reversed
  <1> HIDE DEF r
  <1>6. \A i \in 1 .. Len(r) : r[i] = k[i]
    <2> SUFFICES ASSUME NEW i \in 1 .. Len(s) PROVE r[i] = k[i]
      BY <1>3, <1>4, <1>5
    <2> DEFINE j == (Len(s) - i) + 1
    <2>1. Len(s) \in Nat /\ j \in 1 .. Len(s) /\ (Len(s) - j) + 1 = i
      BY <1>1
    <2> HIDE DEF j
    <2>2. r[i] = l[j]
      BY <1>3, <1>4, <1>5 DEF j
    <2>3. l[j] = <<URI(t[j])>> /\ t[j] = s[i]
      BY <1>3, <1>4, <2>1
    <2>4. k[i] = <<URI(s[i])>>
      BY <1>2
    <2>5. QED
      BY <2>2, <2>3, <2>4
  <1>7. r = k
    BY <1>2, <1>3, <1>4, <1>5, <1>6, SameSeq
  <1>8. DOMAIN l = DOMAIN t
    BY <1>3, <1>4
  <1>9. \A i \in 1 .. Len(l) : l[i] # <<>>
    <2>1. \A x : <<x>> # <<>>
      OBVIOUS
    <2>2. QED
      BY <1>4, <2>1
  <1>10. QED
    BY <1>4, <1>7, <1>8, <1>9 DEF l, r, k, t, s, V

\* The far end's 200 is read as it was meant, the routes from ngntun's side.
LEMMA OkIsRead ==
  ASSUME NEW c \in Calls
  PROVE  LET r == ParseMessage(Written(Their200(c), c))
         IN  /\ r.body = <<"s">> /\ RoutesOfCaller(r) = Links(c.path)
             /\ Get(r.headers, "to") = <<URI(Peer)>> \o TheirTag(c.tag)
             /\ URIInAngle(Get(r.headers, "contact")) = c.target
  <1> DEFINE P == PiecesOf(c)
             l == Links(Reverse(c.path))
             m == Their200(c)
             end == <<URI(Peer)>> \o TheirTag(c.tag)
             v == Header("via", OurVia)
             a == Header("from", OurFrom)
             b == Header("to", end)
             x == Header("call-id", <<Atom("call")>>)
             y == Header("cseq", <<Atom(<<1, "INVITE">>)>>)
             o == Optional(c.target, Header("contact", <<URI(c.target)>>))
  <1>0. HasPieces(P, c)
    BY CallPieces
  <1> HIDE DEF P
  <1>1. /\ URI(Self) \in P /\ URI(Peer) \in P /\ URI(c.target) \in P
        /\ URI(FormatURI(None, Us)) \in P /\ Parameter("tag", "ours") \in P
        /\ Parameter("tag", c.tag) \in P /\ Atom("call") \in P
        /\ Atom(<<1, "INVITE">>) \in P /\ Atom(1) \in P
        /\ \A u \in Range(c.path) : URI(u) \in P
    BY <1>0 DEF HasPieces
  <1>2. l \in Seq(Seq(P)) /\ (\A i \in 1 .. Len(l) : l[i] # <<>>)
        /\ DOMAIN l = DOMAIN Reverse(c.path) /\ Reverse(l) = Links(c.path)
    BY <1>1, LinksReversed
  <1>3. {"via", "from", "to", "call-id", "cseq"} \subseteq FullNames \ {"content-length"}
    BY DEF FullNames
  <1>4. v \in Sent(P) /\ a \in Sent(P) /\ x \in Sent(P) /\ y \in Sent(P)
    BY <1>1, <1>3, SentHeader DEF OurVia, OurFrom
  <1>5. b \in Sent(P)
    BY <1>1, <1>3, TheirEnd
  <1>6. v.name = "via" /\ a.name = "from" /\ b.name = "to" /\ x.name = "call-id" /\ y.name = "cseq"
        /\ b.value = end
    BY NameIs
  <1>7. m.headers = TheirList(l, <<>>, <<v, a, b, x, y>>, o) /\ m.body = <<"s">>
        /\ m.start = [status |-> 200]
    <2> DEFINE R == ListOf("record-route", l)
               F == <<v, a, b, x, y>>
    <2>1. RecordRoutes(Reverse(c.path)) = R
      BY <1>2 DEF RecordRoutes, ListOf, Links
    <2>2. Get(OurInvite.headers, "via") = OurVia /\ Get(OurInvite.headers, "from") = OurFrom
      BY OurInviteSays
    <2>3. ListOf("via", <<>>) = <<>>
      BY DEF ListOf
    <2>4. R \o <<>> = R
      <3>1. R \in Seq(Sent(P))
        <4>1. "record-route" \in FullNames \ {"content-length"}
          BY DEF FullNames
        <4>2. QED
          BY <1>2, <4>1, ListOfSent
      <3>2. QED
        BY <3>1
    <2>5. m.headers = (R \o F) \o o /\ m.body = <<"s">> /\ m.start = [status |-> 200]
      BY <2>1, <2>2 DEF Their200
    <2> HIDE DEF m, F, o
    <2>6. TheirList(l, <<>>, F, o) = (R \o F) \o o
      BY <2>3, <2>4 DEF TheirList
    <2>7. QED
      BY <2>5, <2>6 DEF F
  <1>8. m.start # Bad
    <2>1. Bad \notin [status : Nat] /\ [status |-> 200] \in [status : Nat]
      BY CallsAssumption
    <2>2. QED
      BY <1>7, <2>1
  <1> HIDE DEF v, a, b, x, y, m, l, end
  <1>9. IsTheirs(m, c, P, l, <<>>, v, a, b, x, y)
    <2>1. <<>> \in Seq(Seq(P)) /\ \A i \in 1 .. Len(<<>>) : <<>>[i] # <<>>
      OBVIOUS
    <2>2. ArePut(P, l, <<>>, v, a, b, x, y, c.target)
      BY <1>1, <1>2, <1>4, <1>5, <1>6, <2>1 DEF ArePut
    <2>3. QED
      BY <1>1, <1>7, <1>8, <2>2 DEF IsTheirs
  <1>10. SaysOfCall(ParseMessage(Written(m, c)), m, c, P, l, a, b, x, y)
    BY <1>9, TheirsRead
  <1> DEFINE r == ParseMessage(Written(m, c))
  <1> HIDE DEF r
  <1>11. SaysOfCall(r, m, c, P, l, a, b, x, y)
    BY <1>10 DEF r
  <1>12. QED
    BY <1>2, <1>6, <1>11 DEF SaysOfCall, RoutesOfCaller, r, m, l, end

\* The dialog of a call placed, and of a call accepted: both are the far
\* end's, or refused when it names no tag or no Contact.
LEMMA CallerDialog ==
  ASSUME NEW c \in Calls
  PROVE  LET m == ParseMessage(Written(Their200(c), c))
             d == NewDialogUAC(OurInvite, m, "call", "ours", Self, Peer)
             known == Given(c.tag) /\ Given(c.target)
         IN  /\ m.body = <<"s">>
             /\ Usable(Get(m.headers, "to"), m) <=> known
             /\ IF known THEN IsDialog(d, c) /\ d.cseq = 1 ELSE d = Failed
  <1> DEFINE m == ParseMessage(Written(Their200(c), c))
             remote == Get(m.headers, "to")
             contact == URIInAngle(Get(m.headers, "contact"))
             tag == Param(remote, "tag")
             d == NewDialogUAC(OurInvite, m, "call", "ours", Self, Peer)
             n == CSeq(OurInvite)[1]
             known == Given(c.tag) /\ Given(c.target)
  <1>1. m.body = <<"s">> /\ RoutesOfCaller(m) = Links(c.path)
        /\ remote = <<URI(Peer)>> \o TheirTag(c.tag) /\ contact = c.target
    BY OkIsRead
  <1> HIDE DEF m
  <1>2. tag = c.tag
    BY <1>1, Theirs
  <1>3. n = 1
    BY OurInviteSays
  <1> HIDE DEF n
  <1>4. Usable(remote, m) <=> known
    BY <1>1, <1>2 DEF Usable
  <1>5. CASE known
    <2>1. d = [callID |-> "call", localTag |-> "ours", remoteTag |-> tag, localURI |-> Self,
               remoteURI |-> Peer, remoteTarget |-> contact, routeSet |-> RoutesOfCaller(m),
               cseq |-> n]
      BY <1>4, <1>5 DEF NewDialogUAC, n
    <2> HIDE DEF d, tag, contact, remote
    <2>2. IsDialog(d, c) /\ d.cseq = 1
      BY <1>1, <1>2, <1>3, <2>1 DEF IsDialog
    <2>3. QED
      BY <1>1, <1>4, <1>5, <2>2 DEF m, d, remote
  <1>6. CASE ~known
    <2>1. d = Failed
      BY <1>4, <1>6 DEF NewDialogUAC
    <2>2. QED
      BY <1>1, <1>4, <1>6, <2>1 DEF m
  <1>7. QED
    BY <1>5, <1>6

LEMMA CalleeDialog ==
  ASSUME NEW c \in Calls
  PROVE  LET m == ParseMessage(Written(TheirInvite(c), c))
             d == AcceptDialog(m, "ours")
             known == Given(c.tag) /\ Given(c.target)
         IN  /\ m.body = <<"s">>
             /\ Usable(Get(m.headers, "from"), m) <=> known
             /\ IF known THEN IsDialog(d, c) /\ d.cseq = 7 ELSE d = Failed
  <1> DEFINE m == ParseMessage(Written(TheirInvite(c), c))
             remote == Get(m.headers, "from")
             contact == URIInAngle(Get(m.headers, "contact"))
             tag == Param(remote, "tag")
             d == AcceptDialog(m, "ours")
             id == AtomOf(Get(m.headers, "call-id"))
             self == URIInAngle(Get(m.headers, "to"))
             peer == URIInAngle(remote)
             routes == Values(m.headers, "record-route")
             n == CSeq(m)[1]
             known == Given(c.tag) /\ Given(c.target)
  <1>1. /\ m.body = <<"s">> /\ routes = Links(c.path)
        /\ remote = <<URI(Peer)>> \o TheirTag(c.tag) /\ contact = c.target
        /\ Get(m.headers, "to") = <<URI(Self)>> /\ Get(m.headers, "call-id") = <<Atom("call")>>
        /\ Get(m.headers, "cseq") = <<Atom(<<7, "INVITE">>)>>
    BY InviteIsRead
  <1> HIDE DEF m
  <1>2. tag = c.tag /\ peer = Peer
    BY <1>1, Theirs
  <1>3. n = 7 /\ id = "call" /\ self = Self
    <2>1. CSeq(m) = <<7, "INVITE">>
      BY <1>1, PiecesRead DEF CSeq
    <2>2. QED
      BY <1>1, <2>1, PiecesRead
  <1> HIDE DEF n
  <1>4. Usable(remote, m) <=> known
    BY <1>1, <1>2 DEF Usable
  <1>5. CASE known
    <2>1. d = [callID |-> id, localTag |-> "ours", remoteTag |-> tag, localURI |-> self,
               remoteURI |-> peer, remoteTarget |-> contact, routeSet |-> routes, cseq |-> n]
      BY <1>4, <1>5 DEF AcceptDialog, n
    <2> HIDE DEF d, tag, contact, remote, id, self, peer, routes
    <2>2. IsDialog(d, c) /\ d.cseq = 7
      BY <1>1, <1>2, <1>3, <2>1 DEF IsDialog
    <2>3. QED
      BY <1>1, <1>4, <1>5, <2>2 DEF m, d, remote
  <1>6. CASE ~known
    <2>1. d = Failed
      BY <1>4, <1>6 DEF AcceptDialog
    <2>2. QED
      BY <1>1, <1>4, <1>6, <2>1 DEF m
  <1>7. QED
    BY <1>5, <1>6

\* The 200 goes back the way the INVITE came, with ngntun's tag.
LEMMA OkGoesBack ==
  ASSUME NEW c \in Calls
  PROVE  LET m == ParseMessage(Written(TheirInvite(c), c))
             ok == ResponseTo(m, 200, "ours")
         IN  /\ Values(ok.headers, "via") = Values(TheirInvite(c).headers, "via")
             /\ Param(Get(ok.headers, "to"), "tag") = "ours"
  <1> DEFINE P == PiecesOf(c)
             H == HeadersOf(FullNames, P)
             m == ParseMessage(Written(TheirInvite(c), c))
             ok == ResponseTo(m, 200, "ours")
             via == Values(m.headers, "via")
             end == <<URI(Peer)>> \o TheirTag(c.tag)
             to == <<URI(Self), Parameter("tag", "ours")>>
             V == ListOf("via", via)
             a == Header("from", end)
             b == Header("to", to)
             x == Header("call-id", <<Atom("call")>>)
             y == Header("cseq", <<Atom(<<7, "INVITE">>)>>)
             F == <<a, b, x, y>>
  <1>0. HasPieces(P, c)
    BY CallPieces
  <1>1. /\ Get(m.headers, "from") = end /\ Get(m.headers, "to") = <<URI(Self)>>
        /\ Get(m.headers, "call-id") = <<Atom("call")>>
        /\ Get(m.headers, "cseq") = <<Atom(<<7, "INVITE">>)>>
        /\ via = Values(TheirInvite(c).headers, "via") /\ via \in Seq(Seq(P))
    BY InviteIsRead
  <1> HIDE DEF P, m
  <1>2. /\ URI(Self) \in P /\ URI(Peer) \in P /\ Parameter("tag", c.tag) \in P
        /\ Parameter("tag", "ours") \in P /\ Atom("call") \in P /\ Atom(<<7, "INVITE">>) \in P
    BY <1>0 DEF HasPieces
  <1>3. {"via", "from", "to", "call-id", "cseq"} \subseteq FullNames \ {"content-length"}
    BY DEF FullNames
  <1>4. a \in Sent(P) /\ b \in Sent(P) /\ x \in Sent(P) /\ y \in Sent(P)
    <2>1. b \in Sent(P) /\ x \in Sent(P) /\ y \in Sent(P)
      BY <1>2, <1>3, SentHeader
    <2>2. a \in Sent(P)
      BY <1>2, <1>3, TheirEnd
    <2>3. QED
      BY <2>1, <2>2
  <1>5. Sent(P) \subseteq H
    BY DEF Sent, HeadersOf
  <1>6. a.name = "from" /\ b.name = "to" /\ x.name = "call-id" /\ y.name = "cseq" /\ b.value = to
    BY NameIs
  <1>7. ok.headers = V \o F
    <2>1. Param(<<URI(Self)>>, "tag") = None
      BY PiecesRead
    <2>2. Given("ours")
      <3>1. "ours" \in Words
        BY DEF Words
      <3>2. QED
        BY <3>1, CallsAssumption DEF Given
    <2>3. <<URI(Self)>> \o <<Parameter("tag", "ours")>> = to
      BY PairJoined
    <2> DEFINE t == Get(m.headers, "to")
               tag == IF Param(t, "tag") = None /\ Given("ours")
                      THEN <<Parameter("tag", "ours")>> ELSE <<>>
    <2>4. t \o tag = to
      BY <1>1, <2>1, <2>2, <2>3
    <2>5. ok.headers = [i \in DOMAIN via |-> Header("via", via[i])]
                         \o <<Header("from", Get(m.headers, "from")), Header("to", t \o tag),
                              Header("call-id", Get(m.headers, "call-id")),
                              Header("cseq", Get(m.headers, "cseq"))>>
      BY DEF ResponseTo
    <2> HIDE DEF via, t, tag, ok
    <2>6. QED
      BY <1>1, <2>4, <2>5 DEF ListOf
  <1> HIDE DEF a, b, x, y, H, via, ok
  <1>8. \A name \in FullNames :
           /\ Values(V, name) = IF name = "via" THEN via ELSE <<>>
           /\ V \in Seq(H)
    BY <1>1, <1>3, ListOfRead DEF H
  <1>9. \A name \in FullNames : /\ F \in Seq(H) /\ (name = "via" => Values(F, name) = <<>>)
                                /\ (name = "to" => Values(F, name) = <<to>>)
    <2> SUFFICES ASSUME NEW name \in FullNames
                 PROVE  /\ F \in Seq(H) /\ (name = "via" => Values(F, name) = <<>>)
                        /\ (name = "to" => Values(F, name) = <<to>>)
      OBVIOUS
    <2>1. a \in H /\ b \in H /\ x \in H /\ y \in H
      BY <1>4, <1>5
    <2>2. /\ F \in Seq(H)
          /\ name \notin {"from", "to", "call-id", "cseq"} => Values(F, name) = <<>>
          /\ name = "from" => Values(F, name) = <<a.value>>
          /\ name = "to" => Values(F, name) = <<b.value>>
          /\ name = "call-id" => Values(F, name) = <<x.value>>
          /\ name = "cseq" => Values(F, name) = <<y.value>>
      <3>1. ASSUME NEW e \in H, NEW f \in H, NEW g \in H, NEW h \in H,
                   e.name = "from", f.name = "to", g.name = "call-id", h.name = "cseq"
            PROVE  LET hs == <<e, f, g, h>>
                   IN  /\ hs \in Seq(H)
                       /\ name \notin {"from", "to", "call-id", "cseq"} => Values(hs, name) = <<>>
                       /\ name = "from" => Values(hs, name) = <<e.value>>
                       /\ name = "to" => Values(hs, name) = <<f.value>>
                       /\ name = "call-id" => Values(hs, name) = <<g.value>>
                       /\ name = "cseq" => Values(hs, name) = <<h.value>>
        BY <3>1, FourRead DEF H
      <3>2. QED
        BY <1>6, <2>1, <3>1, ZenonT(30)
    <2>3. name = "via" => Values(F, name) = <<>>
      BY <2>2
    <2> HIDE DEF F
    <2>4. QED
      BY <1>6, <2>2, <2>3
  <1> HIDE DEF V, F
  <1>10. ASSUME NEW name \in FullNames, NEW s \in Seq(H), NEW t \in Seq(H)
         PROVE  Values(s \o t, name) = Values(s, name) \o Values(t, name)
    BY ListRead DEF H
  <1>11. \A name \in {"via", "to"} :
            Values(ok.headers, name) = Values(V, name) \o Values(F, name)
    <2> SUFFICES ASSUME NEW name \in {"via", "to"}
                 PROVE  Values(ok.headers, name) = Values(V, name) \o Values(F, name)
      OBVIOUS
    <2>1. name \in FullNames
      BY <1>3
    <2>2. V \in Seq(H) /\ F \in Seq(H)
      BY <1>8, <1>9, <2>1
    <2>3. Values(V \o F, name) = Values(V, name) \o Values(F, name)
      BY <1>10, <2>1, <2>2
    <2>4. QED
      BY <1>7, <2>3
  <1>12. Values(ok.headers, "via") = via
    <2>1. Values(V, "via") = via /\ Values(F, "via") = <<>>
      BY <1>3, <1>8, <1>9
    <2>2. via \o <<>> = via
      BY <1>1
    <2>3. QED
      BY <1>11, <2>1, <2>2
  <1>13. Get(ok.headers, "to") = to
    <2>1. Values(V, "to") = <<>> /\ Values(F, "to") = <<to>>
      BY <1>3, <1>8, <1>9
    <2>2. \A z : <<>> \o <<z>> = <<z>>
      OBVIOUS
    <2>3. Values(ok.headers, "to") = <<to>>
      BY <1>11, <2>1, <2>2
    <2>4. QED
      BY <2>3, SMTT(30) DEF Get
  <1>14. QED
    BY <1>1, <1>12, <1>13, PiecesRead DEF ok, m

\* The pieces of a response that opens no dialog, and of what answers it.
PiecesOfResponse(r) ==
    {URI(Self), URI(Peer), URI(FormatURI(None, Us)), URI(r.contact),
     Parameter("tag", "ours"), Parameter("tag", r.tag),
     Atom("call"), Atom(r.require), Atom(r.rseq), Atom(0),
     Atom(<<1, "ACK">>), Atom(<<2, "PRACK">>), Atom(<<r.rseq, 1, "INVITE">>)}

HasPiecesOfResponse(P, r) ==
    /\ URI(Self) \in P /\ URI(Peer) \in P /\ URI(FormatURI(None, Us)) \in P
    /\ URI(r.contact) \in P
    /\ Parameter("tag", "ours") \in P /\ Parameter("tag", r.tag) \in P
    /\ Atom("call") \in P /\ Atom(r.require) \in P /\ Atom(r.rseq) \in P /\ Atom(0) \in P
    /\ Atom(<<1, "ACK">>) \in P /\ Atom(<<2, "PRACK">>) \in P
    /\ Atom(<<r.rseq, 1, "INVITE">>) \in P

\* The pieces are those that the response and its requests need.
LEMMA ResponsePieces == ASSUME NEW r PROVE HasPiecesOfResponse(PiecesOfResponse(r), r)
  BY DEF HasPiecesOfResponse, PiecesOfResponse

\* A response that opens no dialog is read as it was meant.
LEMMA ResponseIsRead ==
  ASSUME NEW r
  PROVE  LET m == ParseMessage(MarshalMessage(TheirResponse(r)))
         IN  /\ Get(m.headers, "to") = <<URI(Peer)>> \o TheirTag(r.tag)
             /\ AtomOf(Get(m.headers, "require")) = r.require
             /\ AtomOf(Get(m.headers, "rseq")) = r.rseq
  <1> DEFINE P == PiecesOfResponse(r)
             H == HeadersOf(FullNames, P)
             NL == FullNames \ {"content-length"}
             m == TheirResponse(r)
             end == <<URI(Peer)>> \o TheirTag(r.tag)
             h == Header("to", end)
             T == <<h>>
             A == Optional(r.contact, Header("contact", <<URI(r.contact)>>))
             B == Optional(r.require, Header("require", <<Atom(r.require)>>))
             C == Optional(r.rseq, Header("rseq", <<Atom(r.rseq)>>))
  <1>0. HasPiecesOfResponse(P, r)
    BY ResponsePieces
  <1> HIDE DEF P
  <1>1. /\ URI(Peer) \in P /\ Parameter("tag", r.tag) \in P /\ URI(r.contact) \in P
        /\ Atom(r.require) \in P /\ Atom(r.rseq) \in P /\ Atom(0) \in P
    BY <1>0 DEF HasPiecesOfResponse
  <1>2. {"to", "contact", "require", "rseq"} \subseteq NL /\ NL \subseteq FullNames
    BY DEF FullNames
  <1>3. Sent(P) \subseteq H
    BY DEF Sent, HeadersOf
  <1>4. h \in Sent(P) /\ h.name = "to" /\ h.value = end
    BY <1>1, <1>2, TheirEnd, NameIs
  <1>5. T \in Seq(Sent(P))
        /\ \A k \in FullNames : Values(T, k) = IF k = "to" THEN <<end>> ELSE <<>>
    <2>1. h \in H
      BY <1>3, <1>4
    <2> HIDE DEF h, end
    <2>2. \A k \in FullNames : Values(T, k) = IF h.name = k THEN <<h.value>> ELSE <<>>
      BY <2>1, OneRead DEF H
    <2> HIDE DEF H
    <2>3. T \in Seq(Sent(P))
      BY <1>4
    <2>4. QED
      BY <1>4, <2>2, <2>3
  <1>6. A \in Seq(Sent(P))
        /\ \A k \in FullNames : Values(A, k) = IF k = "contact" /\ Given(r.contact)
                                               THEN <<<<URI(r.contact)>>>> ELSE <<>>
    BY <1>1, <1>2, OptionalRead
  <1>7. B \in Seq(Sent(P))
        /\ \A k \in FullNames : Values(B, k) = IF k = "require" /\ Given(r.require)
                                               THEN <<<<Atom(r.require)>>>> ELSE <<>>
    BY <1>1, <1>2, OptionalRead
  <1>8. C \in Seq(Sent(P))
        /\ \A k \in FullNames : Values(C, k) = IF k = "rseq" /\ Given(r.rseq)
                                               THEN <<<<Atom(r.rseq)>>>> ELSE <<>>
    BY <1>1, <1>2, OptionalRead
  <1>9. m.headers = ((T \o A) \o B) \o C /\ m.start = [status |-> 183] /\ m.body = <<>>
    BY DEF TheirResponse
  <1> HIDE DEF m, T, A, B, C, H
  <1> DEFINE hs == m.headers
  <1>10. hs \in Seq(Sent(P))
    BY <1>5, <1>6, <1>7, <1>8, <1>9
  <1>11. ASSUME NEW k \in FullNames
         PROVE  Values(hs, k) = ((Values(T, k) \o Values(A, k)) \o Values(B, k)) \o Values(C, k)
    <2>1. T \in Seq(H) /\ A \in Seq(H) /\ B \in Seq(H) /\ C \in Seq(H)
      BY <1>3, <1>5, <1>6, <1>7, <1>8
    <2>2. ASSUME NEW s \in Seq(H), NEW t \in Seq(H)
          PROVE  s \o t \in Seq(H) /\ Values(s \o t, k) = Values(s, k) \o Values(t, k)
      <3>1. Values(s \o t, k) = Values(s, k) \o Values(t, k)
        BY ListRead DEF H
      <3>2. QED
        BY <3>1
    <2> DEFINE TA == T \o A
               TAB == TA \o B
    <2>3. TA \in Seq(H) /\ Values(TA, k) = Values(T, k) \o Values(A, k)
      BY <2>1, <2>2
    <2> HIDE DEF TA
    <2>4. TAB \in Seq(H) /\ Values(TAB, k) = Values(TA, k) \o Values(B, k)
      BY <2>1, <2>2, <2>3
    <2> HIDE DEF TAB
    <2>5. Values(TAB \o C, k) = Values(TAB, k) \o Values(C, k)
      BY <2>1, <2>2, <2>4
    <2>6. QED
      BY <1>9, <2>3, <2>4, <2>5 DEF TA, TAB
  <1> DEFINE got == ParseMessage(MarshalMessage(m))
  <1>12. IsSent(m, Plain, P, {})
    <2>1. m.start # Bad
      <3>1. Bad \notin [status : Nat] /\ [status |-> 183] \in [status : Nat]
        BY CallsAssumption
      <3>2. QED
        BY <1>9, <3>1
    <2>2. Len(m.body) = 0 /\ m.body \in Seq({}) /\ Plain.spare \in Seq({})
      BY <1>9 DEF Plain
    <2>3. QED
      BY <1>1, <1>10, <2>1, <2>2 DEF IsSent
  <1>13. \A k \in NL : Values(got.headers, k) = Values(hs, k)
    BY <1>12, SentIsRead
  <1> HIDE DEF got, hs
  <1>14. /\ \A z : (((<<>> \o <<>>) \o <<>>) \o <<z>>) = <<z>>
         /\ \A z : (((<<>> \o <<>>) \o <<z>>) \o <<>>) = <<z>>
         /\ \A z : (((<<z>> \o <<>>) \o <<>>) \o <<>>) = <<z>>
         /\ ((<<>> \o <<>>) \o <<>>) \o <<>> = <<>>
    OBVIOUS
  <1>15. Get(got.headers, "to") = end
    <2> DEFINE k == "to"
               t == Values(T, k)
               a == Values(A, k)
               b == Values(B, k)
               e == Values(C, k)
    <2>1. k \in NL /\ k \in FullNames
      BY <1>2
    <2>2. t = <<end>> /\ a = <<>> /\ b = <<>> /\ e = <<>>
      BY <1>5, <1>6, <1>7, <1>8, <2>1
    <2>3. Values(got.headers, k) = ((t \o a) \o b) \o e
      BY <1>11, <1>13, <2>1
    <2> HIDE DEF t, a, b, e, k, end
    <2>4. Values(got.headers, k) = <<end>>
      BY <1>14, <2>2, <2>3
    <2>5. QED
      BY <2>4 DEF k, Get
  <1>16. AtomOf(Get(got.headers, "require")) = r.require
    <2> DEFINE k == "require"
               t == Values(T, k)
               a == Values(A, k)
               b == Values(B, k)
               e == Values(C, k)
    <2>1. k \in NL /\ k \in FullNames
      BY <1>2
    <2>2. t = <<>> /\ a = <<>> /\ e = <<>>
          /\ b = IF Given(r.require) THEN <<<<Atom(r.require)>>>> ELSE <<>>
      BY <1>5, <1>6, <1>7, <1>8, <2>1
    <2>3. Values(got.headers, k) = ((t \o a) \o b) \o e
      BY <1>11, <1>13, <2>1
    <2> HIDE DEF t, a, b, e, k
    <2>4. Values(got.headers, k) = IF Given(r.require) THEN <<<<Atom(r.require)>>>> ELSE <<>>
      BY <1>14, <2>2, <2>3
    <2>5. Get(got.headers, k) = IF Given(r.require) THEN <<Atom(r.require)>> ELSE <<>>
      BY <2>4 DEF Get
    <2>6. QED
      BY <2>5, Theirs DEF k
  <1>17. AtomOf(Get(got.headers, "rseq")) = r.rseq
    <2> DEFINE k == "rseq"
               t == Values(T, k)
               a == Values(A, k)
               b == Values(B, k)
               e == Values(C, k)
    <2>1. k \in NL /\ k \in FullNames
      BY <1>2
    <2>2. t = <<>> /\ a = <<>> /\ b = <<>>
          /\ e = IF Given(r.rseq) THEN <<<<Atom(r.rseq)>>>> ELSE <<>>
      BY <1>5, <1>6, <1>7, <1>8, <2>1
    <2>3. Values(got.headers, k) = ((t \o a) \o b) \o e
      BY <1>11, <1>13, <2>1
    <2> HIDE DEF t, a, b, e, k
    <2>4. Values(got.headers, k) = IF Given(r.rseq) THEN <<<<Atom(r.rseq)>>>> ELSE <<>>
      BY <1>14, <2>2, <2>3
    <2>5. Get(got.headers, k) = IF Given(r.rseq) THEN <<Atom(r.rseq)>> ELSE <<>>
      BY <2>4 DEF Get
    <2>6. QED
      BY <2>5, Theirs DEF k
  <1>18. QED
    BY <1>15, <1>16, <1>17 DEF got, m

\* The ACK of a refusal has the INVITE's branch and the far end's tag.
LEMMA AckOfRefusal ==
  ASSUME NEW r
  PROVE  LET m == ParseMessage(MarshalMessage(TheirResponse(r)))
             ack == AckFailure(OurInvite, m)
         IN  /\ Get(ack.headers, "via") = Get(OurInvite.headers, "via")
             /\ Param(Get(ack.headers, "to"), "tag") = r.tag
  <1> DEFINE P == PiecesOfResponse(r)
             H == HeadersOf(FullNames, P)
             m == ParseMessage(MarshalMessage(TheirResponse(r)))
             ack == AckFailure(OurInvite, m)
             hs == ack.headers
             end == <<URI(Peer)>> \o TheirTag(r.tag)
             a == Header("via", OurVia)
             b == Header("from", OurFrom)
             d == Header("to", end)
             e == Header("call-id", <<Atom("call")>>)
             f == Header("cseq", <<Atom(<<1, "ACK">>)>>)
  <1>0. HasPiecesOfResponse(P, r)
    BY ResponsePieces
  <1>1. Get(m.headers, "to") = end
    BY ResponseIsRead
  <1> HIDE DEF P, m
  <1>2. /\ URI(Self) \in P /\ URI(Peer) \in P /\ URI(FormatURI(None, Us)) \in P
        /\ Parameter("tag", "ours") \in P /\ Parameter("tag", r.tag) \in P
        /\ Atom("call") \in P /\ Atom(<<1, "ACK">>) \in P
    BY <1>0 DEF HasPiecesOfResponse
  <1>3. {"via", "from", "to", "call-id", "cseq"} \subseteq FullNames \ {"content-length"}
    BY DEF FullNames
  <1>4. a \in Sent(P) /\ b \in Sent(P) /\ e \in Sent(P) /\ f \in Sent(P)
    BY <1>2, <1>3, SentHeader DEF OurVia, OurFrom
  <1>5. d \in Sent(P)
    BY <1>2, <1>3, TheirEnd
  <1>6. Sent(P) \subseteq H
    BY DEF Sent, HeadersOf
  <1>7. /\ a.name = "via" /\ b.name = "from" /\ d.name = "to" /\ e.name = "call-id"
        /\ f.name = "cseq" /\ a.value = OurVia /\ d.value = end
    BY NameIs
  <1>8. hs = <<a, b, d, e, f>>
    <2>1. CSeq(OurInvite)[1] = 1
      BY OurInviteSays
    <2>2. QED
      BY <1>1, <2>1, OurInviteSays DEF AckFailure
  <1> HIDE DEF a, b, d, e, f, H, hs, end
  <1>9. hs \in Seq(H) /\ Len(hs) = 5 /\ hs[1] = a /\ hs[2] = b /\ hs[3] = d /\ hs[4] = e
        /\ hs[5] = f
    BY <1>4, <1>5, <1>6, <1>8
  <1>10. \A i \in 1 .. Len(hs) : i \in {1, 2, 3, 4, 5}
    BY <1>9
  <1>11. \A i, j \in 1 .. Len(hs) : hs[i].name = hs[j].name => i = j
    BY <1>7, <1>9, <1>10
  <1>12. \A i \in 1 .. Len(hs) : Get(hs, hs[i].name) = hs[i].value
    BY <1>9, <1>11, DistinctRead DEF H
  <1>13. 1 \in 1 .. Len(hs) /\ 3 \in 1 .. Len(hs)
    BY <1>9
  <1>14. Get(hs, "via") = OurVia /\ Get(hs, "to") = end
    BY <1>7, <1>9, <1>12, <1>13
  <1>15. Get(OurInvite.headers, "via") = OurVia
    BY OurInviteSays
  <1>16. Param(end, "tag") = r.tag
    BY Theirs DEF end
  <1>17. QED
    BY <1>14, <1>15, <1>16 DEF hs, m

\* A reliable provisional response has a PRACK of its number, and of a number
\* above the INVITE's.
LEMMA PrackOfResponse ==
  ASSUME NEW r
  PROVE  LET m == ParseMessage(MarshalMessage(TheirResponse(r)))
             prack == MaybePrack(m, OurInvite, Us, "ours")
         IN  IF r.require # "100rel" \/ ~Given(r.rseq) THEN prack = None
             ELSE /\ Get(prack.headers, "rack") = <<Atom(<<r.rseq, 1, "INVITE">>)>>
                  /\ Param(Get(prack.headers, "to"), "tag") = r.tag
                  /\ CSeq(prack)[1] > CSeq(OurInvite)[1]
  <1> DEFINE P == PiecesOfResponse(r)
             H == HeadersOf(FullNames, P)
             m == ParseMessage(MarshalMessage(TheirResponse(r)))
             prack == MaybePrack(m, OurInvite, Us, "ours")
             hs == prack.headers
             end == <<URI(Peer)>> \o TheirTag(r.tag)
             a == Header("via", OurVia)
             b == Header("from", OurFrom)
             d == Header("to", end)
             e == Header("call-id", <<Atom("call")>>)
             f == Header("cseq", <<Atom(<<2, "PRACK">>)>>)
             g == Header("rack", <<Atom(<<r.rseq, 1, "INVITE">>)>>)
             none == r.require # "100rel" \/ ~Given(r.rseq)
  <1>0. HasPiecesOfResponse(P, r)
    BY ResponsePieces
  <1>1. Get(m.headers, "to") = end /\ AtomOf(Get(m.headers, "require")) = r.require
        /\ AtomOf(Get(m.headers, "rseq")) = r.rseq
    BY ResponseIsRead
  <1> HIDE DEF P, m
  <1>2. /\ URI(Self) \in P /\ URI(Peer) \in P /\ URI(FormatURI(None, Us)) \in P
        /\ Parameter("tag", "ours") \in P /\ Parameter("tag", r.tag) \in P
        /\ Atom("call") \in P /\ Atom(<<2, "PRACK">>) \in P
        /\ Atom(<<r.rseq, 1, "INVITE">>) \in P
    BY <1>0 DEF HasPiecesOfResponse
  <1>3. {"via", "from", "to", "call-id", "cseq", "rack"} \subseteq FullNames \ {"content-length"}
    BY DEF FullNames
  <1>4. a \in Sent(P) /\ b \in Sent(P) /\ e \in Sent(P) /\ f \in Sent(P) /\ g \in Sent(P)
    BY <1>2, <1>3, SentHeader DEF OurVia, OurFrom
  <1>5. d \in Sent(P)
    BY <1>2, <1>3, TheirEnd
  <1>6. Sent(P) \subseteq H
    BY DEF Sent, HeadersOf
  <1>7. /\ a.name = "via" /\ b.name = "from" /\ d.name = "to" /\ e.name = "call-id"
        /\ f.name = "cseq" /\ g.name = "rack" /\ d.value = end
        /\ f.value = <<Atom(<<2, "PRACK">>)>> /\ g.value = <<Atom(<<r.rseq, 1, "INVITE">>)>>
    BY NameIs
  <1>8. CASE none
    <2>1. prack = None
      BY <1>1, <1>8 DEF MaybePrack, Given
    <2>2. QED
      BY <1>8, <2>1 DEF m
  <1>9. CASE ~none
    <2>1. hs = <<a, b, d, e, f, g>>
      <3> DEFINE cseq == CSeq(OurInvite)[1]
                 next == cseq + 1
                 from == Header("from", <<URI(URIInAngle(Get(OurInvite.headers, "from"))),
                                          Parameter("tag", "ours")>>)
                 id == Header("call-id", Get(OurInvite.headers, "call-id"))
                 to == Header("to", Get(m.headers, "to"))
                 number == Header("cseq", <<Atom(<<next, "PRACK">>)>>)
                 rack == Header("rack", <<Atom(<<AtomOf(Get(m.headers, "rseq")), cseq, "INVITE">>)>>)
      <3>1. hs = <<a, from, to, id, number, rack>>
        BY <1>1, <1>9 DEF MaybePrack, Given, OurVia
      <3>2. cseq = 1 /\ next = 2
        BY OurInviteSays
      <3>3. URIInAngle(Get(OurInvite.headers, "from")) = Self
        BY OurInviteSays, PiecesRead DEF OurFrom
      <3>4. from = b
        BY <3>3 DEF OurFrom
      <3>5. id = e /\ to = d
        BY <1>1, OurInviteSays
      <3> HIDE DEF cseq, next
      <3>6. number = f /\ rack = g
        BY <1>1, <3>2
      <3> HIDE DEF a, from, to, id, number, rack, b, d, e, f, g, hs
      <3>7. QED
        BY <3>1, <3>4, <3>5, <3>6
    <2> HIDE DEF a, b, d, e, f, g, H, hs, end, prack, none
    <2>2. hs \in Seq(H) /\ Len(hs) = 6 /\ hs[1] = a /\ hs[2] = b /\ hs[3] = d /\ hs[4] = e
          /\ hs[5] = f /\ hs[6] = g
      BY <1>4, <1>5, <1>6, <2>1
    <2>3. \A i \in 1 .. Len(hs) : i \in {1, 2, 3, 4, 5, 6}
      BY <2>2
    <2>4. \A i, j \in 1 .. Len(hs) : hs[i].name = hs[j].name => i = j
      BY <1>7, <2>2, <2>3
    <2>5. \A i \in 1 .. Len(hs) : Get(hs, hs[i].name) = hs[i].value
      BY <2>2, <2>4, DistinctRead DEF H
    <2>6. 3 \in 1 .. Len(hs) /\ 5 \in 1 .. Len(hs) /\ 6 \in 1 .. Len(hs)
      BY <2>2
    <2>7. /\ Get(hs, "to") = end /\ Get(hs, "cseq") = <<Atom(<<2, "PRACK">>)>>
          /\ Get(hs, "rack") = <<Atom(<<r.rseq, 1, "INVITE">>)>>
      BY <1>7, <2>2, <2>5, <2>6
    <2>8. Param(end, "tag") = r.tag
      BY Theirs DEF end
    <2>9. CSeq(prack) = <<2, "PRACK">>
      BY <2>7, PiecesRead DEF CSeq, hs
    <2>10. CSeq(prack)[1] > CSeq(OurInvite)[1]
      BY <2>9, OurInviteSays
    <2>11. QED
      BY <1>9, <2>7, <2>8, <2>10 DEF hs, prack, m, none
  <1>10. QED
    BY <1>8, <1>9

\* What comes of a call's messages and of a response once they are read.
AfterOur200(c) ==
    LET m == ParseMessage(Written(Their200(c), c))
        d == NewDialogUAC(OurInvite, m, "call", "ours", Self, Peer)
    IN  IF ~Usable(Get(m.headers, "to"), m) THEN d
        ELSE IF ~HasAddress(NextHop(d), 5060) THEN Ack(d, Us)
        ELSE [sdp |-> m.body, ack |-> Ack(d, Us), bye |-> Bye(d, Us)]

AfterInvite(c) ==
    LET m == ParseMessage(Written(TheirInvite(c), c))
        d == AcceptDialog(m, "ours")
    IN  IF ~Usable(Get(m.headers, "from"), m) THEN d
        ELSE [sdp |-> m.body, ok |-> ResponseTo(m, 200, "ours"), bye |-> Bye(d, Us)]

AfterResponse(r) ==
    LET m == ParseMessage(MarshalMessage(TheirResponse(r)))
    IN  [prack |-> MaybePrack(m, OurInvite, Us, "ours"), ack |-> AckFailure(OurInvite, m)]

\* What was read is what these functions give.
MessageIsRead ==
    /\ input.kind = "call" =>
          /\ input.call \in Calls
          /\ \/ output = None
             \/ input.call.role = "caller" /\ output = AfterOur200(input.call)
             \/ input.call.role = "callee" /\ output = AfterInvite(input.call)
    /\ input.kind = "response" => output = None \/ output = AfterResponse(input.response)

\* It is so from the start, and after each message read.
LEMMA MessageIsReadHolds == InputsSpec => []MessageIsRead
  <1>1. InputsInit => MessageIsRead
    BY DEF InputsInit, MessageIsRead
  <1>2. ASSUME MessageIsRead, [InputsNext]_inputsVars PROVE MessageIsRead'
    <2> USE DEF Returns
    <2>1. CASE ReadOur200
      BY <1>2, <2>1 DEF ReadOur200, MessageIsRead, AfterOur200
    <2>2. CASE ReadInvite
      BY <1>2, <2>2 DEF ReadInvite, MessageIsRead, AfterInvite
    <2>3. CASE ReadResponse
      BY <1>2, <2>3 DEF ReadResponse, MessageIsRead, AfterResponse
    <2>4. CASE input.kind \notin {"call", "response"} /\ UNCHANGED input
      BY <2>4 DEF MessageIsRead
    <2>5. CASE UNCHANGED inputsVars
      BY <1>2, <2>5 DEF MessageIsRead, inputsVars
    <2>6. QED
      BY <1>2, <2>1, <2>2, <2>3, <2>4, <2>5
         DEF InputsNext, ReadAnswer, ReadOffer, ReadConfig, ReadOptions
  <1>3. QED
    BY <1>1, <1>2, PTL DEF InputsSpec

\* A call placed: its ACK and its BYE reach the far end.
LEMMA CallerSends ==
  ASSUME NEW c \in Calls
  PROVE  LET out == AfterOur200(c)
             known == Given(c.tag) /\ Given(c.target)
         IN  IF ~known \/ ~HasAddress(FirstHop(c), 5060) THEN out = Failed
             ELSE out.sdp = <<"s">> /\ Arrives(out.ack, c, "ACK", 1) /\ Arrives(out.bye, c, "BYE", 2)
  <1> DEFINE m == ParseMessage(Written(Their200(c), c))
             d == NewDialogUAC(OurInvite, m, "call", "ours", Self, Peer)
             known == Given(c.tag) /\ Given(c.target)
             usable == Usable(Get(m.headers, "to"), m)
             leads == HasAddress(NextHop(d), 5060)
             all == [sdp |-> m.body, ack |-> Ack(d, Us), bye |-> Bye(d, Us)]
             out == AfterOur200(c)
  <1>1. m.body = <<"s">> /\ (usable <=> known)
        /\ IF known THEN IsDialog(d, c) /\ d.cseq = 1 ELSE d = Failed
    BY CallerDialog
  <1>2. out = IF ~usable THEN d ELSE IF ~leads THEN Ack(d, Us) ELSE all
    BY DEF AfterOur200
  <1> HIDE DEF m, d, usable, out
  <1>3. CASE ~known
    BY <1>1, <1>2, <1>3 DEF out
  <1>4. CASE known /\ ~HasAddress(FirstHop(c), 5060)
    <2>1. ~leads
      BY <1>1, <1>4, NextHopIs
    <2>2. Ack(d, Us) = Failed
      BY <2>1 DEF Ack, NewRequest
    <2>3. out = Failed
      BY <1>1, <1>2, <1>4, <2>1, <2>2
    <2>4. QED
      BY <1>4, <2>3 DEF out
  <1>5. CASE known /\ HasAddress(FirstHop(c), 5060)
    <2>1. IsDialog(d, c) /\ d.cseq = 1 /\ usable
      BY <1>1, <1>5
    <2>2. leads
      BY <1>5, <2>1, NextHopIs
    <2>3. Arrives(Ack(d, Us), c, "ACK", 1)
      <3>1. Ack(d, Us) = NewRequest(d, "ACK", 1, Us)
        BY <2>1 DEF Ack
      <3>2. QED
        BY <1>5, <2>1, <3>1, RequestArrives
    <2>4. Arrives(Bye(d, Us), c, "BYE", 2)
      <3>1. Bye(d, Us) = NewRequest(d, "BYE", 2, Us)
        BY <2>1 DEF Bye
      <3>2. QED
        BY <1>5, <2>1, <3>1, RequestArrives
    <2>5. out = all
      BY <1>2, <2>1, <2>2
    <2>6. out.sdp = m.body /\ out.ack = Ack(d, Us) /\ out.bye = Bye(d, Us)
      BY <2>5
    <2>7. QED
      BY <1>1, <1>5, <2>3, <2>4, <2>6 DEF out
  <1>6. QED
    BY <1>3, <1>4, <1>5

\* A call accepted: its BYE reaches the far end, and its 200 goes back.
LEMMA CalleeSends ==
  ASSUME NEW c \in Calls
  PROVE  LET out == AfterInvite(c)
             known == Given(c.tag) /\ Given(c.target)
         IN  IF ~known THEN out = Failed
             ELSE /\ out.sdp = <<"s">>
                  /\ IF HasAddress(FirstHop(c), 5060) THEN Arrives(out.bye, c, "BYE", 8)
                                                      ELSE out.bye = Failed
                  /\ Values(out.ok.headers, "via") = Values(TheirInvite(c).headers, "via")
                  /\ Param(Get(out.ok.headers, "to"), "tag") = "ours"
  <1> DEFINE m == ParseMessage(Written(TheirInvite(c), c))
             d == AcceptDialog(m, "ours")
             ok == ResponseTo(m, 200, "ours")
             known == Given(c.tag) /\ Given(c.target)
             usable == Usable(Get(m.headers, "from"), m)
             all == [sdp |-> m.body, ok |-> ok, bye |-> Bye(d, Us)]
             out == AfterInvite(c)
  <1>1. m.body = <<"s">> /\ (usable <=> known)
        /\ IF known THEN IsDialog(d, c) /\ d.cseq = 7 ELSE d = Failed
    BY CalleeDialog
  <1>2. /\ Values(ok.headers, "via") = Values(TheirInvite(c).headers, "via")
        /\ Param(Get(ok.headers, "to"), "tag") = "ours"
    BY OkGoesBack
  <1>3. out = IF ~usable THEN d ELSE all
    BY DEF AfterInvite
  <1> HIDE DEF m, d, usable, out, ok
  <1>4. CASE ~known
    BY <1>1, <1>3, <1>4 DEF out
  <1>5. CASE known
    <2>1. IsDialog(d, c) /\ d.cseq = 7 /\ usable
      BY <1>1, <1>5
    <2>2. NextHop(d) = FirstHop(c)
      BY <2>1, NextHopIs
    <2>3. Bye(d, Us) = NewRequest(d, "BYE", 8, Us)
      BY <2>1 DEF Bye
    <2>4. IF HasAddress(FirstHop(c), 5060) THEN Arrives(Bye(d, Us), c, "BYE", 8)
                                           ELSE Bye(d, Us) = Failed
      <3>1. CASE HasAddress(FirstHop(c), 5060)
        BY <2>1, <2>3, <3>1, RequestArrives
      <3>2. CASE ~HasAddress(FirstHop(c), 5060)
        BY <2>2, <2>3, <3>2 DEF NewRequest
      <3>3. QED
        BY <3>1, <3>2
    <2>5. out = all
      BY <1>3, <2>1
    <2>6. out.sdp = m.body /\ out.ok = ok /\ out.bye = Bye(d, Us)
      BY <2>5
    <2>7. QED
      BY <1>1, <1>2, <1>5, <2>4, <2>6 DEF out
  <1>6. QED
    BY <1>4, <1>5

\* The requests of a dialog go to its far end, with the tags and numbers that
\* it knows, by any number of proxies and however it writes its messages.
THEOREM RequestsArrive == InputsSpec => []RequestsReach
  <1>1. MessageIsRead => RequestsReach
    <2> SUFFICES ASSUME MessageIsRead, output # None PROVE RequestsReach
      BY DEF RequestsReach
    <2>1. ASSUME input.kind = "call"
          PROVE  LET c == input.call
                     known == Given(c.tag) /\ Given(c.target)
                     first == IF c.path = <<>> THEN c.target ELSE c.path[1]
                     leads == HasAddress(first, 5060)
                 IN  IF ~known \/ (c.role = "caller" /\ ~leads) THEN output = Failed
                     ELSE /\ output.sdp = <<"s">>
                          /\ c.role = "caller" => /\ Arrives(output.ack, c, "ACK", 1)
                                                  /\ Arrives(output.bye, c, "BYE", 2)
                          /\ c.role = "callee" =>
                                /\ IF leads THEN Arrives(output.bye, c, "BYE", 8)
                                            ELSE output.bye = Failed
                                /\ Values(output.ok.headers, "via")
                                      = Values(TheirInvite(c).headers, "via")
                                /\ Param(Get(output.ok.headers, "to"), "tag") = "ours"
      <3> DEFINE c == input.call
      <3>1. c \in Calls /\ \/ c.role = "caller" /\ output = AfterOur200(c)
                           \/ c.role = "callee" /\ output = AfterInvite(c)
        BY <2>1 DEF MessageIsRead
      <3> HIDE DEF c
      <3>2. CASE c.role = "caller" /\ output = AfterOur200(c)
        BY <3>1, <3>2, CallerSends DEF FirstHop, c
      <3>3. CASE c.role = "callee" /\ output = AfterInvite(c)
        BY <3>1, <3>3, CalleeSends DEF FirstHop, c
      <3>4. QED
        BY <3>1, <3>2, <3>3
    <2>2. ASSUME input.kind = "response"
          PROVE  LET r == input.response
                     prack == output.prack
                 IN  /\ IF r.require # "100rel" \/ ~Given(r.rseq) THEN prack = None
                        ELSE /\ Get(prack.headers, "rack") = <<Atom(<<r.rseq, 1, "INVITE">>)>>
                             /\ Param(Get(prack.headers, "to"), "tag") = r.tag
                             /\ CSeq(prack)[1] > CSeq(OurInvite)[1]
                     /\ Get(output.ack.headers, "via") = Get(OurInvite.headers, "via")
                     /\ Param(Get(output.ack.headers, "to"), "tag") = r.tag
      <3> DEFINE r == input.response
                 m == ParseMessage(MarshalMessage(TheirResponse(r)))
                 prack == MaybePrack(m, OurInvite, Us, "ours")
                 ack == AckFailure(OurInvite, m)
      <3>1. output = [prack |-> prack, ack |-> ack]
        BY <2>2 DEF MessageIsRead, AfterResponse
      <3>2. /\ Get(ack.headers, "via") = Get(OurInvite.headers, "via")
            /\ Param(Get(ack.headers, "to"), "tag") = r.tag
        BY AckOfRefusal
      <3>3. IF r.require # "100rel" \/ ~Given(r.rseq) THEN prack = None
            ELSE /\ Get(prack.headers, "rack") = <<Atom(<<r.rseq, 1, "INVITE">>)>>
                 /\ Param(Get(prack.headers, "to"), "tag") = r.tag
                 /\ CSeq(prack)[1] > CSeq(OurInvite)[1]
        BY PrackOfResponse
      <3> HIDE DEF prack, ack
      <3>4. output.prack = prack /\ output.ack = ack
        BY <3>1
      <3>5. QED
        BY <3>2, <3>3, <3>4
    <2>3. QED
      BY <2>1, <2>2 DEF RequestsReach
  <1>2. QED
    BY <1>1, MessageIsReadHolds, PTL

-----------------------------------------------------------------------------
(***************************************************************************)
(* The script and ngntun.                                                  *)
(***************************************************************************)
\* What ngntun may choose is an address; without an option that names it, one
\* that the interface carries, and in the prefix of the lease when there is one.
LEMMA Chosen ==
  ASSUME Inv, NEW s \in Sources
  PROVE  /\ s # None
         /\ ~Given(opt.sourceV6) =>
               s \in Carried /\ (Given(read) => s.network = read)
  <1> DEFINE interfaces == {[name |-> Interface, up |-> TRUE, addresses |-> Carried]}
             lease6 == IF Given(read) THEN Lease(read) ELSE None
  <1>1. PICK c \in BuildConfig(opt, lease6, Lease4, interfaces) : s = c.localV6
    BY DEF Sources
  <1>2. Given(read) => Given(lease6) /\ Given(lease6["prefix"]) /\ lease6["prefix"] = read
    BY SourceAssumption DEF Inv, TypeOK, Given
  <1>3. UNION {i.addresses : i \in {j \in interfaces : j.up}} = Carried
    <2> DEFINE wan == [name |-> Interface, up |-> TRUE, addresses |-> Carried]
    <2>1. wan.up /\ wan.addresses = Carried
      OBVIOUS
    <2> HIDE DEF wan
    <2>2. \A S : S \in {i.addresses : i \in {j \in {wan} : j.up}} <=> S = Carried
      BY <2>1
    <2>3. QED
      BY <2>2 DEF wan
  <1>4. \A a \in Carried : a # None
    BY SourceAssumption DEF Carried, Inv, TypeOK
  <1> HIDE DEF interfaces, lease6
  <1>5. QED
    BY <1>1, <1>2, <1>3, <1>4, SourceV6Chosen DEF Given

LEMMA InitInv ==
  ASSUME Init
  PROVE  Inv
  <1>1. TypeOK
    BY SourceAssumption DEF Init, TypeOK
  <1>2. Few(attached)
    BY FS_EmptySet DEF Init, Few
  <1>3. QED
    BY <1>1, <1>2 DEF Init, Inv, Control, Debts

LEMMA TypeInv ==
  ASSUME Inv, [Next]_vars
  PROVE  TypeOK'
  <1> USE SourceAssumption DEF Inv, TypeOK, Control, Goto, hookVars, ngnVars
  <1>1. ASSUME NEW p \in Delegated, Bound(p) PROVE TypeOK'
    BY <1>1 DEF Bound
  <1>2. ASSUME NEW p \in Delegated, Expired(p) PROVE TypeOK'
    BY <1>2 DEF Expired
  <1>3. CASE Released
    BY <1>3 DEF Released
  <1>4. CASE WriteLease
    BY <1>4 DEF WriteLease
  <1>5. CASE SyncAddr
    BY <1>5 DEF SyncAddr, Delete
  <1>6. CASE Forget
    BY <1>6 DEF Forget
  <1>7. CASE AddAddr
    BY <1>7 DEF AddAddr
  <1>8. CASE Truncate
    BY <1>8 DEF Truncate
  <1>9. CASE RecordAddr
    BY <1>9 DEF RecordAddr
  <1>10. CASE ExpireAddr
    BY <1>10 DEF ExpireAddr, Delete
  <1>11. CASE ReleaseAddr
    BY <1>11 DEF ReleaseAddr, Delete
  <1>12. CASE Kill
    BY <1>12 DEF Kill
  <1>13. CASE Reapply
    BY <1>13 DEF Reapply
  <1>14. CASE ReadLeases
    BY <1>14 DEF ReadLeases
  <1>15. CASE ChooseSource
    BY <1>15, Chosen DEF ChooseSource
  <1>16. CASE StartAgain
    BY <1>16 DEF StartAgain
  <1>17. CASE UNCHANGED vars
    BY <1>17 DEF vars
  <1>18. QED
    BY <1>1, <1>2, <1>3, <1>4, <1>5, <1>6, <1>7, <1>8, <1>9, <1>10, <1>11,
       <1>12, <1>13, <1>14, <1>15, <1>16, <1>17 DEF Next

LEMMA ControlInv ==
  ASSUME Inv, [Next]_vars
  PROVE  Control'
  <1> USE SourceAssumption DEF Inv, TypeOK, Control, Goto, Given, Recorded,
          hookVars, ngnVars
  <1>1. ASSUME NEW p \in Delegated, Bound(p) PROVE Control'
    BY <1>1 DEF Bound
  <1>2. ASSUME NEW p \in Delegated, Expired(p) PROVE Control'
    BY <1>2 DEF Expired
  <1>3. CASE Released
    BY <1>3 DEF Released
  <1>4. CASE WriteLease
    BY <1>4 DEF WriteLease
  <1>5. CASE SyncAddr
    BY <1>5 DEF SyncAddr, Delete
  <1>6. CASE Forget
    BY <1>6 DEF Forget
  <1>7. CASE AddAddr
    BY <1>7 DEF AddAddr
  <1>8. CASE Truncate
    BY <1>8 DEF Truncate
  <1>9. CASE RecordAddr
    BY <1>9 DEF RecordAddr
  <1>10. CASE ExpireAddr
    BY <1>10 DEF ExpireAddr, Delete
  <1>11. CASE ReleaseAddr
    BY <1>11 DEF ReleaseAddr, Delete
  <1>12. CASE Kill
    BY <1>12 DEF Kill
  <1>13. CASE Reapply
    BY <1>13 DEF Reapply
  <1>14. CASE ReadLeases
    BY <1>14 DEF ReadLeases
  <1>15. CASE ChooseSource
    BY <1>15 DEF ChooseSource
  <1>16. CASE StartAgain
    BY <1>16 DEF StartAgain
  <1>17. CASE UNCHANGED vars
    BY <1>17 DEF vars
  <1>18. QED
    BY <1>1, <1>2, <1>3, <1>4, <1>5, <1>6, <1>7, <1>8, <1>9, <1>10, <1>11,
       <1>12, <1>13, <1>14, <1>15, <1>16, <1>17 DEF Next

\* Sets of addresses: a part of few is few, and with one more address they
\* are few after one more fault.
LEMMA FewSubset ==
  ASSUME TypeOK, NEW S, NEW T \in SUBSET S, S \subseteq attached, Few(S)
  PROVE  Few(T)
  <1>1. IsFiniteSet(attached)
    BY SourceAssumption, FS_Subset DEF TypeOK
  <1>2. IsFiniteSet(S)
    BY <1>1, FS_Subset
  <1>3. Cardinality(T) <= Cardinality(S) /\ IsFiniteSet(T)
    BY <1>2, FS_Subset
  <1>4. Cardinality(T) \in Nat /\ Cardinality(S) \in Nat /\ faults \in Nat
    BY <1>2, <1>3, FS_CardinalityType, SourceAssumption DEF TypeOK
  <1>5. QED
    BY <1>3, <1>4 DEF Few

LEMMA OneMore ==
  ASSUME TypeOK, NEW x, Few(attached \ {x})
  PROVE  Cardinality(attached) <= faults + 1
  <1>1. IsFiniteSet(attached)
    BY SourceAssumption, FS_Subset DEF TypeOK
  <1>2. Cardinality(attached \ {x}) =
           IF x \in attached THEN Cardinality(attached) - 1 ELSE Cardinality(attached)
    BY <1>1, FS_RemoveElement
  <1>3. Cardinality(attached) \in Nat /\ faults \in Nat
    BY <1>1, FS_CardinalityType, SourceAssumption DEF TypeOK
  <1>4. QED
    BY <1>2, <1>3 DEF Few

\* Whatever the script is at, one address may go unaccounted for.
LEMMA OneAtMost ==
  ASSUME Inv
  PROVE  \E x : Few(attached \ {x})
  <1>1. ASSUME Few(attached) PROVE Few(attached \ {None})
    BY <1>1, FewSubset DEF Inv
  <1>2. QED
    BY <1>1 DEF Inv, TypeOK, Debts

\* A deletion that fails leaves the address to count as one more fault.
LEMMA DeleteFew ==
  ASSUME TypeOK, Few(attached \ {record}), Delete(record)
  PROVE  Few(attached)'
  <1>1. CASE attached' = attached \ {record} /\ UNCHANGED faults
    BY <1>1 DEF Few
  <1>2. CASE attached' = attached /\ faults' = faults + 1
    BY <1>2, OneMore DEF Few
  <1>3. QED
    BY <1>1, <1>2 DEF Delete

\* What a set counts against stays what it is while there is no fault.
LEMMA DebtsInv ==
  ASSUME Inv, [Next]_vars
  PROVE  Debts'
  <1> USE SourceAssumption DEF Inv, TypeOK, Control, Debts, Few, Goto, Given,
          Recorded, hookVars, ngnVars
  <1>1. ASSUME NEW p \in Delegated, Bound(p) PROVE Debts'
    <2>1. Few(attached \ {record})
      BY <1>1, FewSubset DEF Bound
    <2>2. QED
      BY <1>1, <2>1 DEF Bound
  <1>2. ASSUME NEW p \in Delegated, Expired(p) PROVE Debts'
    BY <1>2 DEF Expired
  <1>3. CASE Released
    <2>1. Few(attached \ {record})
      BY <1>3, FewSubset DEF Released
    <2>2. QED
      BY <1>3, <2>1 DEF Released
  <1>4. CASE WriteLease
    <2>1. skip => Few(attached)
      BY <1>4, FewSubset DEF WriteLease
    <2>2. QED
      BY <1>4, <2>1 DEF WriteLease
  <1>5. CASE SyncAddr
    <2>1. Few(attached \ {record})
      BY <1>5 DEF SyncAddr
    <2>2. CASE script' = "forget" /\ Delete(record)
      <3>1. Few(attached)'
        BY <2>1, <2>2, DeleteFew
      <3>2. QED
        BY <1>5, <2>2, <3>1 DEF SyncAddr
    <2>3. CASE UNCHANGED <<attached, faults>> /\ ~Recorded
      <3>1. attached \ {record} = attached
        BY <2>3
      <3>2. Few(attached)
        BY <2>1, <3>1
      <3>3. QED
        BY <1>5, <2>3, <3>2 DEF SyncAddr
    <2>4. CASE UNCHANGED <<attached, faults>> /\ Recorded /\ script' \in {"add", "idle"}
      BY <1>5, <2>1, <2>4 DEF SyncAddr
    <2>5. QED
      BY <1>5, <2>2, <2>3, <2>4 DEF SyncAddr
  <1>6. CASE Forget
    BY <1>6 DEF Forget
  <1>7. CASE AddAddr
    <2>1. event = bound /\ event \in Delegated
      BY <1>7 DEF AddAddr
    <2>2. Few(attached \ {event})
      BY <1>7, <2>1, FewSubset DEF AddAddr
    <2>3. CASE script' = "truncate" /\ attached' = attached \union {event}
      <3>1. attached' \ {event} = attached \ {event}
        BY <2>3
      <3>2. QED
        BY <1>7, <2>2, <2>3, <3>1 DEF AddAddr
    <2>4. CASE script' = "idle" /\ attached' = attached
      BY <1>7, <2>4 DEF AddAddr
    <2>5. QED
      BY <1>7, <2>3, <2>4 DEF AddAddr
  <1>8. CASE Truncate
    BY <1>8 DEF Truncate
  <1>9. CASE RecordAddr
    BY <1>9 DEF RecordAddr
  <1>10. CASE ExpireAddr
    <2>1. CASE record = event /\ script' = "forget" /\ Delete(record)
      <3>1. Few(attached \ {record})
        BY <1>10, FewSubset DEF ExpireAddr
      <3>2. Few(attached)'
        BY <2>1, <3>1, DeleteFew
      <3>3. QED
        BY <1>10, <2>1, <3>2 DEF ExpireAddr
    <2>2. CASE record # event /\ script' = "idle" /\ UNCHANGED <<attached, faults>>
      BY <1>10, <2>2 DEF ExpireAddr
    <2>3. CASE attached = {} /\ script' = "idle" /\ UNCHANGED <<attached, faults>>
      <3>1. Few(attached)
        BY <1>10, <2>3, FewSubset DEF ExpireAddr
      <3>2. QED
        BY <1>10, <2>3, <3>1 DEF ExpireAddr
    <2>4. QED
      BY <1>10, <2>1, <2>2, <2>3 DEF ExpireAddr
  <1>11. CASE ReleaseAddr
    <2>1. Few(attached \ {record})
      BY <1>11 DEF ReleaseAddr
    <2>2. Few(attached)'
      BY <1>11, <2>1, DeleteFew DEF ReleaseAddr
    <2>3. QED
      BY <1>11, <2>2 DEF ReleaseAddr
  <1>12. CASE Kill
    <2>1. Cardinality(attached) <= faults + 1
      BY OneAtMost, OneMore
    <2>2. QED
      BY <1>12, <2>1 DEF Kill
  <1>13. CASE Reapply
    <2>1. \E x : Few(attached \ {x})
      BY OneAtMost
    <2>2. Few({})
      BY <2>1, FewSubset
    <2>3. {} \ {record} = {} /\ {} \ {event} = {}
      OBVIOUS
    <2>4. QED
      BY <1>13, <2>2, <2>3 DEF Reapply
  <1>14. CASE ReadLeases
    BY <1>14 DEF ReadLeases
  <1>15. CASE ChooseSource
    BY <1>15 DEF ChooseSource
  <1>16. CASE StartAgain
    BY <1>16 DEF StartAgain
  <1>17. CASE UNCHANGED vars
    BY <1>17 DEF vars
  <1>18. QED
    BY <1>1, <1>2, <1>3, <1>4, <1>5, <1>6, <1>7, <1>8, <1>9, <1>10, <1>11,
       <1>12, <1>13, <1>14, <1>15, <1>16, <1>17 DEF Next

THEOREM InvHolds == Spec => []Inv
  <1>1. Init => Inv
    BY InitInv
  <1>2. Inv /\ [Next]_vars => Inv'
    BY TypeInv, ControlInv, DebtsInv DEF Inv
  <1>3. QED
    BY <1>1, <1>2, PTL DEF Spec

\* The file, the record, the interface and the address chosen are what they
\* can be.
THEOREM TypesHold == Spec => []TypeOK
  <1>1. Inv => TypeOK
    BY DEF Inv
  <1>2. QED
    BY InvHolds, <1>1, PTL

LEMMA BoundOnly ==
  ASSUME Inv
  PROVE  NoStaleAddress
  <1>1. CASE script = "idle" /\ Few(attached)
    BY <1>1, FewSubset DEF Inv, NoStaleAddress, Few
  <1>2. CASE script = "idle" /\ record = bound /\ Few(attached \ {record})
    BY <1>2 DEF NoStaleAddress, Few
  <1>3. QED
    BY <1>1, <1>2 DEF Inv, Debts, NoStaleAddress

\* Between two events the interface carries the bound prefix's address only,
\* but for one for each script killed or deletion failed: a call from an old
\* prefix would be dropped without a word.
THEOREM OldAddressesGo == Spec => []NoStaleAddress
  <1>1. QED
    BY InvHolds, BoundOnly, PTL

\* The source that ngntun chooses is in the prefix of the lease it read, and
\* in the prefix that dhclient holds by now unless a script is at work, was
\* killed or failed to delete an address.
THEOREM SourceFollowsLease == Spec => SourceIsBound
  <1> DEFINE Step == ngntun = "read" /\ source' # source /\ ~Given(opt.sourceV6) =>
                        /\ Given(read) => source'.network = read
                        /\ source'.network \in Delegated =>
                              source'.network = bound \/ script # "idle" \/ faults > 0
  <1>1. Inv /\ [Next]_vars => [Step]_vars
    <2> SUFFICES ASSUME Inv, Next, ngntun = "read", source' # source, ~Given(opt.sourceV6)
                 PROVE  /\ Given(read) => source'.network = read
                        /\ source'.network \in Delegated =>
                              source'.network = bound \/ script # "idle" \/ faults > 0
      OBVIOUS
    <2>1. source' \in Sources
      BY DEF Next, Bound, Expired, Released, WriteLease, SyncAddr, Forget,
         AddAddr, Truncate, RecordAddr, ExpireAddr, ReleaseAddr, Kill, Reapply,
         ReadLeases, ChooseSource, StartAgain, ngnVars, hookVars
    <2>2. source' \in Carried /\ (Given(read) => source'.network = read)
      BY <2>1, Chosen
    <2>3. ASSUME source'.network \in Delegated, script = "idle", ~(faults > 0)
          PROVE  source'.network = bound
      <3>1. source'.network \in attached
        BY <2>2, <2>3, SourceAssumption DEF Carried, AddressIn
      <3>2. IsFiniteSet(attached \ {bound})
        BY SourceAssumption, FS_Subset DEF Inv, TypeOK
      <3>3. Cardinality(attached \ {bound}) = 0
        BY <2>3, <3>2, BoundOnly, FS_CardinalityType, SourceAssumption
           DEF NoStaleAddress, Inv, TypeOK
      <3>4. attached \ {bound} = {}
        BY <3>2, <3>3, FS_EmptySet
      <3>5. QED
        BY <3>1, <3>4
    <2>4. QED
      BY <2>2, <2>3
  <1>2. QED
    BY InvHolds, <1>1, PTL DEF Spec, SourceIsBound
=============================================================================
