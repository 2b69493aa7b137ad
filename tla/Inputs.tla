------------------------------- MODULE Inputs -------------------------------
(***************************************************************************)
(* What ngntun reads: the answer of the far end, its messages, the vendor  *)
(* options in the lease, and the options it is run with over what the      *)
(* lease says.  Each is read by functions of its own; the properties       *)
(* compare what they return with what the text was to say.                 *)
(***************************************************************************)
EXTENDS Provisioning, SdpAnswer, VendorOpts, Messages

CONSTANTS
    Bodies,     \* SDP bodies
    Offers,     \* records address, port, kbps, setup
    Subs,       \* sequences of vendor options, pairs of code and value
    Names,      \* the domain names, sequences of labels
    Runs,       \* records opt, lease6, lease4, interfaces
    Calls,      \* records role, path, target, tag, compact, folded, spare
    Responses   \* records tag, contact, require, rseq

ASSUME TextsOfSdpAssumption ==
    /\ \A b \in Bodies : IsBody(b)
    /\ \A o \in Offers : IsOffer(o)

\* Leases that were read have their lists and vendor options, if empty; an
\* address is of IPv4 or IPv6; and an error is no configuration, and not what
\* the options say by themselves.
ASSUME RunsAssumption ==
    \A r \in Runs :
        /\ Given(r.lease6) => Given(r.lease6.sipServers) /\ Given(r.lease6.opts)
        /\ Given(r.lease4) => Given(r.lease4.routers) /\ Given(r.lease4.ipAddress)
        /\ \A c \in BuildConfig(r.opt, r.lease6, r.lease4, r.interfaces) :
              c # Failed /\ c.proxy.version \in {4, 6}
        /\ LET bare == Build(None, None)
           IN  Failed \notin {bare, [f \in DOMAIN bare |->
                                       IF f \in Overriding THEN r.opt[f] ELSE None]}

\* Options and names as a DHCP server can write them, nothing behind a name
\* but its root; and an error is no value of an option.
ASSUME WrittenOptionsAssumption ==
    /\ Names \subseteq Seq(Label) \ {<<>>}
    /\ \A s \in Subs :
          /\ s \in Seq(Option)
          /\ \A i \in DOMAIN s : s[i][1] = SIPDomain =>
                \E n \in Names \union {<<>>} :
                   LET rest == SubSeq(s[i][2], Len(EncodeName(n)) + 1, Len(s[i][2]))
                   IN  s[i][2] = EncodeName(n) \o rest /\ (rest \in {<<>>, <<0>>} \/ NoLabel(rest))
    /\ Failed \notin Seq(Option) \union OptionValues \union [DOMAIN NoOptions -> OptionValues]

VARIABLES input, output

inputsVars == <<input, output>>

\* What is printed of vendor options that end after `cut' bytes.
Printed(subs, cut, style) == PrintHex(SubSeq(EncodeOptions(subs), 1, cut), style)

-----------------------------------------------------------------------------
(***************************************************************************)
(* The far end.  A call has ngntun's role; the proxies on the way that     *)
(* stay on it, from ngntun's to the far end's; the far end's Contact and   *)
(* tag; and how its messages are written.                                  *)
(***************************************************************************)
Us     == [host |-> "us", port |-> 5060]
Proxy  == [host |-> "hgw", port |-> 5060]
Self   == [user |-> "3", host |-> Bad, port |-> None]
Peer   == [user |-> "0312345678", host |-> Bad, port |-> None]

\* The names of headers, and the words that are compared with a mark.
FullNames == {"via", "from", "to", "call-id", "contact", "cseq", "record-route", "route",
              "require", "rseq", "rack", "content-length"}

Words == DOMAIN CompactForms \union FullNames \union {"ours", "100rel"}

\* A call's path and the bytes behind its bodies are sequences; a mark is no
\* word, and not how a message starts.
ASSUME CallsAssumption ==
    /\ {None, Bad} \intersect Words = {}
    /\ Bad \notin [status : Nat]
    /\ \A c \in Calls :
          /\ c.path \in Seq(Range(c.path))
          /\ c.spare \in Seq(Range(c.spare))
          /\ Bad \notin [method : {"INVITE", "ACK", "BYE"}, uri : {Self, c.target}]

OurInvite == Invite(Self, Peer, "call", "ours", Us, Proxy, <<"o">>)

\* Names in their compact forms, values that go on in the next line, and
\* bytes behind the body.
NameIn(name, c) ==
    LET short == {f \in DOMAIN CompactForms : CompactForms[f] = name}
    IN  IF c.compact /\ short # {} THEN CHOOSE f \in short : TRUE ELSE name

LinesOf(h, c) ==
    IF ~c.folded THEN <<Header(NameIn(h.name, c), h.value)>>
    ELSE [i \in DOMAIN h.value |->
             Header(IF i = 1 THEN NameIn(h.name, c) ELSE None, <<h.value[i]>>)]

Written(m, c) ==
    LET w == MarshalMessage(m)
    IN  [start |-> w.start, body |-> w.body \o c.spare,
         lines |-> FlattenSeq([i \in DOMAIN w.lines |-> LinesOf(w.lines[i], c)])]

Optional(given, header) == IF Given(given) THEN <<header>> ELSE <<>>

TheirTag(tag) == IF Given(tag) THEN <<Parameter("tag", tag)>> ELSE <<>>

RecordRoutes(path) == [i \in DOMAIN path |-> Header("record-route", <<URI(path[i])>>)]

\* Each proxy puts its Record-Route and its Via before the others'.
TheirInvite(c) ==
    [start |-> [method |-> "INVITE", uri |-> Self],
     headers |-> RecordRoutes(c.path)
         \o [i \in DOMAIN c.path |-> Header("via", <<URI(c.path[i])>>)]
         \o <<Header("via", <<URI(Peer)>>),
              Header("from", <<URI(Peer)>> \o TheirTag(c.tag)), Header("to", <<URI(Self)>>),
              Header("call-id", <<Atom("call")>>), Header("cseq", <<Atom(<<7, "INVITE">>)>>)>>
         \o Optional(c.target, Header("contact", <<URI(c.target)>>)),
     body |-> <<"s">>]

Their200(c) ==
    [start |-> [status |-> 200],
     headers |-> RecordRoutes(Reverse(c.path))
         \o <<Header("via", Get(OurInvite.headers, "via")),
              Header("from", Get(OurInvite.headers, "from")),
              Header("to", <<URI(Peer)>> \o TheirTag(c.tag)),
              Header("call-id", <<Atom("call")>>), Header("cseq", <<Atom(<<1, "INVITE">>)>>)>>
         \o Optional(c.target, Header("contact", <<URI(c.target)>>)),
     body |-> <<"s">>]

\* A response that opens no dialog.
TheirResponse(r) ==
    [start |-> [status |-> 183],
     headers |-> <<Header("to", <<URI(Peer)>> \o TheirTag(r.tag))>>
         \o Optional(r.contact, Header("contact", <<URI(r.contact)>>))
         \o Optional(r.require, Header("require", <<Atom(r.require)>>))
         \o Optional(r.rseq, Header("rseq", <<Atom(r.rseq)>>)),
     body |-> <<>>]

-----------------------------------------------------------------------------
InputsInit ==
    /\ \/ \E b \in Bodies : input = [kind |-> "answer", body |-> b]
       \/ \E o \in Offers : input = [kind |-> "offer", offer |-> o]
       \/ \E s \in Subs, y \in Styles : \E k \in 0 .. Len(EncodeOptions(s)) :
             input = [kind |-> "options", subs |-> s, cut |-> k, style |-> y]
       \/ \E r \in Runs : input = [kind |-> "config", run |-> r]
       \/ \E c \in Calls : input = [kind |-> "call", call |-> c]
       \/ \E r \in Responses : input = [kind |-> "response", response |-> r]
    /\ output = None

Returns(result) == output' = result /\ UNCHANGED input

ReadAnswer ==
    /\ input.kind = "answer" /\ output = None
    /\ Returns(ParseAnswer(input.body))

ReadOffer ==
    /\ input.kind = "offer" /\ output = None
    /\ Returns(ParseAnswer(Marshal(input.offer)))

ReadOptions ==
    /\ input.kind = "options" /\ output = None
    /\ Returns(DecodeVendorOpts(Printed(input.subs, input.cut, input.style)))

\* One of the configurations possible, or an error.
ReadConfig ==
    /\ input.kind = "config" /\ output = None
    /\ LET r == input.run
           configs == BuildConfig(r.opt, r.lease6, r.lease4, r.interfaces)
       IN  \/ configs = {} /\ Returns(Failed)
           \/ \E c \in configs : Returns(c)

\* A call placed: the ACK is sent, and a BYE later.
ReadOur200 ==
    /\ input.kind = "call" /\ input.call.role = "caller" /\ output = None
    /\ LET m == ParseMessage(Written(Their200(input.call), input.call))
           d == NewDialogUAC(OurInvite, m, "call", "ours", Self, Peer)
       IN  Returns(IF ~Usable(Get(m.headers, "to"), m) THEN d
                   ELSE IF ~HasAddress(NextHop(d), 5060) THEN Ack(d, Us)
                   ELSE [sdp |-> m.body, ack |-> Ack(d, Us), bye |-> Bye(d, Us)])

\* A call accepted: the 200 is sent, and a BYE later.
ReadInvite ==
    /\ input.kind = "call" /\ input.call.role = "callee" /\ output = None
    /\ LET m == ParseMessage(Written(TheirInvite(input.call), input.call))
           d == AcceptDialog(m, "ours")
       IN  Returns(IF ~Usable(Get(m.headers, "from"), m) THEN d
                   ELSE [sdp |-> m.body, ok |-> ResponseTo(m, 200, "ours"), bye |-> Bye(d, Us)])

ReadResponse ==
    /\ input.kind = "response" /\ output = None
    /\ LET m == ParseMessage(MarshalMessage(TheirResponse(input.response)))
       IN  Returns([prack |-> MaybePrack(m, OurInvite, Us, "ours"),
                    ack |-> AckFailure(OurInvite, m)])

InputsNext == \/ ReadAnswer \/ ReadOffer \/ ReadOptions \/ ReadConfig
              \/ ReadOur200 \/ ReadInvite \/ ReadResponse

InputsSpec == InputsInit /\ [][InputsNext]_inputsVars

-----------------------------------------------------------------------------
(***************************************************************************)
(* Properties.                                                             *)
(***************************************************************************)
\* Media goes where the answer says, and starts from the side it says,
\* whatever media stand beside ngntun's (sdp.go:113) and wherever its address
\* stands (sdp.go:71): one data medium is read as the sections of the body
\* give it, none is an error, and what Marshal writes is read as it was
\* meant.  Not so, and left out: an address that belongs to another medium
\* replaces the session's (sdp.go:98), and two data media mix (sdp.go:126).
AnswerIsTheMedias ==
    output # None =>
        /\ input.kind = "answer" =>
              LET body == input.body
                  own(d) == Section(body, d) \intersect Lines(body, "c") # {}
              IN  /\ DataMedia(body) = {} => output = Failed
                  /\ \A d \in DataMedia(body) :
                        DataMedia(body) = {d} /\ (own(d) \/ ~AddressOfAnother(body))
                            => output = Meant(body, d)
        /\ input.kind = "offer" => output = input.offer

\* The name that these bytes encode, with or without the root.
NamesIn(b) == {n \in Names : b \in {EncodeName(n), EncodeName(n) \o <<0>>}}

\* The vendor options are read back however dhclient printed them
\* (lease.go:248), the last of each kind, past those of an unknown kind
\* (lease.go:223); and one cut short anywhere but between two options, or
\* with a domain that is no name, is refused rather than read in part.
OptionsRead ==
    input.kind = "options" /\ output # None =>
        LET whole  == input.subs
            heard  == {n \in 0 .. Len(whole) :
                          Len(EncodeOptions(SubSeq(whole, 1, n))) = input.cut}
            upTo   == CHOOSE n \in heard : TRUE
            last(code) == {i \in 1 .. upTo : /\ whole[i][1] = code
                                             /\ \A j \in i + 1 .. upTo : whole[j][1] # code}
            domains == {whole[i][2] : i \in {j \in 1 .. upTo : whole[j][1] = SIPDomain}}
        IN  IF heard = {} \/ \E v \in domains : NamesIn(v) = {} THEN output = Failed
            ELSE /\ output # Failed
                 /\ \A code \in DOMAIN NoOptions :
                    /\ last(code) = {} => output[code] = None
                    /\ \A i \in last(code) :
                          IF code = SIPDomain THEN output[code] \in NamesIn(whole[i][2])
                                              ELSE output[code] = whole[i][2]

\* All that a call needs is among the options, and of the right kind.
Complete(o) ==
    /\ \A f \in {"selfV4", "domain", "extension"} : o[f] \notin {None, Bad}
    /\ o.sipServer # Bad /\ Is(o.sipServer, 6)
    /\ o.registrar4 # Bad /\ Is(o.registrar4, 4)
    /\ o.sourceV6 # Bad /\ Is(o.sourceV6, 6)
    /\ ModeFits(o) /\ Readable(o)

\* A run starts with what the options and the leases say, and options that
\* say it all need no lease (lease.go:106).
ConfigSound ==
    input.kind = "config" /\ output # None =>
        LET r == input.run
        IN  IF output = Failed
            THEN ~(Complete(r.opt) /\ r.lease6 = None /\ r.lease4 = None)
            ELSE Sound(output, r.opt, r.lease6, r.lease4, r.interfaces)

\* A request that the far end's proxies and the far end take for the call's.
Arrives(request, c, method, cseq) ==
    LET first == IF c.path = <<>> THEN c.target ELSE c.path[1]
        m == ParseMessage(MarshalMessage(request.message))
    IN  /\ request.to = AddrPortFromURI(first, 5060)
        /\ m.start = [method |-> method, uri |-> c.target]
        /\ Values(m.headers, "route") = [i \in DOMAIN c.path |-> <<URI(c.path[i])>>]
        /\ Get(m.headers, "from") = <<URI(Self), Parameter("tag", "ours")>>
        /\ Get(m.headers, "to") = <<URI(Peer), Parameter("tag", c.tag)>>
        /\ Get(m.headers, "call-id") = <<Atom("call")>>
        /\ CSeq(m) = <<cseq, method>>

\* The requests of a dialog go to its far end, by the proxies that asked to
\* stay on the way and in their order (dialog.go:81, dialog.go:302), with the
\* tags and the numbers that the far end knows them by, however it writes its
\* messages (message.go:28); its 200 goes back the way the INVITE came.  A
\* call without a tag, a Contact or an address for the first step is refused.
\* A reliable provisional response has its PRACK, and a refusal an ACK of the
\* INVITE's branch (ua.go:389).  Each Record-Route is a header of its own: of
\* several in one header only the first would be seen.
RequestsReach ==
    output # None =>
        /\ input.kind = "call" =>
              LET c == input.call
                  known == Given(c.tag) /\ Given(c.target)
                  first == IF c.path = <<>> THEN c.target ELSE c.path[1]
                  leads == HasAddress(first, 5060)
              IN  IF ~known \/ (c.role = "caller" /\ ~leads) THEN output = Failed
                  ELSE /\ output.sdp = <<"s">>
                       /\ c.role = "caller" => /\ Arrives(output.ack, c, "ACK", 1)
                                               /\ Arrives(output.bye, c, "BYE", 2)
                       /\ c.role = "callee" =>
                             /\ IF leads THEN Arrives(output.bye, c, "BYE", 8)
                                         ELSE output.bye = Failed
                             /\ Values(output.ok.headers, "via")
                                   = Values(TheirInvite(c).headers, "via")
                             /\ Param(Get(output.ok.headers, "to"), "tag") = "ours"
        /\ input.kind = "response" =>
              LET r == input.response
                  prack == output.prack
              IN  /\ IF r.require # "100rel" \/ ~Given(r.rseq) THEN prack = None
                     ELSE /\ Get(prack.headers, "rack") = <<Atom(<<r.rseq, 1, "INVITE">>)>>
                          /\ Param(Get(prack.headers, "to"), "tag") = r.tag
                          /\ CSeq(prack)[1] > CSeq(OurInvite)[1]
                  /\ Get(output.ack.headers, "via") = Get(OurInvite.headers, "via")
                  /\ Param(Get(output.ack.headers, "to"), "tag") = r.tag
=============================================================================
