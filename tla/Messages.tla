------------------------------ MODULE Messages ------------------------------
(***************************************************************************)
(* SIP messages (message.go) and what a dialog makes of them (dialog.go,   *)
(* ua.go): its route set, and the requests and responses sent in it.       *)
(*                                                                         *)
(* A header's value is a sequence of pieces: a URI, parameters, or an atom *)
(* of another kind.  A URI has a user, a host (an address, or Bad for a    *)
(* name) and a port.  On the wire a header may go on in the next line,     *)
(* which then has no name.                                                 *)
(***************************************************************************)
EXTENDS Texts, Naturals, Sequences, SequencesExt

Header(name, value) == [name |-> name, value |-> value]
URI(uri)            == [uri |-> uri]
Parameter(name, v)  == [param |-> name, is |-> v]
Atom(x)             == [atom |-> x]

CompactForms ==
    [v |-> "via", f |-> "from", t |-> "to", i |-> "call-id", m |-> "contact",
     l |-> "content-length", c |-> "content-type", k |-> "supported"]

Canon(name) == IF name \in DOMAIN CompactForms THEN CompactForms[name] ELSE name

Named(h, name) == Canon(h.name) = Canon(name)

Values(headers, name) ==
    FlattenSeq([i \in DOMAIN headers |->
                   IF Named(headers[i], name) THEN <<headers[i].value>> ELSE <<>>])

Get(headers, name) ==
    LET all == Values(headers, name) IN IF all = <<>> THEN <<>> ELSE all[1]

\* One header of the name, in the place of the first.
Put(headers, name, value) ==
    LET all  == Append(headers, Header(name, value))
        same == {i \in DOMAIN all : Named(all[i], name)}
    IN  FlattenSeq([i \in DOMAIN all |->
                       IF i \notin same THEN <<all[i]>>
                       ELSE IF \A j \in same : i <= j THEN <<Header(name, value)>> ELSE <<>>])

\* The pieces of a kind, by their places; the first counts, None without one.
Having(value, kind) == {i \in DOMAIN value : kind \in DOMAIN value[i]}

Param(value, name) ==
    LET at == {i \in Having(value, "param") : value[i].param = name}
    IN  IF at = {} THEN None ELSE value[Min(at)].is

URIInAngle(value) ==
    LET at == Having(value, "uri") IN IF at = {} THEN None ELSE value[Min(at)].uri

AtomOf(value) ==
    LET at == Having(value, "atom") IN IF at = {} THEN None ELSE value[Min(at)].atom

\* The host must be an address, the port a number of 16 bits.
HasAddress(uri, defaultPort) ==
    uri # None /\ uri.host # Bad /\ Else(uri.port, defaultPort) \in 0 .. 65535

AddrPortFromURI(uri, defaultPort) ==
    IF ~HasAddress(uri, defaultPort) THEN Failed
    ELSE [host |-> uri.host, port |-> Else(uri.port, defaultPort)]

FormatURI(user, at) == [user |-> user, host |-> at.host, port |-> at.port]

\* A value that goes on in the next line; a header's name is never None, and
\* no line goes on from the start line.
ReadOn(out, l) ==
    IF l.name = None /\ out # <<>>
    THEN [out EXCEPT ![Len(out)] = Header(@.name, @.value \o l.value)]
    ELSE Append(out, l)

\* The headers in the first n lines.
Unfolding(lines) ==
    LET upTo[n \in 0 .. Len(lines)] ==
            IF n = 0 THEN <<>> ELSE ReadOn(upTo[n - 1], lines[n])
    IN  upTo

Unfold(lines) == Unfolding(lines)[Len(lines)]

\* Content-Length cuts the body when there is that much of it.
ParseMessage(wire) ==
    LET headers == Unfold(wire.lines)
        length  == AtomOf(Get(headers, "content-length"))
    IN  IF wire.start = Bad \/ \E i \in DOMAIN headers : headers[i].name = Bad THEN Failed
        ELSE [start |-> wire.start, headers |-> headers,
              body |-> IF length \in 0 .. Len(wire.body) THEN SubSeq(wire.body, 1, length)
                                                         ELSE wire.body]

MarshalMessage(m) ==
    [start |-> m.start, lines |-> Put(m.headers, "content-length", <<Atom(Len(m.body))>>),
     body |-> m.body]

\* The number and the method, 0 and None when they cannot be read.
CSeq(m) == LET value == Get(m.headers, "cseq")
           IN  IF Having(value, "atom") = {} THEN <<0, None>> ELSE AtomOf(value)

-----------------------------------------------------------------------------
(***************************************************************************)
(* Dialogs.                                                                *)
(***************************************************************************)
\* The INVITE, with an SDP offer.
Invite(self, peer, callID, localTag, local, proxy, sdp) ==
    [start |-> [method |-> "INVITE", uri |-> peer],
     headers |-> <<Header("via", <<URI(FormatURI(None, local))>>),
                   Header("route", <<URI(FormatURI(None, proxy))>>),
                   Header("from", <<URI(self), Parameter("tag", localTag)>>),
                   Header("to", <<URI(peer)>>),
                   Header("call-id", <<Atom(callID)>>),
                   Header("cseq", <<Atom(<<1, "INVITE">>)>>),
                   Header("contact", <<URI(FormatURI("instance", local))>>)>>,
     body |-> sdp]

\* The far end's From or To needs a tag, and its message a Contact.
Usable(remote, m) ==
    Given(Param(remote, "tag")) /\ Given(URIInAngle(Get(m.headers, "contact")))

\* (Slip: the route set as the far end has it.)
RoutesAsListed(resp) == Values(resp.headers, "record-route")

RoutesOfCaller(resp) == Reverse(Values(resp.headers, "record-route"))

NewDialogUAC(req, resp, callID, localTag, localURI, remoteURI) ==
    LET remote == Get(resp.headers, "to")
    IN  IF ~Usable(remote, resp) THEN Failed
        ELSE [callID |-> callID, localTag |-> localTag, remoteTag |-> Param(remote, "tag"),
              localURI |-> localURI, remoteURI |-> remoteURI,
              remoteTarget |-> URIInAngle(Get(resp.headers, "contact")),
              routeSet |-> RoutesOfCaller(resp), cseq |-> CSeq(req)[1]]

\* Accept's dialog: the routes as they come.
AcceptDialog(req, localTag) ==
    LET remote == Get(req.headers, "from")
    IN  IF ~Usable(remote, req) THEN Failed
        ELSE [callID |-> AtomOf(Get(req.headers, "call-id")), localTag |-> localTag,
              remoteTag |-> Param(remote, "tag"),
              localURI |-> URIInAngle(Get(req.headers, "to")), remoteURI |-> URIInAngle(remote),
              remoteTarget |-> URIInAngle(Get(req.headers, "contact")),
              routeSet |-> Values(req.headers, "record-route"), cseq |-> CSeq(req)[1]]

NextHop(d) == IF d.routeSet = <<>> THEN d.remoteTarget ELSE URIInAngle(d.routeSet[1])

\* Where the request goes, and the request.
NewRequest(d, method, cseq, local) ==
    IF ~HasAddress(NextHop(d), 5060) THEN Failed
    ELSE [to |-> AddrPortFromURI(NextHop(d), 5060),
          message |->
            [start |-> [method |-> method, uri |-> d.remoteTarget],
             headers |-> <<Header("via", <<URI(FormatURI(None, local))>>)>>
                 \o [i \in DOMAIN d.routeSet |-> Header("route", d.routeSet[i])]
                 \o <<Header("from", <<URI(d.localURI), Parameter("tag", d.localTag)>>),
                      Header("to", <<URI(d.remoteURI), Parameter("tag", d.remoteTag)>>),
                      Header("call-id", <<Atom(d.callID)>>),
                      Header("cseq", <<Atom(<<cseq, method>>)>>)>>,
             body |-> <<>>]]

\* The ACK of a 2xx repeats the INVITE's number, the BYE takes the next.
Ack(d, local) == NewRequest(d, "ACK", d.cseq, local)
Bye(d, local) == NewRequest(d, "BYE", d.cseq + 1, local)

\* What every response copies of its request.
ResponseTo(req, status, localTag) ==
    LET to  == Get(req.headers, "to")
        tag == IF Param(to, "tag") = None /\ Given(localTag)
               THEN <<Parameter("tag", localTag)>> ELSE <<>>
        via == Values(req.headers, "via")
    IN  [start |-> [status |-> status],
         headers |-> [i \in DOMAIN via |-> Header("via", via[i])]
             \o <<Header("from", Get(req.headers, "from")), Header("to", to \o tag),
                  Header("call-id", Get(req.headers, "call-id")),
                  Header("cseq", Get(req.headers, "cseq"))>>,
         body |-> <<>>]

\* The ACK of any other final response: the INVITE's branch and number.
AckFailure(invite, resp) ==
    [start |-> [method |-> "ACK", uri |-> invite.start.uri],
     headers |-> <<Header("via", Get(invite.headers, "via")),
                   Header("from", Get(invite.headers, "from")),
                   Header("to", Get(resp.headers, "to")),
                   Header("call-id", Get(invite.headers, "call-id")),
                   Header("cseq", <<Atom(<<CSeq(invite)[1], "ACK">>)>>)>>,
     body |-> <<>>]

\* The PRACK of a reliable provisional response, None for another.
MaybePrack(resp, invite, local, localTag) ==
    LET rseq   == AtomOf(Get(resp.headers, "rseq"))
        target == Else(URIInAngle(Get(resp.headers, "contact")), invite.start.uri)
        cseq   == CSeq(invite)[1]
    IN  IF AtomOf(Get(resp.headers, "require")) # "100rel" \/ rseq = None THEN None
        ELSE [start |-> [method |-> "PRACK", uri |-> target],
              headers |-> <<Header("via", <<URI(FormatURI(None, local))>>),
                            Header("from", <<URI(URIInAngle(Get(invite.headers, "from"))),
                                             Parameter("tag", localTag)>>),
                            Header("to", Get(resp.headers, "to")),
                            Header("call-id", Get(invite.headers, "call-id")),
                            Header("cseq", <<Atom(<<cseq + 1, "PRACK">>)>>),
                            Header("rack", <<Atom(<<rseq, cseq, "INVITE">>)>>)>>,
              body |-> <<>>]
=============================================================================
