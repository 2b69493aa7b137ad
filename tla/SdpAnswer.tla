----------------------------- MODULE SdpAnswer -----------------------------
(***************************************************************************)
(* SDP (sdp.go).  A body is a sequence of lines, known by their key:       *)
(*   c   its address, Bad, or Unspecified (:: and 0.0.0.0)                 *)
(*   m   whether it describes application/udp/octet-stream, and its port;  *)
(*       Bad for a line too short, or a port of such a medium that is no   *)
(*       number                                                            *)
(*   b, a   the value of b=AS:, of a=udp-setup:, None for another          *)
(* ParseAnswer skips lines of any other key.                               *)
(***************************************************************************)
EXTENDS Texts, Naturals, Sequences, SequencesExt

CONSTANTS Unspecified

Connection(address) == [key |-> "c", address |-> address]
Medium(fits, port)  == [key |-> "m", fits |-> fits, port |-> port]
Bandwidth(kbps)     == [key |-> "b", kbps |-> kbps]
Setup(role)         == [key |-> "a", role |-> role]
Other               == [key |-> "v"]

\* What ParseAnswer has read so far.
Begun == [sessionAddr |-> None, mediaAddr |-> None, inMedia |-> FALSE, found |-> FALSE,
          port |-> 0, kbps |-> 0, setup |-> None, failed |-> FALSE]

\* (Slip: the place of the line is not looked at.)
ReadConnectionAnywhere(st, l) ==
    IF l.address = Bad THEN [st EXCEPT !.failed = TRUE]
    ELSE [st EXCEPT !.sessionAddr = l.address]

ReadConnection(st, l) ==
    IF l.address = Bad THEN [st EXCEPT !.failed = TRUE]
    ELSE IF st.inMedia THEN [st EXCEPT !.mediaAddr = l.address]
    ELSE [st EXCEPT !.sessionAddr = l.address]

ReadMedium(st, l) ==
    IF l.port = Bad THEN [st EXCEPT !.failed = TRUE]
    ELSE IF l.fits THEN [st EXCEPT !.inMedia = TRUE, !.found = TRUE, !.port = l.port]
    ELSE [st EXCEPT !.inMedia = FALSE]

\* One line; after an error, nothing.
ReadLine(st, l) ==
    IF st.failed THEN st
    ELSE CASE l.key = "c" -> ReadConnection(st, l)
           [] l.key = "m" -> ReadMedium(st, l)
           [] l.key = "b" /\ st.inMedia /\ Given(l.kbps) -> [st EXCEPT !.kbps = l.kbps]
           [] l.key = "a" /\ st.inMedia /\ Given(l.role) -> [st EXCEPT !.setup = l.role]
           [] OTHER -> st

\* What has been read of a body after n lines.
Reading(body) ==
    LET upTo[n \in 0 .. Len(body)] ==
            IF n = 0 THEN Begun ELSE ReadLine(upTo[n - 1], body[n])
    IN  upTo

\* A port of 0 refuses the medium.
IsPort(p) == p \in 1 .. 65535

ParseAnswer(body) ==
    LET st == Reading(body)[Len(body)]
        address == Else(st.mediaAddr, st.sessionAddr)
    IN  IF st.failed THEN Failed
        ELSE IF \/ ~st.found \/ ~IsPort(st.port)
                \/ address \in {None, Unspecified} THEN Failed
        ELSE [address |-> address, port |-> st.port, kbps |-> st.kbps, setup |-> st.setup]

\* Offer.Marshal: the lines v, o, s, c, t, m, b, a.
Marshal(offer) ==
    <<Other, Other, Other, Connection(offer.address), Other, Medium(TRUE, offer.port)>>
    \o (IF offer.kbps > 0 THEN <<Bandwidth(offer.kbps)>> ELSE <<>>)
    \o (IF Given(offer.setup) THEN <<Setup(offer.setup)>> ELSE <<>>)

-----------------------------------------------------------------------------
(***************************************************************************)
(* What an answer says, by the sections of a session description.          *)
(***************************************************************************)
Lines(body, key) == {i \in DOMAIN body : body[i].key = key}

\* Lines of which every c= has an address; and what Marshal can be given.
IsBody(body) ==
    /\ body \in Seq(Range(body))
    /\ \A i \in Lines(body, "c") : Given(body[i].address)

IsOffer(offer) ==
    /\ offer = [address |-> offer.address, port |-> offer.port,
                kbps |-> offer.kbps, setup |-> offer.setup]
    /\ offer.address \notin {None, Bad, Unspecified}
    /\ IsPort(offer.port) /\ offer.port # Bad
    /\ offer.kbps \in Nat /\ Given(offer.kbps)

\* The lines of the session, and those of the medium that line d begins.
SessionPart(body) == {i \in DOMAIN body : \A j \in Lines(body, "m") : i < j}
Section(body, d)  == {i \in DOMAIN body : d < i /\ \A j \in Lines(body, "m") : j <= d \/ i < j}

DataMedia(body) == {i \in Lines(body, "m") : body[i].fits}

Errors(body) == \/ \E i \in Lines(body, "c") : body[i].address = Bad
                \/ \E i \in Lines(body, "m") : body[i].port = Bad

\* The last value that lines of a key give in a part of the body.
LastOf(body, part, key, field, absent) ==
    LET given == {i \in part \intersect Lines(body, key) : Given(body[i][field])}
    IN  IF given = {} THEN absent ELSE body[Max(given)][field]

\* The answer of a body whose one data medium is at d.
Meant(body, d) ==
    LET own  == LastOf(body, Section(body, d), "c", "address", None)
        address == Else(own, LastOf(body, SessionPart(body), "c", "address", None))
    IN  IF \/ Errors(body) \/ ~IsPort(body[d].port)
           \/ address \in {None, Unspecified} THEN Failed
        ELSE [address |-> address, port |-> body[d].port,
              kbps  |-> LastOf(body, Section(body, d), "b", "kbps", 0),
              setup |-> LastOf(body, Section(body, d), "a", "role", None)]

\* An address given for a medium of another kind.
AddressOfAnother(body) ==
    \E d \in Lines(body, "m") \ DataMedia(body) :
        Section(body, d) \intersect Lines(body, "c") # {}
=============================================================================
