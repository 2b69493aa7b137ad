----------------------------- MODULE VendorOpts -----------------------------
(***************************************************************************)
(* The vendor options of the DHCPv6 lease (lease.go): hexadecimal text as  *)
(* dhclient writes it, the options in it, and a domain name in one of      *)
(* them.  A string is the sequence of its bytes.                           *)
(***************************************************************************)
EXTENDS Texts, Naturals, Sequences, SequencesExt

ClientMAC == 201
Extension == 202
SIPDomain == 204

Byte == {x \in Nat : x < 256}

\* A text is its groups of hexadecimal digits, with colons between them (and
\* then a leading zero may be missing) or without.
HexPairs(text) ==
    LET digits == FlattenSeq(text.groups)
    IN  IF Len(digits) % 2 = 1 THEN Failed
        ELSE [i \in 1 .. Len(digits) \div 2 |-> 16 * digits[2 * i - 1] + digits[2 * i]]

DecodeHexish(text) ==
    LET bytes(g) == IF Len(g) < 2 THEN g ELSE <<16 * g[1] + g[2]>>
    IN  IF text.groups = <<>> THEN Failed
        ELSE IF ~text.colons THEN HexPairs(text)
        ELSE IF \E i \in DOMAIN text.groups : Len(text.groups[i]) > 2 THEN Failed
        ELSE FlattenSeq([i \in DOMAIN text.groups |-> bytes(text.groups[i])])

\* Two bytes, the high one first.
Uint16(b, i) == 256 * b[i] + b[i + 1]

Prepend(x, seq) == IF seq = Failed THEN Failed ELSE <<x>> \o seq

\* The pieces of b from byte i on, each where the one before it ends.
Pieces(b, i, ends, pieces) ==
    LET from[j \in 1 .. Len(b) + 1] ==
            IF j \in ends THEN <<>>
            ELSE IF j \notin DOMAIN pieces THEN Failed
            ELSE Prepend(pieces[j].value, from[pieces[j].next])
    IN  from[i]

\* There is an option at i, and all of it.
Fits(b, i) == i + 3 <= Len(b) /\ i + 3 + Uint16(b, i + 2) <= Len(b)

OptionAt(b, i) == LET next == i + 4 + Uint16(b, i + 2)
                  IN  [value |-> <<Uint16(b, i), SubSeq(b, i + 4, next - 1)>>, next |-> next]

\* The options from byte 5 on, as pairs of code and value.
Suboptions(b) ==
    Pieces(b, 5, {Len(b) + 1}, [i \in {j \in DOMAIN b : Fits(b, j)} |-> OptionAt(b, i)])

\* There is a label at i, all of it, and it is no compression.
IsLabel(b, i) == b[i] < 64 /\ i + b[i] <= Len(b)

LabelAt(b, i) == [value |-> SubSeq(b, i + 1, i + b[i]), next |-> i + b[i] + 1]

\* Labels up to one of length 0 or the end.
DecodeDNSName(b) ==
    LET ends == {i \in DOMAIN b : b[i] = 0} \union {Len(b) + 1}
        name == Pieces(b, 1, ends, [i \in {j \in DOMAIN b : IsLabel(b, j)} |-> LabelAt(b, i)])
    IN  IF name = <<>> THEN Failed ELSE name

\* A code that comes again replaces the value before; an unknown one is put
\* aside, and never looked at.
ReadOption(vo, sub) ==
    LET code == sub[1]
        val  == IF code = SIPDomain THEN DecodeDNSName(sub[2]) ELSE sub[2]
    IN  IF vo = Failed \/ val = Failed THEN Failed
        ELSE IF code \in DOMAIN vo THEN [vo EXCEPT ![code] = val] ELSE vo

OptionValues == Seq(Byte) \union Seq(Seq(Byte)) \union {None}

NoOptions == [code \in {ClientMAC, Extension, SIPDomain} |-> None]

\* What has been read of options after the first n.
OptionsUpTo(subs) ==
    LET upTo[n \in 0 .. Len(subs)] ==
            IF n = 0 THEN NoOptions ELSE ReadOption(upTo[n - 1], subs[n])
    IN  upTo

DecodeVendorOpts(text) ==
    LET b == DecodeHexish(text)
        subs == Suboptions(b)
    IN  IF b = Failed \/ Len(b) < 4 \/ subs = Failed THEN Failed
        ELSE OptionsUpTo(subs)[Len(subs)]

-----------------------------------------------------------------------------
(***************************************************************************)
(* The way there: what the DHCP server sends and dhclient prints.          *)
(***************************************************************************)
Label == {l \in Seq(Byte) : 0 < Len(l) /\ Len(l) < 64}

EncodeName(labels) == FlattenSeq([i \in DOMAIN labels |-> <<Len(labels[i])>> \o labels[i]])

\* What may stand behind the labels of a name: nothing, or a byte that ends
\* it; or what is no label.
EndsName(tail) == tail = <<>> \/ tail[1] = 0
NoLabel(tail)  == tail # <<>> /\ tail[1] # 0 /\ (tail[1] >= 64 \/ 1 + tail[1] > Len(tail))

\* A code and a value, each as long as two bytes can say.
TwoBytes == {x \in Nat : x < 65536}
Option   == {o \in TwoBytes \X Seq(Byte) : Len(o[2]) \in TwoBytes}

EncodeOption(code, value) ==
    <<code \div 256, code % 256, Len(value) \div 256, Len(value) % 256>> \o value

\* The enterprise number and the options, pairs of a code and a value.
EncodeOptions(subs) ==
    <<0, 0, 0, 210>> \o FlattenSeq([i \in DOMAIN subs |-> EncodeOption(subs[i][1], subs[i][2])])

\* With colons, which one byte needs none of, and with or without leading
\* zeroes; or without colons.
Styles == {"short", "long", "plain"}

PrintHex(bytes, style) ==
    LET group(x) == IF style = "short" /\ x < 16 THEN <<x>> ELSE <<x \div 16, x % 16>>
    IN  [colons |-> style # "plain" /\ Len(bytes) > 1,
         groups |-> [i \in DOMAIN bytes |-> group(bytes[i])]]
=============================================================================
