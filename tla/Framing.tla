------------------------------ MODULE Framing -------------------------------
(***************************************************************************)
(* Packets on a byte stream: transport/framing.go, the reading and writing *)
(* of transport/conn.go, and the body obfuscation of crypto/obfuscate.go.  *)
(*                                                                         *)
(* A header is the record of its fields.  An end of a connection is        *)
(* [mode, secret].  The deadlines of Conn.ReadPacket are in the module     *)
(* Server; here the stream has ended where its bytes end.                  *)
(***************************************************************************)
EXTENDS Wire

CONSTANTS
    XorByte(_, _),     \* exclusive or of two bytes
    Digest(_),         \* md5: a sequence of DigestSize bytes
    DigestSize,        \* md5DigestSize, 16 in the code
    MaxPacketSize,     \* 65536 in the code
    FlagUnencrypted    \* the flag bit, 1 in the code

ASSUME FramingAssumption ==
    /\ \A a, b \in Bytes : XorByte(a, b) \in Bytes /\ XorByte(XorByte(a, b), b) = a
    /\ {DigestSize, FlagUnencrypted} \subseteq Nat \ {0}
    /\ MaxPacketSize \in Nat

\* flag is a single bit.
Has(flags, flag) == (flags \div flag) % 2 = 1
Set(flags, flag) == IF Has(flags, flag) THEN flags ELSE flags + flag

\* Each digest covers the one before it; the last is cut to the body's end.
pseudoPad(n, key, hdr) ==
    LET base == PutUint(hdr.session, 4) \o key \o <<hdr.version, hdr.seq>>
        blocks == (n + DigestSize - 1) \div DigestSize
        digest[k \in 1..blocks] ==
            Digest(IF k = 1 THEN base ELSE base \o digest[k - 1])
    IN SubSeq(FlattenSeq([k \in 1..blocks |-> digest[k]]), 1, n)

\* Obfuscate, DeobfuscateInPlace and xorPad.
Obfuscate(body, key, hdr) ==
    LET pad == pseudoPad(Len(body), key, hdr)
    IN [i \in DOMAIN body |-> XorByte(body[i], pad[i])]

\* Where both directions of Conn apply the pad.
Protect(conn, hdr, body) ==
    IF conn.mode = "legacy" /\ ~Has(hdr.flags, FlagUnencrypted)
    THEN Obfuscate(body, conn.secret, hdr) ELSE body

\* WritePacket: one write of header and body, of any size.
Frame(hdr, body) ==
    Marshal(Header, [nums |-> <<hdr.version, hdr.type, hdr.seq, hdr.flags, hdr.session,
                                Len(body)>>,
                     texts |-> <<>>, args |-> <<>>]).v \o body

\* Conn.WritePacket.
WritePacket(conn, hdr, body) ==
    Frame(IF conn.mode = "tls"
          THEN [hdr EXCEPT !.flags = Set(hdr.flags, FlagUnencrypted)] ELSE hdr,
          Protect(conn, hdr, body))

ReadHeader(stream) ==
    LET Bounded(h) ==
            IF ~h.ok THEN Refused
            ELSE IF h.v.nums[6] > MaxPacketSize THEN Refused
            ELSE Accepted([version |-> h.v.nums[1], type |-> h.v.nums[2],
                           seq |-> h.v.nums[3], flags |-> h.v.nums[4],
                           session |-> h.v.nums[5], length |-> h.v.nums[6]])
    IN Bounded(Unmarshal(Header, stream))

\* The body, from where the header ends, and what follows it.
ReadBody(stream, hdr) ==
    LET Take(start, end) ==
            IF Len(stream) < end THEN Refused
            ELSE Accepted([body |-> SubSeq(stream, start + 1, end),
                           rest |-> SubSeq(stream, end + 1, Len(stream))])
    IN Take(FixedLen(Header.slots), FixedLen(Header.slots) + hdr.length)

\* Conn.ReadPacket: a packet and what follows it.
ReadPacket(conn, stream) ==
    LET Packet(hdr, b) ==
            IF ~b.ok THEN Refused
            ELSE Accepted([hdr |-> hdr, body |-> Protect(conn, hdr, b.v.body),
                           rest |-> b.v.rest])
        Rest(h) == IF h.ok THEN Packet(h.v, ReadBody(stream, h.v)) ELSE Refused
    IN Rest(ReadHeader(stream))
=============================================================================
