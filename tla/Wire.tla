-------------------------------- MODULE Wire --------------------------------
(***************************************************************************)
(* The binary encodings: the seven packet bodies and the header of         *)
(* packet/, and the two UDP forms of legacy/udp.go.                        *)
(*                                                                         *)
(* Every MarshalBinary writes its fields in the order of a layout, and     *)
(* every UnmarshalBinary reads them back in that order, so the layouts are *)
(* data and the two directions are one operator each.  A layout is a       *)
(* sequence of slots, the fixed part:                                      *)
(*                                                                         *)
(*   "b" "w" "q"  a number of one, two or four bytes, big-endian           *)
(*   "l" "L"      the length of the next text, in one or two bytes         *)
(*   "n"          the number of arguments                                  *)
(*                                                                         *)
(* After it come one length byte per argument, the texts and the           *)
(* arguments.  A packet is a record of its numbers, texts and arguments.   *)
(***************************************************************************)
EXTENDS Naturals, Sequences, FiniteSets, SequencesExt

CONSTANTS
    MaxByte,           \* the largest byte, 255 in the code
    HeaderVersions,    \* the bytes Version.Valid accepts
    Simple, Extended   \* the version bytes of the two UDP forms

ASSUME WireAssumption ==
    /\ MaxByte \in Nat \ {0}
    /\ HeaderVersions \subseteq 0..MaxByte
    /\ {Simple, Extended} \subseteq 0..MaxByte

Base == MaxByte + 1
Bytes == 0..MaxByte

Refused == [ok |-> FALSE]
Accepted(v) == [ok |-> TRUE, v |-> v]

-----------------------------------------------------------------------------
(* Layouts.  What follows the pieces is an error ("none"), one more text   *)
(* ("text"), or not looked at ("ignored"); "writes" and "reads" are the    *)
(* first bytes the two directions accept.                                  *)

BodyLayout(slots) ==
    [slots |-> slots, tail |-> "none", writes |-> Bytes, reads |-> Bytes]

\* action, priv_lvl, type, service; user, port, rem_addr, data
AuthenStart == BodyLayout(<<"b", "b", "b", "b", "l", "l", "l", "l">>)
\* user_msg, data; flags
AuthenContinue == BodyLayout(<<"L", "L", "b">>)
\* status, flags; server_msg, data
AuthenReply == BodyLayout(<<"b", "b", "L", "L">>)
\* method, priv_lvl, type, service; user, port, rem_addr; args
AuthorRequest == BodyLayout(<<"b", "b", "b", "b", "l", "l", "l", "n">>)
\* status; args; server_msg, data
AuthorReply == BodyLayout(<<"b", "n", "L", "L">>)
\* flags, method, priv_lvl, type, service; user, port, rem_addr; args
AcctRequest == BodyLayout(<<"b", "b", "b", "b", "b", "l", "l", "l", "n">>)
\* server_msg, data; status
AcctReply == BodyLayout(<<"L", "L", "b">>)

\* version, type, seq_no, flags, session id, length
Header == [slots |-> <<"b", "b", "b", "b", "q", "q">>, tail |-> "ignored",
           writes |-> Bytes, reads |-> HeaderVersions]

\* version, type, nonce, user_len, pw_len; user and password
UDPSimple == [slots |-> <<"b", "b", "w", "b", "b">>, tail |-> "text",
              writes |-> {Simple}, reads |-> Bytes]

\* version, type, nonce, user_len, pw_len, response, reason, result1,
\* dest_host, dest_port, line, result2, result3; user and password
UDPExtended == [slots |-> <<"b", "b", "w", "b", "b", "b", "b", "q",
                            "q", "w", "w", "q", "w">>, tail |-> "text",
                writes |-> {Extended}, reads |-> Bytes]

Numbers == {"b", "w", "q"}
Lengths == {"l", "L"}

Width(slot) == CASE slot \in {"w", "L"} -> 2
                 [] slot = "q" -> 4
                 [] OTHER -> 1

Slots(layout, kinds) == SelectSeq(layout.slots, LAMBDA s : s \in kinds)

\* Which number, or which text, slot i is about.
Ordinal(slots, i, kinds) == Cardinality({j \in 1..i : slots[j] \in kinds})

Sum(ns) == FoldLeft(LAMBDA a, b : a + b, 0, ns)
FixedLen(slots) == Sum([i \in DOMAIN slots |-> Width(slots[i])])

-----------------------------------------------------------------------------
(* Bytes and numbers: binary.BigEndian. *)

PutUint(n, w) == [k \in 1..w |-> (n \div Base^(w - k)) % Base]
Uint(bs) == FoldLeft(LAMBDA n, b : n * Base + b, 0, bs)

\* Mutant: one more than fits is let through.
CheckLenMore(slot, n) == n <= Base^Width(slot)

\* checkByteLen and checkU16Len.
CheckLen(slot, n) == n < Base^Width(slot)

\* encodeArgLengths: as many arguments as a byte can count, each as long as a
\* byte can tell.
CheckArgs(args) ==
    Len(args) <= MaxByte /\ \A i \in DOMAIN args : CheckLen("l", Len(args[i]))

-----------------------------------------------------------------------------
\* MarshalBinary.  A packet's numbers fit their types.
Marshal(layout, p) ==
    LET slots == layout.slots
        lens == Slots(layout, Lengths)
        Put(i) ==
            CASE slots[i] \in Numbers ->
                   PutUint(p.nums[Ordinal(slots, i, Numbers)], Width(slots[i]))
              [] slots[i] \in Lengths ->
                   PutUint(Len(p.texts[Ordinal(slots, i, Lengths)]),
                           Width(slots[i]))
              [] OTHER -> PutUint(Len(p.args), 1)
        Fits == /\ \A k \in DOMAIN lens : CheckLen(lens[k], Len(p.texts[k]))
                /\ CheckArgs(p.args)
        fixed == FlattenSeq([i \in DOMAIN slots |-> Put(i)])
    IN IF Fits /\ fixed[1] \in layout.writes
       THEN Accepted(fixed \o [i \in DOMAIN p.args |-> Len(p.args[i])]
                           \o FlattenSeq(p.texts) \o FlattenSeq(p.args))
       ELSE Refused

\* The pieces of the given lengths, from position pos on.
Cut(data, pos, ns) ==
    [k \in DOMAIN ns |->
        LET from == pos + Sum(SubSeq(ns, 1, k - 1))
        IN SubSeq(data, from + 1, from + ns[k])]

\* Mutant: too many bytes are as good as enough.
TotalEnough(layout, data, total) == total <= Len(data)

\* "length mismatch": the lengths account for every byte of a body.
TotalRight(layout, data, total) ==
    total = Len(data) \/ (layout.tail # "none" /\ total < Len(data))

\* UnmarshalBinary: the fixed part, then the argument lengths (see
\* decodeArgLengths), then the total, then the pieces.
Unmarshal(layout, data) ==
    LET slots == layout.slots
        fixed == FixedLen(slots)
        Get(i) == LET from == FixedLen(SubSeq(slots, 1, i - 1))
                  IN Uint(SubSeq(data, from + 1, from + Width(slots[i])))
        All(kinds) == [k \in 1..Ordinal(slots, Len(slots), kinds) |->
                          Get(CHOOSE i \in DOMAIN slots :
                                /\ slots[i] \in kinds
                                /\ Ordinal(slots, i, kinds) = k)]
        n == Sum(All({"n"}))
        start == fixed + n
        texts == All(Lengths)
        args == SubSeq(data, fixed + 1, start)
        total == start + Sum(texts) + Sum(args)
    IN IF \/ Len(data) < fixed
          \/ data[1] \notin layout.reads
          \/ start > Len(data)
          \/ ~TotalRight(layout, data, total)
       THEN Refused
       ELSE Accepted(
              [nums  |-> All(Numbers),
               texts |-> IF layout.tail = "text"
                         THEN <<SubSeq(data, total + 1, Len(data))>>
                         ELSE Cut(data, start, texts),
               args  |-> Cut(data, start + Sum(texts), args)])

\* UDPSimple.User and Password, and the same two of UDPExtended: user_len is
\* the fourth number, pw_len is not consulted.
UserOf(p) == SubSeq(p.texts[1], 1, Min({p.nums[4], Len(p.texts[1])}))
PasswordOf(p) ==
    IF p.nums[4] > Len(p.texts[1]) THEN <<>>
    ELSE SubSeq(p.texts[1], p.nums[4] + 1, Len(p.texts[1]))
=============================================================================
