---------------------------- MODULE MCInfoPackage ----------------------------
(***************************************************************************)
(* Packets for InfoPackage: up to three records, with one event, two or    *)
(* none, with every group, with some, or cut short by the device in the    *)
(* middle of the navigation group or of a text, or between two events;     *)
(* their length right, one byte short (the last record says more than      *)
(* there is) or one byte long.                                             *)
(***************************************************************************)
EXTENDS InfoPackage

\* A value for each field, different from record to record.
Sample(kind, j, x) ==
    CASE kind = "uint32" -> 10 * x + j
      [] kind = "sint32" -> -10 * x - j
      [] kind = "bytes" -> <<x, j, 5>>
      [] kind = "packed" -> <<x, 300>>
      [] kind = "string" -> <<<<x>>, <<x, j>>>>

Filled(name, fields, x) ==
    [fields |-> [field \in fields |->
                    Sample(Group[name].fields[field],
                           (CHOOSE row \in Group[name].parse : row[2] = field)[1], x)]
                @@ SharedCtor(Group[name].fields).fields,
     unknown |-> <<>>]

Message(mids, groups, x) ==
    [fields |-> [mID |-> mids] @@ [name \in groups |-> Filled(name, DOMAIN Group[name].fields, x)],
     unknown |-> <<>>]

Whole(m) ==
    [data_size |-> Length(Serialize(m)), wire |-> Serialize(m), sent |-> m,
     whole |-> TRUE]

\* The same from another message.proto, which has a field more and another order.
Foreigner(m) ==
    [Whole(m) EXCEPT !.data_size = @ + 2, !.wire = <<Item(3, "varint", 9)>> \o Reverse(@)]

\* The last group lacks what it has from the n-th field on; the number or the
\* text of the last item that is left is cut as well.
CutInGroup(m, n) ==
    LET items == Serialize(m)
        group == Last(items).value
        last == [group[n] EXCEPT !.whole = FALSE, !.torn = TRUE,
                                 !.value = IF group[n].wire = "length" THEN Front(@) ELSE @]
        wire == Front(items) \o <<[Last(items) EXCEPT !.whole = FALSE,
                                                     !.value = SubSeq(@, 1, n - 1) \o <<last>>]>>
    IN  [data_size |-> Length(Front(items)) + n, wire |-> wire, sent |-> m,
         whole |-> FALSE]

\* Only the events up to the n-th came, and nobody notices.
CutInEvents(m, n) ==
    LET part == [Serialize(m)[1] EXCEPT !.whole = FALSE, !.value = SubSeq(@, 1, n)]
    IN  [data_size |-> n + 2, wire |-> <<part>>, sent |-> m, whole |-> FALSE]

Position == Message(<<4>>, {"NAV"}, 4)

MCRecord ==
    {Whole(Message(<<1>>, DOMAIN Group, 1)), Whole(Message(<<2, 3>>, {"UniDt"}, 2)), Whole(Position),
     Foreigner(Message(<<5>>, {"General", "LLSDt"}, 3)), Whole(Message(<<>>, {}, 1)),
     CutInGroup(Position, 1), CutInGroup(Position, 6), CutInGroup(Message(<<6, 7>>, {"General"}, 5), 11),
     CutInEvents(Message(<<8, 9>>, {"UniDt"}, 6), 1)}

PayloadSize(records) == FoldLeft(LAMBDA sum, record : sum + size(record), 0, records)

MCPacketOf(records, extra) ==
    [data_len |-> ResponseSize - HeaderSize + PayloadSize(records) + extra,
     records |-> [r \in DOMAIN records |->
                     [at |-> PayloadSize(SubSeq(records, 1, r - 1))] @@ records[r]]]

MCPacket ==
    {MCPacketOf(records, extra) : records \in SeqOf(MCRecord, 2) \ {<<>>}, extra \in {-1, 0, 1}}
    \cup {MCPacketOf(records, 0) : records \in [1..3 -> MCRecord \ {Whole(Message(<<>>, {}, 1))}]}
    \cup {[data_len |-> n, records |-> <<>>] : n \in {0, 6, 9}}
=============================================================================
