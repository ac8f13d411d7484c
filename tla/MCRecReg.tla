------------------------------ MODULE MCRecReg ------------------------------
(***************************************************************************)
(* RecReg::ParseFromArray reading records item by item: whole ones, two of *)
(* them one after the other, cut at every place, and with items the        *)
(* message does not know.                                                  *)
(***************************************************************************)
EXTENDS RecReg

CONSTANTS Sent,    \* messages devices send
          Extra    \* items RecReg has no use for, or that end it

VARIABLES sent,      \* the message that was serialized
          more,      \* a second one that follows it
          damage,    \* "none", "cut" or "extra"
          wire,      \* what arrived
          s,         \* what is read of it
          at         \* items read

vars == <<sent, more, damage, wire, s, at>>

\* An item whose last bytes are missing, with some of its values: the bytes
\* end between two of them, or inside one or the length.
CutItem(item) ==
    LET Part(n, torn) == [item EXCEPT !.whole = FALSE, !.torn = torn, !.value = SubSeq(@, 1, n)]
    IN  IF item.wire = "varint" THEN {[item EXCEPT !.whole = FALSE, !.torn = TRUE]}
        ELSE {Part(0, TRUE)} \cup {Part(n, torn) : n \in 0..Len(item.value) - 1, torn \in BOOLEAN}

CutGroup(item) ==
    {[item EXCEPT !.whole = FALSE, !.value = SubSeq(@, 1, n)] : n \in 0..Len(item.value)}
    \cup {[item EXCEPT !.whole = FALSE, !.value = SubSeq(@, 1, n - 1) \o <<last>>] :
              <<n, last>> \in UNION {{n} \X CutItem(item.value[n]) : n \in 1..Len(item.value)}}

Cut(items) ==
    {SubSeq(items, 1, n) : n \in 0..Len(items) - 1}
    \cup UNION {{SubSeq(items, 1, n - 1) \o <<last>> :
                     last \in IF items[n].wire = "group" THEN CutGroup(items[n]) ELSE CutItem(items[n])} :
                n \in 1..Len(items)}

\* One more item, before the n-th or first in that group.
Insert(items, n, item) ==
    {InsertAt(items, n, item)}
    \cup IF n <= Len(items) /\ items[n].wire = "group" /\ item.wire \in {"length", "fixed32"}
         THEN {[items EXCEPT ![n].value = <<item>> \o @]}
         ELSE {}

Init ==
    /\ sent \in Sent
    /\ \/ /\ damage = "none"
          /\ more \in Sent
          /\ wire = Serialize(sent) \o Serialize(more)
       \/ /\ damage = "cut"
          /\ more = SharedCtor(RecReg)
          /\ wire \in Cut(Serialize(sent))
       \/ /\ damage = "extra"
          /\ more = SharedCtor(RecReg)
          /\ \E item \in Extra, n \in 1..Len(Serialize(sent)) + 1 :
                 wire \in Insert(Serialize(sent), n, item)
    /\ s = Reading
    /\ at = 0

\* One turn of the loop of MergePartialFromCodedStream.
ReadItem ==
    /\ at < Len(wire) /\ s.status = "reading"
    /\ s' = RecReg_MergePartial(s, wire[at + 1])
    /\ at' = at + 1
    /\ UNCHANGED <<sent, more, damage, wire>>

Next == ReadItem

Spec == Init /\ [][Next]_vars

Done == at = Len(wire) \/ s.status # "reading"

-----------------------------------------------------------------------------
TypeOK ==
    /\ at \in 0..Len(wire)
    /\ s.status \in {"reading", "ended", "failed"}
    /\ FieldsOK(RecReg, s.message.fields)
    /\ \A name \in DOMAIN s.message.fields \ {"mID"} :
           FieldsOK(Group[name].fields, s.message.fields[name].fields)

\* What was written is read back, every field under its name and with its
\* value, and a record that follows in the same bytes is merged into it: the
\* lists of over 80 fields in the parser, the serializer and MergeFrom agree
\* (message.pb.cc).  It is accepted when its navigation group, if any, is
\* complete (IsInitialized, line 1914).
ReadsBack ==
    damage = "none" /\ Done =>
        /\ s.message = MergeFrom(sent, more)
        /\ Accepted(s) <=> IsInitialized(MergeFrom(sent, more))

\* ByteSize announces exactly the bytes the serializer writes, for what was
\* read up to any point, unknown items included: group lengths and cached
\* sizes rely on it (message.pb.cc 893-5072).
SizeIsLength == ByteSize(s.message) = Length(Serialize(s.message))

\* What a group says is the beginning of what was sent.
Begins(kinds, part, whole) ==
    \A name \in DOMAIN part :
        CASE kinds[name] \in {"uint32", "sint32"} -> part[name] = whole[name]
          [] kinds[name] \in {"bytes", "packed"} -> IsPrefix(part[name], whole[name])
          [] kinds[name] = "string" ->
                 part[name] # <<>> => /\ IsPrefix(Front(part[name]), whole[name])
                                      /\ IsPrefix(Last(part[name]), whole[name][Len(part[name])])

\* A record cut short is refused, or it was cut between two of its groups and
\* what is left is whole, or between two of its events (message.pb.cc 4732),
\* and only events are left: then nobody notices that the rest is missing.  It
\* is never accepted when the bytes end inside a value, and no value is ever
\* made up (info_package.cpp 90 uses what was read either way).
CutIsNoticed ==
    damage = "cut" =>
        /\ Accepted(s) /\ Done =>
               /\ \A n \in DOMAIN wire : ~wire[n].torn
               /\ \/ IsPrefix(Serialize(s.message), Serialize(sent))
                  \/ DOMAIN s.message.fields = {"mID"}
        /\ IsPrefix(s.message.fields.mID, sent.fields.mID)
        /\ \A name \in DOMAIN s.message.fields \ {"mID"} :
               Begins(Group[name].fields, s.message.fields[name].fields, sent.fields[name].fields)

Known(message) ==
    [name \in DOMAIN message.fields |->
        IF name = "mID" THEN message.fields.mID ELSE message.fields[name].fields]

\* An item from a newer message.proto disturbs none of the known fields, in
\* the record or in a group, and is kept and written again; an end tag that
\* ends no group, or a tag of no kind, makes the record refused
\* (handle_uninterpreted, message.pb.cc 4844-4852).
UnknownIsCarried ==
    damage = "extra" /\ Done =>
        IF \E n \in DOMAIN wire : wire[n].wire \in {"end", "reserved"} THEN ~Accepted(s)
        ELSE /\ Known(s.message) = Known(sent)
             /\ Length(Serialize(s.message)) = Length(wire)

-----------------------------------------------------------------------------
(* The messages: each group alone, in three sets of values, or only one of *)
(* its fields; nothing; events only; everything.                           *)

Sample(kind, j, k) ==
    CASE kind = "uint32" -> <<j, 127 + j, 16383 + j>>[k]
      [] kind = "sint32" -> <<-j, 63 + j, -8191 - j>>[k]
      [] kind = "bytes" -> <<<<>>, <<1, j>>, <<1, 2, 3, j>>>>[k]
      [] kind = "packed" -> <<<<>>, <<j, 300>>, <<1, 20000, j>>>>[k]
      [] kind = "string" -> <<<<>>, <<<<j>>, <<>>>>, <<<<1, 2>>, <<3, 4, j>>>>>>[k]

Number(group, name) == (CHOOSE row \in Group[group].parse : row[2] = name)[1]

Filled(group, names, k) ==
    [fields |-> [name \in names |-> Sample(Group[group].fields[name], Number(group, name), k)]
                @@ SharedCtor(Group[group].fields).fields,
     unknown |-> <<>>]

With(events, groups) == [fields |-> [mID |-> events] @@ groups, unknown |-> <<>>]

One == [General |-> "Phone", Photo |-> "BUF", NAV |-> "LAT", UniDt |-> "UniVal3",
        CanDt |-> "SPN582", LLSDt |-> "FLLS6", LOG |-> "Debug"]

MCSent ==
    {With(<<>>, <<>>), With(<<200, 3>>, <<>>)}
    \cup {With(<<1>>, name :> Filled(name, DOMAIN Group[name].fields, k)) :
              name \in DOMAIN Group, k \in 1..3}
    \cup {With(<<2, 1>>, name :> Filled(name, {One[name]}, 2)) : name \in DOMAIN Group}
    \cup {With(<<7>>, [name \in DOMAIN Group |->
                          Filled(name, DOMAIN Group[name].fields, k)]) : k \in {2, 3}}

MCExtra == {Item(3, "varint", 5), Item(2, "length", <<1, 2>>), Item(1, "fixed32", 0),
            Item(20, "group", <<Item(1, "varint", 300)>>), Item(5, "end", 0),
            [Item(3, "reserved", 0) EXCEPT !.whole = FALSE]}
=============================================================================
