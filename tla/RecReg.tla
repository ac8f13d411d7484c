------------------------------- MODULE RecReg -------------------------------
(***************************************************************************)
(* The record of message.proto as its generated code handles it:           *)
(* src/omnicomm/message.pb.h and message.pb.cc.                            *)
(*                                                                         *)
(* A RecReg holds the numbers of its events and up to seven groups.  For   *)
(* each of the eight messages the code has five lists of the same fields,  *)
(* each translated from its own place: the members of the class, Clear,    *)
(* the switch of MergePartialFromCodedStream, SerializeWithCachedSizes     *)
(* (and its ToArray twin), and ByteSize.  What the protobuf library does   *)
(* with one field is external, and modelled from these calls.              *)
(*                                                                         *)
(* A message is [fields, unknown]: the fields that have their has-bit set, *)
(* and the repeated ones always; then the items it did not know.  On the   *)
(* wire it is a sequence of items, tag and value; a group holds items.     *)
(* An item is not whole when the bytes end inside it, or when a group does *)
(* not end with its own end tag; it is torn when they end inside its       *)
(* length or inside one of its values.                                     *)
(***************************************************************************)
EXTENDS Integers, Sequences, SequencesExt, FiniteSets, FiniteSetsExt, TLC

SPNs == [SPN70 |-> 70, SPN91 |-> 91, SPN100 |-> 100, SPN110 |-> 110, SPN174 |-> 174, SPN175 |-> 175,
         SPN182 |-> 182, SPN184 |-> 184, SPN190 |-> 190, SPN244 |-> 244, SPN245 |-> 245,
         SPN247 |-> 247, SPN250 |-> 250, SPN521 |-> 521, SPN522 |-> 522, SPN527 |-> 527,
         SPN582 |-> 582, SPN597 |-> 597, SPN598 |-> 598, SPN914 |-> 914, SPN916 |-> 916,
         SPN928 |-> 928, SPN1624 |-> 1624, SPN1821 |-> 1821, SPN1856 |-> 1856]
SPN(number) == CHOOSE name \in DOMAIN SPNs : SPNs[name] = number
UniVal(number) == <<"UniVal0", "UniVal1", "UniVal2", "UniVal3">>[number + 1]
LLS(kind, sensor) ==
    [TLLS |-> <<"TLLS1", "TLLS2", "TLLS3", "TLLS4", "TLLS5", "TLLS6">>,
     CLLS |-> <<"CLLS1", "CLLS2", "CLLS3", "CLLS4", "CLLS5", "CLLS6">>,
     FLLS |-> <<"FLLS1", "FLLS2", "FLLS3", "FLLS4", "FLLS5", "FLLS6">>][kind][sensor]

Repeated == {"packed", "string"}

-----------------------------------------------------------------------------
(* The members of the classes: names and kinds.                            *)

General == [Time |-> "uint32", IDFAS |-> "uint32", IDDrv |-> "bytes", FLG |-> "uint32",
            Mileage |-> "uint32", VImp |-> "uint32", TImp |-> "uint32", Uboard |-> "uint32",
            BatLife |-> "uint32", SumAcc |-> "sint32", Phone |-> "bytes",
            AmtrX |-> "sint32", AmtrY |-> "sint32", AmtrZ |-> "sint32"]

Photo == [POSBLK |-> "uint32", SZPHOTO |-> "uint32", SIZE |-> "uint32", BUF |-> "bytes",
          IDPH |-> "uint32", IMGSTAT |-> "uint32"]

NAV == [LAT |-> "sint32", LON |-> "sint32", GPSVel |-> "uint32", GPSDir |-> "uint32",
        GPSNSat |-> "uint32", GPSAlt |-> "sint32"]

UniDt == [UniVal0 |-> "sint32", UniVal1 |-> "sint32", UniVal2 |-> "sint32", UniVal3 |-> "sint32"]

CanDt == [name \in DOMAIN SPNs |-> IF name \in {"SPN582", "SPN928"} THEN "packed" ELSE "uint32"]

LLSDt == [TLLS1 |-> "sint32", CLLS1 |-> "uint32", FLLS1 |-> "sint32",
          TLLS2 |-> "sint32", CLLS2 |-> "uint32", FLLS2 |-> "sint32",
          TLLS3 |-> "sint32", CLLS3 |-> "uint32", FLLS3 |-> "sint32",
          TLLS4 |-> "sint32", CLLS4 |-> "uint32", FLLS4 |-> "sint32",
          TLLS5 |-> "sint32", CLLS5 |-> "uint32", FLLS5 |-> "sint32",
          TLLS6 |-> "sint32", CLLS6 |-> "uint32", FLLS6 |-> "uint32"]

LOG == [Debug |-> "string"]

RecReg == [mID |-> "packed", General |-> "group", Photo |-> "group", NAV |-> "group",
           UniDt |-> "group", CanDt |-> "group", LLSDt |-> "group", LOG |-> "group"]

-----------------------------------------------------------------------------
(* Clear: the value of a field that is not there.                          *)

General_Clear == [Time |-> 0, IDFAS |-> 0, IDDrv |-> <<>>, FLG |-> 0, Mileage |-> 0, VImp |-> 0,
                  TImp |-> 0, Uboard |-> 0, BatLife |-> 0, SumAcc |-> 0, Phone |-> <<>>,
                  AmtrX |-> 0, AmtrY |-> 0, AmtrZ |-> 0]

Photo_Clear == [POSBLK |-> 0, SZPHOTO |-> 0, SIZE |-> 0, BUF |-> <<>>, IDPH |-> 0, IMGSTAT |-> 0]

NAV_Clear == [LAT |-> 0, LON |-> 0, GPSVel |-> 0, GPSDir |-> 0, GPSNSat |-> 0, GPSAlt |-> 0]

UniDt_Clear == [UniVal0 |-> 0, UniVal1 |-> 0, UniVal2 |-> 0, UniVal3 |-> 0]

CanDt_Clear == [name \in DOMAIN CanDt |-> IF name \in {"SPN582", "SPN928"} THEN <<>> ELSE 0]

LLSDt_Clear == [name \in DOMAIN LLSDt |-> 0]

LOG_Clear == [Debug |-> <<>>]

-----------------------------------------------------------------------------
(* MergePartialFromCodedStream: the number of a field, its name, and how   *)
(* it is read.                                                             *)

General_Parse ==
    {<<1, "Time", "uint32">>, <<2, "IDFAS", "uint32">>, <<3, "IDDrv", "bytes">>,
     <<4, "FLG", "uint32">>, <<5, "Mileage", "uint32">>, <<6, "VImp", "uint32">>,
     <<7, "TImp", "uint32">>, <<8, "Uboard", "uint32">>, <<9, "BatLife", "uint32">>,
     <<10, "SumAcc", "sint32">>, <<11, "Phone", "bytes">>, <<12, "AmtrX", "sint32">>,
     <<13, "AmtrY", "sint32">>, <<14, "AmtrZ", "sint32">>}

Photo_Parse ==
    {<<1, "POSBLK", "uint32">>, <<2, "SZPHOTO", "uint32">>, <<3, "SIZE", "uint32">>,
     <<4, "BUF", "bytes">>, <<5, "IDPH", "uint32">>, <<6, "IMGSTAT", "uint32">>}

NAV_Parse ==
    {<<1, "LAT", "sint32">>, <<2, "LON", "sint32">>, <<3, "GPSVel", "uint32">>,
     <<4, "GPSDir", "uint32">>, <<5, "GPSNSat", "uint32">>, <<6, "GPSAlt", "sint32">>}

UniDt_Parse == {<<n + 1, UniVal(n), "sint32">> : n \in 0..3}

CanDt_Parse ==
    {<<n, SPN(n), "uint32">> : n \in {70, 91, 100, 110, 174, 175, 182, 184, 190, 244, 245, 247,
                                      250, 521, 522, 527, 597, 598, 914, 916, 1624, 1821, 1856}}
    \cup {<<n, SPN(n), "packed">> : n \in {582, 928}}

\* Mutant: the state of the last sensor is read the way the others are.
LLSDt_Parse_alike ==
    UNION {{<<3 * n - 2, LLS("TLLS", n), "sint32">>, <<3 * n - 1, LLS("CLLS", n), "uint32">>,
            <<3 * n, LLS("FLLS", n), "sint32">>} : n \in 1..6}

LLSDt_Parse ==
    UNION {{<<3 * n - 2, LLS("TLLS", n), "sint32">>, <<3 * n - 1, LLS("CLLS", n), "uint32">>,
            <<3 * n, LLS("FLLS", n), IF n = 6 THEN "uint32" ELSE "sint32">>} : n \in 1..6}

LOG_Parse == {<<1, "Debug", "string">>}

RecReg_Parse ==
    {<<1, "mID", "packed">>, <<2, "General", "group">>, <<4, "Photo", "group">>,
     <<5, "NAV", "group">>, <<6, "UniDt", "group">>, <<7, "CanDt", "group">>,
     <<8, "LLSDt", "group">>, <<16, "LOG", "group">>}

-----------------------------------------------------------------------------
(* SerializeWithCachedSizes: number, name and how it is written, in order. *)

General_Serialize ==
    <<<<1, "Time", "uint32">>, <<2, "IDFAS", "uint32">>, <<3, "IDDrv", "bytes">>,
      <<4, "FLG", "uint32">>, <<5, "Mileage", "uint32">>, <<6, "VImp", "uint32">>,
      <<7, "TImp", "uint32">>, <<8, "Uboard", "uint32">>, <<9, "BatLife", "uint32">>,
      <<10, "SumAcc", "sint32">>, <<11, "Phone", "bytes">>, <<12, "AmtrX", "sint32">>,
      <<13, "AmtrY", "sint32">>, <<14, "AmtrZ", "sint32">>>>

Photo_Serialize ==
    <<<<1, "POSBLK", "uint32">>, <<2, "SZPHOTO", "uint32">>, <<3, "SIZE", "uint32">>,
      <<4, "BUF", "bytes">>, <<5, "IDPH", "uint32">>, <<6, "IMGSTAT", "uint32">>>>

NAV_Serialize ==
    <<<<1, "LAT", "sint32">>, <<2, "LON", "sint32">>, <<3, "GPSVel", "uint32">>,
      <<4, "GPSDir", "uint32">>, <<5, "GPSNSat", "uint32">>, <<6, "GPSAlt", "sint32">>>>

UniDt_Serialize == [i \in 1..4 |-> <<i, UniVal(i - 1), "sint32">>]

CanDt_Serialize ==
    LET numbers == <<70, 91, 100, 110, 174, 175, 182, 184, 190, 244, 245, 247, 250, 521, 522, 527,
                     582, 597, 598, 914, 916, 928, 1624, 1821, 1856>>
    IN  [i \in DOMAIN numbers |->
            <<numbers[i], SPN(numbers[i]), IF numbers[i] \in {582, 928} THEN "packed" ELSE "uint32">>]

LLSDt_Serialize ==
    <<<<1, "TLLS1", "sint32">>, <<2, "CLLS1", "uint32">>, <<3, "FLLS1", "sint32">>,
      <<4, "TLLS2", "sint32">>, <<5, "CLLS2", "uint32">>, <<6, "FLLS2", "sint32">>,
      <<7, "TLLS3", "sint32">>, <<8, "CLLS3", "uint32">>, <<9, "FLLS3", "sint32">>,
      <<10, "TLLS4", "sint32">>, <<11, "CLLS4", "uint32">>, <<12, "FLLS4", "sint32">>,
      <<13, "TLLS5", "sint32">>, <<14, "CLLS5", "uint32">>, <<15, "FLLS5", "sint32">>,
      <<16, "TLLS6", "sint32">>, <<17, "CLLS6", "uint32">>, <<18, "FLLS6", "uint32">>>>

LOG_Serialize == <<<<1, "Debug", "string">>>>

RecReg_Serialize ==
    <<<<1, "mID", "packed">>, <<2, "General", "group">>, <<4, "Photo", "group">>,
      <<5, "NAV", "group">>, <<6, "UniDt", "group">>, <<7, "CanDt", "group">>,
      <<8, "LLSDt", "group">>, <<16, "LOG", "group">>>>

-----------------------------------------------------------------------------
(* ByteSize: the bytes of the tag, the name, and how its value is counted. *)

General_ByteSize ==
    {<<1, "Time", "uint32">>, <<1, "IDFAS", "uint32">>, <<1, "IDDrv", "bytes">>,
     <<1, "FLG", "uint32">>, <<1, "Mileage", "uint32">>, <<1, "VImp", "uint32">>,
     <<1, "TImp", "uint32">>, <<1, "Uboard", "uint32">>, <<1, "BatLife", "uint32">>,
     <<1, "SumAcc", "sint32">>, <<1, "Phone", "bytes">>, <<1, "AmtrX", "sint32">>,
     <<1, "AmtrY", "sint32">>, <<1, "AmtrZ", "sint32">>}

Photo_ByteSize ==
    {<<1, "POSBLK", "uint32">>, <<1, "SZPHOTO", "uint32">>, <<1, "SIZE", "uint32">>,
     <<1, "BUF", "bytes">>, <<1, "IDPH", "uint32">>, <<1, "IMGSTAT", "uint32">>}

NAV_ByteSize ==
    {<<1, "LAT", "sint32">>, <<1, "LON", "sint32">>, <<1, "GPSVel", "uint32">>,
     <<1, "GPSDir", "uint32">>, <<1, "GPSNSat", "uint32">>, <<1, "GPSAlt", "sint32">>}

UniDt_ByteSize == {<<1, UniVal(n), "sint32">> : n \in 0..3}

CanDt_ByteSize ==
    {<<2, SPN(n), "uint32">> : n \in {70, 91, 100, 110, 174, 175, 182, 184, 190, 244, 245, 247,
                                      250, 521, 522, 527, 597, 598, 914, 916, 1624, 1821, 1856}}
    \cup {<<2, SPN(n), "packed">> : n \in {582, 928}}

\* Mutant: one byte for every tag.
LLSDt_ByteSize_short_tags ==
    UNION {{<<1, LLS("TLLS", n), "sint32">>, <<1, LLS("CLLS", n), "uint32">>,
            <<1, LLS("FLLS", n), IF n = 6 THEN "uint32" ELSE "sint32">>} : n \in 1..6}

\* The tags of the sixth sensor, from number 16 on, take two bytes.
LLSDt_ByteSize ==
    UNION {LET tag == IF n = 6 THEN 2 ELSE 1
           IN  {<<tag, LLS("TLLS", n), "sint32">>, <<tag, LLS("CLLS", n), "uint32">>,
                <<tag, LLS("FLLS", n), IF n = 6 THEN "uint32" ELSE "sint32">>} : n \in 1..6}

LOG_ByteSize == {<<1, "Debug", "string">>}

\* A group counts its two tags.
RecReg_ByteSize ==
    {<<1, "mID", "packed">>, <<4, "LOG", "group">>}
    \cup {<<2, name, "group">> : name \in {"General", "Photo", "NAV", "UniDt", "CanDt", "LLSDt"}}

-----------------------------------------------------------------------------
Table(fields, clear, parse, serialize, size) ==
    [fields |-> fields, clear |-> clear, parse |-> parse, serialize |-> serialize, size |-> size]

Group ==
    [General |-> Table(General, General_Clear, General_Parse, General_Serialize, General_ByteSize),
     Photo |-> Table(Photo, Photo_Clear, Photo_Parse, Photo_Serialize, Photo_ByteSize),
     NAV |-> Table(NAV, NAV_Clear, NAV_Parse, NAV_Serialize, NAV_ByteSize),
     UniDt |-> Table(UniDt, UniDt_Clear, UniDt_Parse, UniDt_Serialize, UniDt_ByteSize),
     CanDt |-> Table(CanDt, CanDt_Clear, CanDt_Parse, CanDt_Serialize, CanDt_ByteSize),
     LLSDt |-> Table(LLSDt, LLSDt_Clear, LLSDt_Parse, LLSDt_Serialize, LLSDt_ByteSize),
     LOG |-> Table(LOG, LOG_Clear, LOG_Parse, LOG_Serialize, LOG_ByteSize)]

\* Mutant: the repeated fields are forgotten.
SharedCtorBare(kinds) == [fields |-> <<>>, unknown |-> <<>>]

\* A message just constructed.
SharedCtor(kinds) ==
    [fields |-> [name \in {n \in DOMAIN kinds : kinds[n] \in Repeated} |-> <<>>], unknown |-> <<>>]

has(message, name) == name \in DOMAIN message.fields
get(message, clear, name) == IF has(message, name) THEN message.fields[name] ELSE clear[name]
put(message, name, value) ==
    [fields |-> [field \in DOMAIN message.fields \cup {name} |->
                    IF field = name THEN value ELSE message.fields[field]],
     unknown |-> message.unknown]

\* mutable_general() and the like.
mutable(message, name) ==
    IF has(message, name) THEN message.fields[name] ELSE SharedCtor(Group[name].fields)

-----------------------------------------------------------------------------
(* Items: what the protobuf library reads and writes for one field.        *)

Item(number, wire, value) ==
    [number |-> number, wire |-> wire, value |-> value, whole |-> TRUE, torn |-> FALSE]

ZigZagEncode(n) == IF n >= 0 THEN 2 * n ELSE -2 * n - 1
ZigZagDecode(v) == IF v % 2 = 0 THEN v \div 2 ELSE -((v + 1) \div 2)

Wire == [uint32 |-> {"varint"}, sint32 |-> {"varint"}, bytes |-> {"length"},
         string |-> {"length"}, packed |-> {"length", "varint"}, group |-> {"group"}]

Read(kind, old, item) ==
    CASE kind \in {"uint32", "bytes"} -> item.value
      [] kind = "sint32" -> ZigZagDecode(item.value)
      [] kind = "string" -> Append(old, item.value)
      [] kind = "packed" -> IF item.wire = "varint" THEN Append(old, item.value) ELSE old \o item.value

\* Mutant: the result of the read is not looked at (DO_).
ReadFieldUnchecked(clear, row, s, item) ==
    [message |-> put(s.message, row[2], Read(row[3], get(s.message, clear, row[2]), item)),
     status |-> "reading"]

\* Of bytes cut short what came is kept, of a number nothing.  Of packed
\* numbers those that came are kept, and nothing is noticed when the bytes end
\* between two of them: ReadPackedPrimitive reads up to the limit it pushes,
\* and PushLimit lowers that to the end of the bytes.
ReadField(clear, row, s, item) ==
    LET name == row[2]
        ends == item.whole \/ (row[3] = "packed" /\ item.wire = "length" /\ ~item.torn)
    IN  [message |-> IF item.whole \/ item.wire = "length"
                     THEN put(s.message, name, Read(row[3], get(s.message, clear, name), item))
                     ELSE s.message,
         status |-> IF ends THEN "reading" ELSE "failed"]

\* Mutant: what is not known is forgotten.
SkipFieldLost(s, item) == [s EXCEPT !.status = IF item.whole THEN @ ELSE "failed"]

\* A number or a kind of value the message does not have.
SkipField(s, item) ==
    [message |-> IF item.whole \/ item.wire \in {"length", "group"}
                 THEN [s.message EXCEPT !.unknown = Append(@, item)]
                 ELSE s.message,
     status |-> IF item.whole THEN "reading" ELSE "failed"]

\* The end tag of a group, or no tag, ends the message.
MergePartialFromCodedStream(table, s, item) ==
    LET rows == {r \in table.parse : r[1] = item.number /\ item.wire \in Wire[r[3]]}
    IN  IF s.status # "reading" THEN s
        ELSE IF item.wire = "end" THEN [s EXCEPT !.status = "ended"]
        ELSE IF rows # {} THEN ReadField(table.clear, CHOOSE r \in rows : TRUE, s, item)
        ELSE SkipField(s, item)

ReadItems(name, s, items) ==
    LET Merge(t, i) == MergePartialFromCodedStream(Group[name], t, i) IN FoldLeft(Merge, s, items)

\* A group is read into what there is of it.
ReadGroup(name, s, item) ==
    LET end == ReadItems(name, [message |-> mutable(s.message, name), status |-> "reading"], item.value)
    IN  [message |-> put(s.message, name, end.message),
         status |-> IF end.status = "reading" /\ item.whole THEN "reading" ELSE "failed"]

RecReg_MergePartial(s, item) ==
    LET group == {r \in RecReg_Parse : r[1] = item.number /\ r[3] = "group"}
        table == [clear |-> [mID |-> <<>>], parse |-> {r \in RecReg_Parse : r[3] # "group"}]
    IN  IF s.status = "reading" /\ item.wire = "group" /\ group # {}
        THEN ReadGroup((CHOOSE r \in group : TRUE)[2], s, item)
        ELSE MergePartialFromCodedStream(table, s, item)

NAV_IsInitialized(nav) == \A name \in DOMAIN NAV : has(nav, name)

IsInitialized(message) == has(message, "NAV") => NAV_IsInitialized(message.fields.NAV)

Reading == [message |-> SharedCtor(RecReg), status |-> "reading"]

\* Mutant: the required fields are not asked for.
AcceptedPartial(s) == s.status = "reading"

\* The bytes were read to their end, and what is required is there.
Accepted(s) == s.status = "reading" /\ IsInitialized(s.message)

\* ParseFromArray of the library.
ParseFromArray(wire) ==
    LET s == FoldLeft(RecReg_MergePartial, Reading, wire)
    IN  [message |-> s.message, ok |-> Accepted(s)]

-----------------------------------------------------------------------------
Write(row, message) ==
    LET number == row[1]
        value == message.fields[row[2]]
    IN  IF ~has(message, row[2]) THEN <<>>
        ELSE CASE row[3] = "uint32" -> <<Item(number, "varint", value)>>
               [] row[3] = "sint32" -> <<Item(number, "varint", ZigZagEncode(value))>>
               [] row[3] = "bytes" -> <<Item(number, "length", value)>>
               [] row[3] = "string" -> [i \in DOMAIN value |-> Item(number, "length", value[i])]
               [] row[3] = "packed" ->
                      IF value = <<>> THEN <<>> ELSE <<Item(number, "length", value)>>

SerializeWithCachedSizes(table, message) ==
    FlattenSeq([i \in DOMAIN table.serialize |-> Write(table.serialize[i], message)])
        \o message.unknown

WriteGroup(row, message) ==
    IF has(message, row[2])
    THEN <<Item(row[1], "group", SerializeWithCachedSizes(Group[row[2]], message.fields[row[2]]))>>
    ELSE <<>>

Serialize(message) ==
    FlattenSeq([i \in DOMAIN RecReg_Serialize |->
                   LET row == RecReg_Serialize[i]
                   IN  IF row[3] = "group" THEN WriteGroup(row, message) ELSE Write(row, message)])
        \o message.unknown

-----------------------------------------------------------------------------
(* What a device sends: a message, as a sequence of items.  The device is  *)
(* not this serializer, and may write its fields in another order.         *)

Value(kind) ==
    CASE kind = "uint32" -> Nat
      [] kind = "sint32" -> Int
      [] kind \in {"bytes", "packed"} -> Seq(Nat)
      [] kind = "string" -> Seq(Seq(Nat))

FieldsOK(kinds, fields) ==
    /\ DOMAIN fields \subseteq DOMAIN kinds
    /\ \A name \in DOMAIN kinds :
           /\ kinds[name] \in Repeated => name \in DOMAIN fields
           /\ name \in DOMAIN fields /\ kinds[name] # "group" => fields[name] \in Value(kinds[name])

MessageOK(message) ==
    /\ FieldsOK(RecReg, message.fields)
    /\ \A name \in DOMAIN message.fields \ {"mID"} :
           FieldsOK(Group[name].fields, message.fields[name].fields)

IsSeq(s) == Len(s) \in Nat /\ s = [n \in 1..Len(s) |-> s[n]]

\* Is this the item, or its first bytes?
Same(item, full) == item.number = full.number /\ item.wire = full.wire /\ item = full

Beginning(item, full) ==
    /\ ~item.whole /\ item.number = full.number /\ item.wire = full.wire
    /\ full.wire = "length" => \E n \in 0..Len(full.value) : item.value = SubSeq(full.value, 1, n)

\* A field from another message.proto.
Foreign(parse, item) ==
    /\ item.whole /\ item.wire # "end"
    /\ \A row \in parse : row[1] = item.number => item.wire \notin Wire[row[3]]

EncodesGroup(items, name, group, whole) ==
    LET rows == ToSet(Group[name].serialize)
    IN  /\ IsSeq(items)
        /\ \A n \in DOMAIN items :
               \/ Foreign(Group[name].parse, items[n])
               \/ \E row \in rows : \E full \in ToSet(Write(row, group)) :
                      \/ Same(items[n], full)
                      \/ ~whole /\ n = Len(items) /\ Beginning(items[n], full)
        /\ whole => \A row \in rows : \A full \in ToSet(Write(row, group)) :
                        \E n \in DOMAIN items : Same(items[n], full)

Encoded(item, row, message) ==
    IF row[3] = "group"
    THEN /\ has(message, row[2]) /\ item.number = row[1] /\ item.wire = "group"
         /\ item.whole \in BOOLEAN
         /\ EncodesGroup(item.value, row[2], message.fields[row[2]], item.whole)
    ELSE \E full \in ToSet(Write(row, message)) : Same(item, full) \/ Beginning(item, full)

IsEvents(item) == item.number = 1 /\ item.wire = "length"

\* The bytes of a message, or the beginning of them: the events stand in one
\* item, and only the last item can be cut.
Encodes(items, message, whole) ==
    /\ IsSeq(items)
    /\ \A n \in DOMAIN items :
           /\ \/ Foreign(RecReg_Parse, items[n])
              \/ \E row \in ToSet(RecReg_Serialize) : Encoded(items[n], row, message)
           /\ ~items[n].whole => ~whole /\ n = Len(items)
           /\ IsEvents(items[n]) => \A m \in 1..n - 1 : ~IsEvents(items[m])
    /\ whole => \A row \in ToSet(RecReg_Serialize) :
                    (IF row[3] = "group" THEN has(message, row[2]) ELSE Write(row, message) # <<>>)
                        => \E n \in DOMAIN items : Encoded(items[n], row, message)

-----------------------------------------------------------------------------
Total(Size(_), sequence) == FoldLeft(LAMBDA sum, x : sum + Size(x), 0, sequence)

VarintSize(v) == 1 + Cardinality({limit \in {128, 16384, 2097152, 268435456} : v >= limit})

DataSize(values) == Total(VarintSize, values)
LengthDelimitedSize(values) == VarintSize(DataSize(values)) + DataSize(values)

\* The bytes of items, counted where they are.
FlatLength(item) ==
    VarintSize(8 * item.number)
    + (CASE item.wire = "varint" -> VarintSize(item.value)
         [] item.wire = "length" -> LengthDelimitedSize(item.value)
         [] item.wire = "fixed32" -> 4)

Length(items) ==
    Total(LAMBDA item : IF item.wire = "group"
                        THEN 2 * VarintSize(8 * item.number) + Total(FlatLength, item.value)
                        ELSE FlatLength(item), items)

SizeOf(row, message) ==
    LET value == message.fields[row[2]]
    IN  IF ~has(message, row[2]) THEN 0
        ELSE CASE row[3] = "uint32" -> row[1] + VarintSize(value)
               [] row[3] = "sint32" -> row[1] + VarintSize(ZigZagEncode(value))
               [] row[3] = "bytes" -> row[1] + LengthDelimitedSize(value)
               [] row[3] = "string" -> row[1] * Len(value) + Total(LengthDelimitedSize, value)
               [] row[3] = "packed" ->
                      IF value = <<>> THEN 0 ELSE row[1] + LengthDelimitedSize(value)

GroupByteSize(table, message) ==
    MapThenSumSet(LAMBDA row : SizeOf(row, message), table.size) + Length(message.unknown)

ByteSize(message) ==
    MapThenSumSet(LAMBDA row : IF row[3] # "group" THEN SizeOf(row, message)
                               ELSE IF has(message, row[2])
                               THEN row[1] + GroupByteSize(Group[row[2]], message.fields[row[2]])
                               ELSE 0,
                  RecReg_ByteSize)
    + Length(message.unknown)

-----------------------------------------------------------------------------
\* Mutant: repeated fields are replaced like the others.
MergedReplacing(kinds, to, from) ==
    [fields |-> from.fields @@ to.fields, unknown |-> to.unknown \o from.unknown]

\* MergeFrom of a group.
Merged(kinds, to, from) ==
    [fields |-> [name \in DOMAIN from.fields |->
                    IF kinds[name] \in Repeated THEN to.fields[name] \o from.fields[name]
                    ELSE from.fields[name]] @@ to.fields,
     unknown |-> to.unknown \o from.unknown]

MergeFrom(to, from) ==
    [fields |-> [name \in DOMAIN from.fields |->
                    IF name = "mID" THEN to.fields.mID \o from.fields.mID
                    ELSE Merged(Group[name].fields, mutable(to, name), from.fields[name])]
                @@ to.fields,
     unknown |-> to.unknown \o from.unknown]
=============================================================================
