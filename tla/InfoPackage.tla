----------------------------- MODULE InfoPackage -----------------------------
(***************************************************************************)
(* From the payload of a data frame to messages: parse_info_package and    *)
(* the extract functions of src/omnicomm/info_package.cpp, on the          *)
(* structures of src/omnicomm/transport_messages.hpp and the RecReg of     *)
(* message.proto.                                                          *)
(*                                                                         *)
(* A payload is a chain of records, each a length and a serialized RecReg. *)
(* A RecReg names one or more events (mID), and every event becomes a      *)
(* message: a map from keys to what the record says.                       *)
(*                                                                         *)
(* What is printed for a field is its name and value; the arithmetic of    *)
(* units and the layout of the text are left out.                          *)
(***************************************************************************)
EXTENDS RecReg

HeaderSize == 4     \* sizeof(transport_header_t)
ResponseSize == 13  \* sizeof(data_response_t)

full_length(p) == HeaderSize + p.data_len + 2
im_length(p) == full_length(p) - ResponseSize - 2

size(record) == record.data_size + 2

CONSTANT Packet   \* packets explored: [data_len, records], a record being
                  \* [at, data_size, wire, sent, whole]: where it begins, the
                  \* bytes it says it has, what is in them, the message the
                  \* device meant, and whether the bytes are all of it

\* The records follow each other.
Chained(records) ==
    \A r \in DOMAIN records :
        records[r].at = IF r = 1 THEN 0 ELSE records[r - 1].at + size(records[r - 1])

\* data_len 7 and 8 pass check_length and make get_im_length wrap: the
\* devices are taken not to send them.
ASSUME PacketAssumption ==
    \A p \in Packet :
        /\ p.data_len \in Nat \ {7, 8}
        /\ IsSeq(p.records)
        /\ Chained(p.records)
        /\ \A r \in DOMAIN p.records :
              LET record == p.records[r]
              IN  /\ record.data_size \in Nat
                  /\ record.at < im_length(p)
                  /\ record.whole \in BOOLEAN
                  /\ MessageOK(record.sent)
                  /\ Encodes(record.wire, record.sent, record.whole)

VARIABLES
    packet,     \* the frame under work
    k,          \* records passed
    i,          \* offset of the next record in im_data
    message,    \* what was read of the record under work
    event,      \* events of it that have their message
    data,       \* the map the messages are printed from
    messages,   \* what the caller will hand to the backend: [record, event,
                \* data], the first two saying what it was printed for
    result      \* "parse", "events", "returned" or "thrown"

vars == <<packet, k, i, message, event, data, messages, result>>

-----------------------------------------------------------------------------
(* The extract functions: fields and the keys they are printed under.      *)

extract_General ==
    [Time |-> {"time"}, IDFAS |-> {"controller_id"}, IDDrv |-> {},
     FLG |-> {"ignition", "gsm_status", "gps_status", "roaming", "power_status", "alarm",
              "open_case", "discrete_input", "flags"},
     Mileage |-> {"mileage"}, VImp |-> {"speed_by_sensor"}, TImp |-> {"engine_speed"},
     Uboard |-> {"power_main"}, BatLife |-> {"battery_level"}, SumAcc |-> {"a_total"},
     Phone |-> {"phone"}, AmtrX |-> {"a_x"}, AmtrY |-> {"a_y"}, AmtrZ |-> {"a_z"}]

extract_NAV ==
    [LAT |-> {"lat"}, LON |-> {"lon"}, GPSVel |-> {"speed_by_gps"}, GPSDir |-> {"course"},
     GPSNSat |-> {"satellites"}, GPSAlt |-> {"altitude"}]

extract_UniDt == [UniVal0 |-> {"univ0"}, UniVal1 |-> {"univ1"}, UniVal2 |-> {"univ2"},
                  UniVal3 |-> {"univ3"}]

LLSKey(what, n) ==
    [value |-> <<"lls1_value", "lls2_value", "lls3_value", "lls4_value", "lls5_value", "lls6_value">>,
     temp |-> <<"lls1_temp", "lls2_temp", "lls3_temp", "lls4_temp", "lls5_temp", "lls6_temp">>,
     flags |-> <<"lls1_flags", "lls2_flags", "lls3_flags", "lls4_flags", "lls5_flags", "lls6_flags">>]
    [what][n]

LLSKeys(c, t, f) ==
    [CLLS1 |-> {LLSKey(c, 1)}, TLLS1 |-> {LLSKey(t, 1)}, FLLS1 |-> {LLSKey(f, 1)},
     CLLS2 |-> {LLSKey(c, 2)}, TLLS2 |-> {LLSKey(t, 2)}, FLLS2 |-> {LLSKey(f, 2)},
     CLLS3 |-> {LLSKey(c, 3)}, TLLS3 |-> {LLSKey(t, 3)}, FLLS3 |-> {LLSKey(f, 3)},
     CLLS4 |-> {LLSKey(c, 4)}, TLLS4 |-> {LLSKey(t, 4)}, FLLS4 |-> {LLSKey(f, 4)},
     CLLS5 |-> {LLSKey(c, 5)}, TLLS5 |-> {LLSKey(t, 5)}, FLLS5 |-> {LLSKey(f, 5)},
     CLLS6 |-> {LLSKey(c, 6)}, TLLS6 |-> {LLSKey(t, 6)}, FLLS6 |-> {LLSKey(f, 6)}]

\* Mutant: the value of a sensor is printed under the key of its temperature.
extract_LLSDt_same_key == LLSKeys("temp", "temp", "flags")

extract_LLSDt == LLSKeys("value", "temp", "flags")

\* Nothing is printed of these two yet.
extract_CanDt == [field \in DOMAIN CanDt |-> {}]
extract_LOG == [Debug |-> {}]

Keys == [General |-> extract_General, NAV |-> extract_NAV, UniDt |-> extract_UniDt,
         LLSDt |-> extract_LLSDt, CanDt |-> extract_CanDt, LOG |-> extract_LOG]

Entry(field, value) == [field |-> field, value |-> value]

\* A field is printed when it is there; of the navigation group every field.
PrintGroup(name, group) ==
    LET printed == IF name = "NAV" THEN DOMAIN NAV ELSE DOMAIN group.fields
    IN  [key \in UNION {Keys[name][field] : field \in printed} |->
            LET field == CHOOSE field \in printed : key \in Keys[name][field]
            IN  Entry(field, get(group, Group[name].clear, field))]

\* The map after some of its keys were assigned.
Assigned(map, new) ==
    [key \in DOMAIN map \cup DOMAIN new |-> IF key \in DOMAIN new THEN new[key] ELSE map[key]]

Extracted(map, name, m) ==
    IF has(m, name) THEN Assigned(map, PrintGroup(name, m.fields[name])) ELSE map

\* The photo is not looked at.
extract(mid, m, map) ==
    LET typed == Assigned(map, [message_type |-> Entry("mID", mid)])
        general == Extracted(typed, "General", m)
        nav == Extracted(general, "NAV", m)
        unidt == Extracted(nav, "UniDt", m)
        llsdt == Extracted(unidt, "LLSDt", m)
        candt == Extracted(llsdt, "CanDt", m)
    IN  Extracted(candt, "LOG", m)

-----------------------------------------------------------------------------
(* parse_info_package.                                                     *)

Init ==
    /\ packet \in Packet
    /\ k = 0 /\ i = 0
    /\ message = SharedCtor(RecReg) /\ event = 0
    /\ data = <<>> /\ messages = <<>>
    /\ result = "parse"

\* check_length, before the parsing.
TooShort ==
    /\ result = "parse" /\ k = 0
    /\ full_length(packet) < ResponseSize
    /\ result' = "thrown"
    /\ UNCHANGED <<packet, k, i, message, event, data, messages>>

Parsing == result = "parse" /\ full_length(packet) >= ResponseSize

\* Mutant: the two bytes of the length are forgotten.
FitsWithoutLength ==
    k < Len(packet.records) /\ i + packet.records[k + 1].data_size <= im_length(packet)

\* Is there a next record, and does the length it claims fit?
Fits == k < Len(packet.records) /\ i + size(packet.records[k + 1]) <= im_length(packet)

\* A record protobuf could not read to its end is only logged: what was read
\* of it is used like any other.
ReadRecord ==
    /\ Parsing /\ i < im_length(packet) /\ Fits
    /\ message' = ParseFromArray(packet.records[k + 1].wire).message
    /\ event' = 0
    /\ result' = "events"
    /\ UNCHANGED <<packet, k, i, data, messages>>

\* Mutant: the map is made once for the packet.
keep_data(map) == map

clear_data(map) == <<>>

\* Mutant: one message for each record.
AddFirstEvent ==
    LET mids == message.fields.mID
    IN  /\ result = "events" /\ event < Len(mids)
        /\ event' = Len(mids)
        /\ data' = extract(mids[1], message, clear_data(data))
        /\ messages' = Append(messages, [record |-> k + 1, event |-> 1, data |-> data'])
        /\ UNCHANGED <<packet, k, i, message, result>>

\* One message for each event.
AddEvent ==
    LET mids == message.fields.mID
    IN  /\ result = "events" /\ event < Len(mids)
        /\ event' = event + 1
        /\ data' = extract(mids[event + 1], message, clear_data(data))
        /\ messages' = Append(messages, [record |-> k + 1, event |-> event + 1, data |-> data'])
        /\ UNCHANGED <<packet, k, i, message, result>>

NextRecord ==
    /\ result = "events" /\ event = Len(message.fields.mID)
    /\ i' = i + size(packet.records[k + 1])
    /\ k' = k + 1
    /\ result' = "parse"
    /\ UNCHANGED <<packet, message, event, data, messages>>

\* A record that says it is longer than what is left, or a byte that is no
\* record: length_error, which the caller lets pass without looking at
\* messages.
Overrun ==
    /\ Parsing /\ i < im_length(packet) /\ ~Fits
    /\ result' = "thrown"
    /\ UNCHANGED <<packet, k, i, message, event, data, messages>>

Return ==
    /\ Parsing /\ i >= im_length(packet)
    /\ result' = "returned"
    /\ UNCHANGED <<packet, k, i, message, event, data, messages>>

Next == TooShort \/ ReadRecord \/ AddEvent \/ NextRecord \/ Overrun \/ Return

Spec == Init /\ [][Next]_vars

-----------------------------------------------------------------------------
TypeOK ==
    /\ k \in 0..Len(packet.records)
    /\ i \in Nat /\ (i > 0 => i <= im_length(packet))
    /\ result \in {"parse", "events", "returned", "thrown"}
    /\ MessageOK(message)
    /\ event \in 0..Len(message.fields.mID)
    /\ \A j \in DOMAIN messages : "message_type" \in DOMAIN messages[j].data
    /\ messages # <<>> => data = Last(messages).data

Sent(j) == packet.records[messages[j].record].sent.fields

\* A message says only what the device put into its own record: no value of an
\* earlier record of the packet, a position for example, shows up in a later
\* one that lacks it (data.clear(), info_package.cpp 99), even when records
\* were cut short.  Of a text cut short the beginning is printed, and the
\* fields missing from a position are printed as 0.
OwnRecordOnly ==
    \A j \in DOMAIN messages :
        \A key \in DOMAIN messages[j].data \ {"message_type"} :
            LET entry == messages[j].data[key]
            IN  \E name \in DOMAIN Keys \cap DOMAIN Sent(j) :
                    LET fields == Sent(j)[name].fields
                    IN  \/ /\ entry.field \in DOMAIN fields
                           /\ IF Group[name].fields[entry.field] = "bytes"
                              THEN IsPrefix(entry.value, fields[entry.field])
                              ELSE entry.value = fields[entry.field]
                        \/ name = "NAV" /\ entry.field \in DOMAIN NAV /\ entry.value = 0

\* Of a record that came whole every field is found in the message under each
\* key it is printed under: no two fields share a key, though there are over
\* forty and the code repeats itself for each (extract, info_package.cpp
\* 119-524).
NoFieldOverwritten ==
    \A j \in DOMAIN messages :
        packet.records[messages[j].record].whole =>
            \A name \in DOMAIN Keys \cap DOMAIN Sent(j) :
                LET fields == Sent(j)[name].fields
                IN  \A field \in DOMAIN fields :
                        \A key \in Keys[name][field] :
                            /\ key \in DOMAIN messages[j].data
                            /\ messages[j].data[key] = Entry(field, fields[field])

\* Is there a message for this event of this record?
Told(r, e) == \E j \in DOMAIN messages : messages[j].record = r /\ messages[j].event = e

\* The messages stand in the order of their records, and of the events in
\* each, with the number the device gave the event.  A packet that will be
\* acknowledged has left one for each event of each record that came whole;
\* of a record cut short perhaps not the last ones (parse_info_package,
\* info_package.cpp 73-112).
EventsInOrder ==
    /\ \A j \in 1..Len(messages) - 1 :
          \/ messages[j].record < messages[j + 1].record
          \/ /\ messages[j].record = messages[j + 1].record
             /\ messages[j].event < messages[j + 1].event
    /\ \A j \in DOMAIN messages :
          /\ messages[j].event \in DOMAIN Sent(j).mID
          /\ messages[j].data["message_type"] = Entry("mID", Sent(j).mID[messages[j].event])
    /\ result = "returned" =>
          \A r \in DOMAIN packet.records :
              \A e \in DOMAIN packet.records[r].sent.fields.mID :
                  IF packet.records[r].whole THEN Told(r, e) ELSE Told(r, e) => \A d \in 1..e : Told(r, d)
=============================================================================
