------------------------------ MODULE EventsFile ------------------------------
(***************************************************************************)
(* parseEventsFile: the file is parsed and every entry of "events" becomes *)
(* an Event.  An exception leaves the function, and nobody catches it.     *)
(***************************************************************************)
EXTENDS JsonParser

CONSTANT IntBits   \* width of an int

ASSUME IntAssumption == IntBits \in Nat \ {0, 1}

VARIABLE events    \* what it returns

vars == <<lexerVars, parserVars, events>>

Init == ParserInit /\ events = <<>>
-----------------------------------------------------------------------------
(* basic_json *)

ChannelName == Bytes("channel_name")
EventList == Bytes("events")
EventName == Bytes("event_name")
City == Bytes("city")
DateTime == Bytes("date_time")
Description == Bytes("description")
Information == Bytes("general_information")

IsNull(v) == "null" \in DOMAIN v
IsNumber(v) == DOMAIN v \cap {"integer", "float", "boolean"} # {}

\* operator[]: null becomes an object, a key that is not there gets null.
Throws305(v) == ~ IsObject(v) /\ ~ IsNull(v)
At(v, key) == IF IsObject(v) /\ key \in DOMAIN v.object THEN v.object[key] ELSE Nothing

\* from_json to int.  The processor answers with the smallest int where a double
\* has no integral value in range.
SmallestInt == -(2^(IntBits - 1))

ToInt(v) ==
  CASE "integer" \in DOMAIN v ->
         ((v.integer - SmallestInt) % 2^IntBits) + SmallestInt
    [] "float" \in DOMAIN v ->
         LET n == Truncated(v.float)
         IN  IF n \in SmallestInt..(-SmallestInt - 1) THEN n ELSE SmallestInt
    [] OTHER -> IF v.boolean THEN 1 ELSE 0

\* begin to end of a value: a primitive is its own only element.
ElementsOf(v) ==
  CASE IsArray(v)  -> v.array
    [] IsObject(v) -> [i \in DOMAIN Keys(v.object) |-> v.object[Keys(v.object)[i]]]
    [] IsNull(v)   -> <<>>
    [] OTHER       -> <<v>>

\* items(): elements with their keys, which are indices in an array.
ItemKeys(v) ==
  CASE IsArray(v)  -> {Decimal[i - 1] : i \in DOMAIN v.array}
    [] IsObject(v) -> DOMAIN v.object
    [] IsNull(v)   -> {}
    [] OTHER       -> {<<>>}

Item(v, key) ==
  CASE IsArray(v)  -> v.array[CHOOSE i \in DOMAIN v.array : Decimal[i - 1] = key]
    [] IsObject(v) -> v.object[key]
    [] OTHER       -> v
-----------------------------------------------------------------------------
(* parseEventsFile *)

EventOfDumped(channel, e) ==  \* mutant: texts are dumped too, with their quotes
  LET information == At(e, Information)
  IN  [channel     |-> channel,
       city        |-> At(e, City).string,
       name        |-> At(e, EventName).string,
       date        |-> ToInt(At(e, DateTime)),
       description |-> At(e, Description).string,
       info        |-> [k \in ItemKeys(information) |-> Dump(Item(information, k))]]

EventOf(channel, e) ==
  LET information == At(e, Information)
      text(v) == IF IsString(v) THEN v.string ELSE Dump(v)
  IN  [channel     |-> channel,
       city        |-> At(e, City).string,
       name        |-> At(e, EventName).string,
       date        |-> ToInt(At(e, DateTime)),
       description |-> At(e, Description).string,
       info        |-> [k \in ItemKeys(information) |-> text(Item(information, k))]]

EventError(e) ==
  CASE Throws305(e) -> 305
    [] \E k \in {EventName, City, Description} : ~ IsString(At(e, k)) -> 302
    [] ~ IsNumber(At(e, DateTime)) -> 302
    [] OTHER -> 0

\* The exception that leaves the function, or 0.
FileError(data) ==
  LET list == ElementsOf(At(data, EventList))
      bad == SelectInSeq(list, LAMBDA e : EventError(e) # 0)
  IN  CASE Throws305(data) -> 305
        [] ~ IsString(At(data, ChannelName)) -> 302
        [] bad # 0 -> EventError(list[bad])
        [] OTHER -> 0

Convert ==
  /\ place = "done"
  /\ LET id == FileError(root)
         list == ElementsOf(At(root, EventList))
     IN  IF id = 0
         THEN /\ place' = "returned"
              /\ events' = [i \in DOMAIN list |->
                              EventOf(At(root, ChannelName).string, list[i])]
              /\ UNCHANGED error
         ELSE /\ place' = "thrown"
              /\ error' = id
              /\ UNCHANGED events
  /\ UNCHANGED <<lexerVars, states, root, ref_stack, object_element>>

Over == place \in {"returned", "thrown"} /\ UNCHANGED vars

Next ==
  \/ Parse /\ UNCHANGED events
  \/ Convert
  \/ Over

Spec == Init /\ [][Next]_vars
-----------------------------------------------------------------------------
(* Properties *)

\* What a report sends is what the file says: from the text to the events, every
\* entry of "events" once and in order, with its own texts, the channel of the
\* file, a date that an int can hold as it is written, and every item of its
\* general information as a text that reads as the item's value
\* (parseEventsFile, event.cpp:147).
Says(e, file, entry) ==
  /\ e.channel = file[ChannelName].string
  /\ e.name = entry[EventName].string
  /\ e.city = entry[City].string
  /\ e.description = entry[Description].string
  /\ LET date == entry[DateTime]
     IN  "integer" \in DOMAIN date /\ date.integer \in SmallestInt..(-SmallestInt - 1)
         => e.date = date.integer
  /\ Information \in DOMAIN entry /\ IsObject(entry[Information]) =>
       LET items == entry[Information].object
       IN  /\ DOMAIN e.info = DOMAIN items
           /\ \A k \in DOMAIN items :
                IF IsString(items[k]) THEN e.info[k] = items[k].string
                ELSE Denoted(e.info[k]) = {items[k]}

EventsExact ==
  place = "returned" =>
    \A data \in Reads(input) :
      LET list == At(data, EventList)
      IN  /\ IsArray(list) => Len(events) = Len(list.array)
          /\ IsArray(list) => \A i \in DOMAIN events :
                                Says(events[i], data.object, list.array[i].object)
          /\ IsNull(list) => events = <<>>

\* dump never throws on a value that was read: every string the scanner lets
\* through is one the serializer's decoder accepts, and what it writes reads as
\* the same value (scan_string and get_codepoint against dump_escaped and decode).
DumpReadsBack ==
  place = "done" => ~ DumpThrows(root) /\ Denoted(Dump(root)) = {root}
=============================================================================
