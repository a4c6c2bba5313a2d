------------------------------ MODULE EventText ------------------------------
(***************************************************************************)
(* An event on its way from one client to another, as text: the body that  *)
(* sendEventToChannel writes, the MESSAGE the server makes of it, and what *)
(* parseEventMessage finds in there.  Labels are looked for anywhere in    *)
(* the message, so a text is a sequence of pieces (module StompCodec) and  *)
(* the words of the labels are pieces that a user's text may have as well. *)
(***************************************************************************)
EXTENDS StompCodec, TLC

CONSTANTS
  Null,
  Digit      \* the digits, as pieces, of each number that is written

\* An event is a record of channel, city, name, date, description, info (the
\* general information, a function from texts to texts) and owner.

Line(label, text) == <<label, Colon>> \o text \o <<NL>>

Flag(info, key) ==
  IF <<key>> \in DOMAIN info /\ info[<<key>>] = <<"true">> THEN <<"true">> ELSE <<"false">>

\* Of the general information two keys are sent, as true or false.
Body(user, e) ==
  Line("user", user) \o Line("city", e.city) \o Line("event name", e.name)
    \o Line("date time", Digit[e.date])
    \o Line("general information", <<>>)
    \o Line("active", Flag(e.info, "active"))
    \o Line("forces_arrival_at_scene", Flag(e.info, "forces_arrival_at_scene"))
    \o Line("description", e.description)

SendText(channel, body) ==
  <<"SEND", NL, "destination", Colon>> \o channel \o <<NL, NL>> \o body

\* handleSend: the MESSAGE that goes to every subscriber.
MessageFrame(send, subscription, connection) ==
  [command |-> <<"MESSAGE">>,
   headers |-> (<<"subscription">> :> subscription)
                 @@ (<<"Message-id">> :> connection)
                 @@ (<<"destination">> :> send.headers[<<"destination">>]),
   body    |-> send.body]

\* The hash codes of the three keys put them in this order.
MessageKeys == << <<"destination">>, <<"subscription">>, <<"Message-id">> >>
-----------------------------------------------------------------------------
(* parseEventMessage *)

\* Where s is in t, from position i on, if it is.
Finds(t, s, i) == {j \in i..Len(t) - Len(s) + 1 : SubSeq(t, j, j + Len(s) - 1) = s}

Has(t, label) == Finds(t, <<label, Colon>>, 1) # {}

\* From position i to the end of the line.
Rest(t, i) == SubSeq(t, i, Min(Finds(t, <<NL>>, i) \cup {Len(t) + 1}) - 1)

\* The text after the first occurrence of a label, or nothing.
Field(t, label) ==
  IF Has(t, label) THEN Rest(t, Min(Finds(t, <<label, Colon>>, 1)) + 2) ELSE <<>>

\* The owner is looked for without a test: what follows the fourth character.
Owner(t) == IF Has(t, "user") THEN Field(t, "user") ELSE <<"AGE">>

\* The 20 characters that InfoLines takes beyond a blank line too many, as
\* pieces: the two line ends and some words.
Overshoot == 5

InfoLines(t) ==
  LET start == Min(Finds(t, <<"general information", Colon>>, 1)) + 2
      blank == Finds(t, <<NL, NL>>, start)
      end   == IF blank = {} THEN Len(t) ELSE Min({Min(blank) + Overshoot, Len(t)})
  IN  Split(SubSeq(t, start, end), NL)

Info(t) ==
  IF ~ Has(t, "general information") THEN <<>>
  ELSE LET lines == InfoLines(t)
           K == {i \in DOMAIN lines : HasColon(lines[i])}
       IN  [k \in {Before(lines[i]) : i \in K} |->
              After(lines[Max({i \in K : Before(lines[i]) = k})])]

\* The number that the digits at the start of s are, or Null.
Number(s) ==
  LET N == {n \in DOMAIN Digit : IsPrefix(Digit[n], s)}
      L == {n \in N : \A m \in N : Len(Digit[m]) \leq Len(Digit[n])}
  IN  IF N = {} THEN Null ELSE CHOOSE n \in L : TRUE

\* stol throws on a date that is no number.
Undated(t) == Has(t, "date time") /\ Number(Field(t, "date time")) = Null

ParseEvent(t) ==
  [channel     |-> Field(t, "destination"),
   city        |-> Field(t, "city"),
   name        |-> Field(t, "event name"),
   date        |-> IF Has(t, "date time") THEN Number(Field(t, "date time")) ELSE 0,
   description |-> Field(t, "description"),
   info        |-> Info(t),
   owner       |-> Owner(t)]

\* What is printed: the first occurrence of the digits of the date, wherever
\* it is, is replaced by a readable date.
Printed(t) ==
  IF ~ Has(t, "date time") THEN t
  ELSE LET digits == Digit[Number(Field(t, "date time"))]
           i      == Min(Finds(t, digits, 1))
       IN  SubSeq(t, 1, i - 1) \o <<"date">> \o SubSeq(t, i + Len(digits), Len(t))
=============================================================================
