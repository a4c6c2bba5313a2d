---------------------------- MODULE MCEventStore -----------------------------
(* Users, events and numbers for the model-checking runs of EventStore. *)
EXTENDS EventStore

MCUsers == {<<"ann">>, <<"bob">>}
Ann == <<"ann">>
Police == <<"police">>

MCNonAscii == {"e acute"}

\* Dates have digits that the numbers of subscriptions do not have.
MCDigit == 0 :> <<"0">> @@ 5 :> <<"5">> @@ 52 :> <<"5", "2">>
One == {<<"1">>}
Numbers == {<<"1">>, <<"5">>}

NoInfo == [k \in {} |-> k]
Serious == (<<"active">> :> <<"true">>) @@ (<<"casualties">> :> <<"5">>)
Quiet == (<<"active">> :> <<"no">>) @@ (<<"forces_arrival_at_scene">> :> <<"true">>)

NewEvent(city, name, date, info, description) ==
  [channel |-> Police, city |-> city, name |-> name, date |-> date, info |-> info,
   description |-> description, owner |-> <<>>]

\* Texts with words of the labels, with colons and with inner spaces.
PlainReports ==
  {NewEvent(<<"Raccoon", Blank, "city">>, <<"robbery">>, 5, Serious, <<"all", Blank, "clear">>),
   NewEvent(<<"city">>, <<"event name">>, 52, Quiet, <<"note", Colon, "active">>),
   NewEvent(<<>>, <<"fire">>, 5, NoInfo, <<>>)}

\* A label in the city: stol fails on what follows it.
MCReports ==
  PlainReports \cup {NewEvent(<<"date time", Colon, "x">>, <<"fire">>, 5, NoInfo, <<"f">>)}

\* Texts with a line end, a label, a letter outside ASCII or a space at the end.
UglyReports ==
  {NewEvent(<<"Rome">>, <<"fire">>, 5, NoInfo, <<"first", NL, "second">>),
   NewEvent(<<"Rome">>, <<"city", Colon, "x">>, 5, NoInfo, <<"f">>),
   NewEvent(<<"e acute">>, <<"fire">>, 5, NoInfo, <<"f">>),
   NewEvent(<<"Rome">>, <<"fire">>, 5, NoInfo, <<"f", Blank>>)}

\* The condition of the theorems holds of these.
ASSUME PlainTextsSurvive == Reports = MCReports => TextsSurvive
=============================================================================
