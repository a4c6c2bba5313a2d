------------------------------ MODULE MCReactor ------------------------------
(* Frames and scripts for the model-checking runs of Reactor. *)
EXTENDS Reactor, TLC

CONSTANTS h1, h2, u1, p1, ch1, s1, r1  \* model values

Blank == [command |-> "unknown", login |-> Null, passcode |-> Null,
          destination |-> Null, id |-> Null, receipt |-> Null]

ConnectFrame(u) == [Blank EXCEPT !.command = "CONNECT", !.login = u, !.passcode = p1]

SubscribeFrame ==
  [Blank EXCEPT !.command = "SUBSCRIBE", !.destination = ch1, !.id = s1]

SendFrame == [Blank EXCEPT !.command = "SEND", !.destination = ch1, !.receipt = r1]

DisconnectFrame == [Blank EXCEPT !.command = "DISCONNECT", !.receipt = r1]

GarbledFrame == [Blank EXCEPT !.command = "garbled"]

UnknownFrame == Blank

ClientFrames ==
  {ConnectFrame(u1), SubscribeFrame, SendFrame, DisconnectFrame, GarbledFrame, UnknownFrame}

SessionFrames == {ConnectFrame(u1), DisconnectFrame, UnknownFrame}

\* The end of a frame that has no body is a header line, or part of one, and
\* more header lines: no known command.  The body of a SEND may have lines
\* without a colon.
RestOfFrame ==
  [f \in Frames |->
     IF f.command = "SEND" THEN {UnknownFrame, GarbledFrame} ELSE {UnknownFrame}]

Script(f, g) == (h1 :> f) @@ (h2 :> g)

\* An exception with a message behind it while another client logs in; a login,
\* a subscription and a message; a login and a logout.
MixedScripts ==
  {Script(<<GarbledFrame, SendFrame>>, <<ConnectFrame(u1)>>),
   Script(<<ConnectFrame(u1), SubscribeFrame, SendFrame>>, <<>>),
   Script(<<ConnectFrame(u1), DisconnectFrame>>, <<>>),
   Script(<<ConnectFrame(u1), Null>>, <<>>)}

\* Logins of one user; one client logs out twice.
LogoutScripts ==
  {Script(<<ConnectFrame(u1), DisconnectFrame, DisconnectFrame>>, <<ConnectFrame(u1)>>)}

\* One frame each.
LoginScripts ==
  [Handlers -> {<<Null>>, <<ConnectFrame(u1), Null>>}]

=============================================================================
