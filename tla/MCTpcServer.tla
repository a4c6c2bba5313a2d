---------------------------- MODULE MCTpcServer -----------------------------
(* Frames and symmetry for the model-checking runs of TpcServer. *)
EXTENDS TpcServer

CONSTANTS u1, u2, p1, p2, ch1, ch2, s1, s2, r1  \* model values

Blank == [command |-> "unknown", login |-> Null, passcode |-> Null,
          destination |-> Null, id |-> Null, receipt |-> Null]

ConnectFrame(u, p) ==
  [Blank EXCEPT !.command = "CONNECT", !.login = u, !.passcode = p]

SubscribeFrame(ch, s) ==
  [Blank EXCEPT !.command = "SUBSCRIBE", !.destination = ch, !.id = s,
                !.receipt = r1]

UnsubscribeFrame(s) ==
  [Blank EXCEPT !.command = "UNSUBSCRIBE", !.id = s, !.receipt = r1]

SendFrame(ch) == [Blank EXCEPT !.command = "SEND", !.destination = ch]

DisconnectFrame == [Blank EXCEPT !.command = "DISCONNECT", !.receipt = r1]

GarbledFrame == [Blank EXCEPT !.command = "garbled"]

\* Logins as one user, with two passcodes.
SessionFrames ==
  {ConnectFrame(u1, p1), ConnectFrame(u1, p2), DisconnectFrame}

\* What the client sends: a subscription id stands for one channel.
ChannelFrames ==
  {ConnectFrame(u1, p1), ConnectFrame(u2, p1),
   SubscribeFrame(ch1, s1), UnsubscribeFrame(s1), SendFrame(ch1),
   DisconnectFrame}

\* The same, with another passcode and frames that are refused or throw, one
\* of a kind: what the server does with the others differs in nothing.
MixedFrames ==
  ChannelFrames
    \cup {ConnectFrame(u1, p2), ConnectFrame(Null, p1), SubscribeFrame(Null, s1),
          SubscribeFrame(ch1, Null), GarbledFrame}

\* Two clients that log in, subscribe and publish.
PublishFrames ==
  {ConnectFrame(u1, p1), ConnectFrame(u2, p1), SubscribeFrame(ch1, s1),
   SendFrame(ch1)}

\* A client that uses one subscription id for two channels in turn.
ReuseFrames ==
  {ConnectFrame(u1, p1), SubscribeFrame(ch1, s1), SubscribeFrame(ch2, s1),
   SubscribeFrame(ch1, s2), DisconnectFrame}

Symmetry == Permutations(Handlers)
=============================================================================
