------------------------- MODULE ClearanceChannels -------------------------
(* Clearance through one of its two channels, chosen at the start: the API as it *)
(* is, or the part of it that the pages of the frontend use.                     *)
EXTENDS Clearance

VARIABLE channel    \* "API" or "pages"

channelVars == <<clearanceVars, channel>>

ChannelInit == ClearanceInit /\ channel \in {"API", "pages"}

Both == (Apart \/ Together) /\ UNCHANGED channel

APIStep ==
  /\ channel = "API" /\ UNCHANGED channel
  /\ \/ \E c \in Certs, u \in Users, r \in Subjects \cup {None} :
          CreateSignoff(c, u, r) /\ UNCHANGED <<functionalVars, signoff>>
     \/ \E r \in Requests, u \in Users, c \in Certs \cup {None} :
          RequestSignoff(r, u, c) \/ ConfirmSignoff(r, u, c)

PagesStep ==
  /\ channel = "pages" /\ UNCHANGED channel
  /\ \E r \in Requests, u \in Users, c \in Certs : NewCertificate(r, u, c) \/ LinkCertificate(r, u, c)

ChannelNext == Both \/ APIStep \/ PagesStep

ChannelSpec == ChannelInit /\ [][ChannelNext]_channelVars

----------------------------------------------------------------------------
\* Request and certificate never part as long as the pages are used: a request waits
\* for clearance exactly while its certificate is not issued, and is cleared exactly
\* while it is, with lost second calls and other certificates raised on the side.
PagesKeepInStep == channel = "pages" => InStep

=============================================================================
