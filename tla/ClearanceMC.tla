---------------------------- MODULE ClearanceMC ----------------------------
(* An instance of Clearance for TLC: through the API or through the pages. *)
EXTENDS ClearancePage, ClearanceChannels, TLC

CONSTANTS r1, c1, c2, ana, lea, chief, agm, root

OfAna == [r \in Requests |-> ana]

\* Bounds of the instance: the API handles one certificate with two texts, the pages
\* two of one text that the administrator takes through their approvals.
Instance ==
  IF channel' = "API" THEN certStatus'[c2] = "ABSENT"
  ELSE \A c \in Certs : /\ certBy'[c] \in {None, root} /\ reviewedBy'[c] \in {None, root}
                        /\ text'[c] \in {None, "asDrafted"}

InstanceSpec == ChannelInit /\ [][ChannelNext /\ Instance]_channelVars

=============================================================================
