--------------------------- MODULE MCHostDiscovery ---------------------------
(* An instance of HostDiscovery for TLC: h can be reached at two addresses, and *)
(* was configured under a third that leads nowhere now.                         *)
EXTENDS HostDiscovery, TLC

OneOther == {"h"}
TheirAddresses == {"me:1", "h:1", "h:2", "old:1", "n:1", "key:1"}
Places == "me:1" :> "me" @@ "h:1" :> "h" @@ "h:2" :> "h" @@ "old:1" :> "nobody"
              @@ "n:1" :> "nobody" @@ "key:1" :> "nobody"

\* "n" is an answer that came late, "h" the key of h.
Ports == "n" :> "n:1" @@ "me:1" :> "me:1" @@ "h:2" :> "h:2" @@ "h" :> "key:1"
OldPeers == <<[address |-> "old:1", key |-> "h"]>>
=============================================================================
