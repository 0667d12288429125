----------------------- MODULE ActiveTransportHistory -----------------------
(***************************************************************************)
(* ActiveTransport with a history variable: the grants the source has made *)
(* so far.  With it the protocol is shown to implement GrantLog.           *)
(***************************************************************************)
EXTENDS ActiveTransport

VARIABLE granted

HVars == <<vars, granted>>

\* The history never influences a step: it records increment_and_set's results.
HInit == Init /\ granted = {}
HNext == Next /\ granted' = granted \cup (IF source'.clock > 0 THEN {source'} ELSE {})
HSpec == HInit /\ [][HNext]_HVars

Log == INSTANCE GrantLog WITH
    Parties <- Dests, Authority <- Host, Nobody <- NoPeer,
    current <- source, issued <- granted, held <- active

\* The protocol implements GrantLog: whatever is lost, delayed, repeated or
\* restarted, a destination holds only grants the source made, and goes back to
\* an older one only when that is the answer to a request of its own
\* (run_active_handler's set_active against active_state's clock comparison).
ImplementsGrantLog == Log!Spec

\* In flight, too, there are only grants the source made, answers are about the
\* requester, and notifications never name their receiver.
InFlightIsGranted ==
    /\ \A m \in notices :
        /\ m.grant.peer # m.to
        /\ m.grant.clock > 0 => m.grant \in granted
    /\ \A d \in Dests : handler[d] = "answered" =>
        /\ answer[d] \in granted
        /\ answer[d].peer \in {d, Host}
=============================================================================
