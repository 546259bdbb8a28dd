------------------------------ MODULE NatPort ------------------------------
(***************************************************************************)
(* Abstract specification of the NatPort trait                             *)
(* (crates/wireforge-core/src/application/ports/nat.rs): apply and remove  *)
(* as single steps on the host.  NatAdapter implements it when calls do    *)
(* not overlap.                                                            *)
(***************************************************************************)
EXTENDS NatHost

VARIABLE host

Init == host \in {FreshHost(fwd) : fwd \in [Fams -> BOOLEAN]}

\* skip(): a dry run, or not on Linux
Skip == UNCHANGED host

Apply(wg, gw, v6) == \E o \in ApplyOutcomes(host, wg, gw, v6, Faults) : host' = o.host

Remove(wg, gw, v6) == host' \in RemoveOutcomes(host, wg, gw, v6, Faults)

Restart == host' \in CrashOutcomes(host)

Next == \/ Skip
        \/ \E wg \in Wgs, gw \in Gateways, v6 \in BOOLEAN :
              Apply(wg, gw, v6) \/ Remove(wg, gw, v6)
        \/ Restart

Spec == Init /\ [][Next]_host
=============================================================================
