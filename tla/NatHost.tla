------------------------------ MODULE NatHost ------------------------------
(***************************************************************************)
(* The part of the host that crates/wireforge-infra/src/nat/mod.rs reads   *)
(* and writes: the two ip_forward sysctls, the iptables and ip6tables      *)
(* rules, and the adapter's own forward_state map.  An address family      *)
(* stands for a /proc file together with the iptables binary of the        *)
(* family.  The operators give the effect of one whole adapter call that   *)
(* nothing interrupts; NatAdapter shows that the step-by-step code has it. *)
(***************************************************************************)
EXTENDS Naturals, Sequences, Functions

CONSTANTS
    Wgs,        \* names of WireGuard interfaces
    Gateways,   \* names of host interfaces that can carry egress traffic
    NoSnap,     \* no entry in forward_state
    Faults,     \* host calls that may fail: subset of NatFaults
    MaxCopies,  \* bound: a false probe is explored below this many copies only
    Doubted     \* bound: chains of the rules whose probe is explored to fail

\* A sysctl cannot be read, or written; an iptables process cannot be spawned or exits
\* with an error; a -C probe exits non-zero for another reason than a missing rule.
NatFaults == {"read", "sysctl", "iptables", "probe"}

ASSUME NamesAssumption == Wgs # {} /\ Gateways # {}
ASSUME FaultsAssumption == Faults \subseteq NatFaults
ASSUME MaxCopiesAssumption == MaxCopies \in Nat /\ Doubted \subseteq {"in", "out", "masq"}
ASSUME NoSnapAssumption == NoSnap \notin [{"v4", "v6"} -> BOOLEAN]

Fams == {"v4", "v6"}

\* struct ForwardSnapshot: the value each sysctl had when apply found it.
ForwardSnapshot == [Fams -> BOOLEAN]

Rule == [chain : {"in", "out"}, dev : Wgs] \cup [chain : {"masq"}, dev : Gateways]

\* An iptables table may hold several copies of a rule: the number of copies.
Host == [fwd   : [Fams -> BOOLEAN],
         rules : [Fams -> [Rule -> Nat]],
         snap  : [Wgs -> ForwardSnapshot \cup {NoSnap}]]

nat_rules(wg, gateway) ==
    << [chain |-> "in",   dev |-> wg],
       [chain |-> "out",  dev |-> wg],
       [chain |-> "masq", dev |-> gateway] >>

\* The families a call touches: the v6 half only when the row has an IPv6 CIDR.
Covers(has_v6, f) == f = "v4" \/ has_v6

\* The iptables invocations of one call, in the order they are made.
Invocations(wg, gateway, has_v6) ==
    LET on(f) == [i \in 1..3 |-> [fam |-> f, rule |-> nat_rules(wg, gateway)[i]]]
    IN  on("v4") \o (IF has_v6 THEN on("v6") ELSE << >>)

\* apply_rules: insert what the -C probe does not find, or denies.
apply_rules(rules, invocations, denied) ==
    [f \in Fams |-> [r \in Rule |->
        LET i == [fam |-> f, rule |-> r] IN
        IF i \in Range(invocations) /\ (rules[f][r] = 0 \/ i \in denied)
        THEN rules[f][r] + 1 ELSE rules[f][r]]]

\* The rules a failing probe can deny although they are there.
Deniable(rules, invocations) ==
    {i \in Range(invocations) :
        rules[i.fam][i.rule] \in 1..(MaxCopies - 1) /\ i.rule.chain \in Doubted}

\* remove_rules: -D takes one copy away; a rule that is not there is no error.
remove_rules(rules, deleted) ==
    [f \in Fams |-> [r \in Rule |->
        IF [fam |-> f, rule |-> r] \in deleted /\ rules[f][r] > 0
        THEN rules[f][r] - 1 ELSE rules[f][r]]]

\* What apply remembers: a family it does not touch counts as already on.
SnapshotOf(fwd, has_v6) == [f \in Fams |-> Covers(has_v6, f) => fwd[f]]

\* What it may remember: read_forward takes a sysctl that it cannot read for off.
Snapshots(fwd, has_v6, faults) ==
    {[f \in Fams |-> SnapshotOf(fwd, has_v6)[f] /\ f \notin unread] :
        unread \in IF "read" \in faults THEN SUBSET {f \in Fams : Covers(has_v6, f)} ELSE {{}}}

\* Both sysctls of the call on.
ForwardingOn(fwd, has_v6) == [f \in Fams |-> Covers(has_v6, f) \/ fwd[f]]

(***************************************************************************)
(* NatPort::apply.  It returns an error and leaves its earlier effects in  *)
(* place when a sysctl write fails (nothing was remembered yet) or when an *)
(* iptables call fails (the rules before it stay installed).               *)
(***************************************************************************)
ApplyOutcomes(h, wg, gateway, has_v6, faults) ==
    LET seen == Snapshots(h.fwd, has_v6, faults)
        inv  == Invocations(wg, gateway, has_v6)
        denials == IF "probe" \in faults THEN SUBSET Deniable(h.rules, inv) ELSE {{}}
        upTo(n, denied, was) == [fwd   |-> ForwardingOn(h.fwd, has_v6),
                                 rules |-> apply_rules(h.rules, SubSeq(inv, 1, n), denied),
                                 snap  |-> [h.snap EXCEPT ![wg] = was]]
    IN  {[ok |-> TRUE, host |-> upTo(Len(inv), denied, was)] : denied \in denials, was \in seen}
        \cup {[ok |-> FALSE, host |-> h] : was \in {w \in seen : "sysctl" \in faults /\ ~w["v4"]}}
        \cup {[ok |-> FALSE, host |-> [h EXCEPT !.fwd["v4"] = TRUE]] :
                was \in {w \in seen : "sysctl" \in faults /\ ~w["v6"]}}
        \cup {[ok |-> FALSE, host |-> upTo(n, denied, was)] :
                n \in {m \in 0..(Len(inv) - 1) : "iptables" \in faults}, denied \in denials, was \in seen}

(***************************************************************************)
(* NatPort::remove.  Failures are ignored: a rule whose -D fails stays, a  *)
(* sysctl whose write fails keeps its value, and the snapshot is gone      *)
(* either way.                                                             *)
(***************************************************************************)
RemoveOutcomes(h, wg, gateway, has_v6, faults) ==
    LET all      == Range(Invocations(wg, gateway, has_v6))
        deleted  == IF "iptables" \in faults THEN SUBSET all ELSE {all}
        turnOff  == IF h.snap[wg] = NoSnap THEN {}
                    ELSE {f \in Fams : Covers(has_v6, f) /\ ~h.snap[wg][f]}
        switched == IF "sysctl" \in faults THEN SUBSET turnOff ELSE {turnOff}
    IN  {[fwd   |-> [f \in Fams |-> h.fwd[f] /\ f \notin off],
          rules |-> remove_rules(h.rules, del),
          snap  |-> [h.snap EXCEPT ![wg] = NoSnap]] : del \in deleted, off \in switched}

\* The host before Wireforge has run: no rule of ours, forwarding as configured.
FreshHost(fwd) == [fwd   |-> fwd,
                   rules |-> [f \in Fams |-> [r \in Rule |-> 0]],
                   snap  |-> [w \in Wgs |-> NoSnap]]

\* A new server process: forward_state starts empty, the host keeps the rest.
Forgotten(h) == [h EXCEPT !.snap = [w \in Wgs |-> NoSnap]]

\* The process dies, perhaps in the middle of a call: whatever prefix of the
\* call's effects a failure could leave is also what the crash can leave.
CrashOutcomes(h) ==
    {Forgotten(x) : x \in {h} \cup UNION {
        {o.host : o \in ApplyOutcomes(h, wg, gw, v6, NatFaults)}
            \cup RemoveOutcomes(h, wg, gw, v6, NatFaults) :
        wg \in Wgs, gw \in Gateways, v6 \in BOOLEAN}}

\* Everything apply promises for one interface is in place.
Masqueraded(h, wg, gateway, has_v6) ==
    /\ \A f \in Fams : Covers(has_v6, f) => h.fwd[f]
    /\ \A i \in Range(Invocations(wg, gateway, has_v6)) : h.rules[i.fam][i.rule] > 0
=============================================================================
