----------------------------- MODULE NatAdapter -----------------------------
(***************************************************************************)
(* IptablesNatAdapter (crates/wireforge-infra/src/nat/mod.rs) one system   *)
(* call at a time.  apply and remove run on Tokio blocking threads, so     *)
(* several calls interleave between any two system calls; only the         *)
(* accesses to forward_state are under its mutex, and the mutex is held    *)
(* while remove writes the sysctls back.                                   *)
(***************************************************************************)
EXTENDS NatHost, FiniteSets

CONSTANTS
    Calls,      \* blocking threads that run adapter calls
    Families,   \* subset of BOOLEAN: whether interfaces with an IPv6 CIDR occur
    Free        \* nobody holds the forward_state mutex

ASSUME FamiliesAssumption == Families \subseteq BOOLEAN /\ Families # {}
ASSUME FreeAssumption == Free \notin Calls
ASSUME CallsAssumption == IsFiniteSet(Calls)

VARIABLES
    host,       \* sysctls, rules and forward_state
    lock,       \* holder of the forward_state mutex
    call,       \* what each thread is doing
    bootFwd,    \* which sysctls were on before Wireforge ever ran
    misread     \* history: of these, the ones that were on when read_forward failed to read them

vars == <<host, lock, call, bootFwd, misread>>

Pcs == {"idle", "read", "write", "snapshot", "probe", "insert", "delete", "restore", "off"}

Call == [pc : Pcs, wg : Wgs, gw : Gateways, v6 : BOOLEAN, fam : Fams,
         was : ForwardSnapshot, k : 1..6]

TypeOK ==
    /\ host \in Host
    /\ lock \in Calls \cup {Free}
    /\ call \in [Calls -> Call]
    /\ bootFwd \in [Fams -> BOOLEAN]
    /\ misread \subseteq Fams

AllOn == [f \in Fams |-> TRUE]

Idle(wg, gw) == [pc |-> "idle", wg |-> wg, gw |-> gw, v6 |-> FALSE, fam |-> "v4",
                 was |-> AllOn, k |-> 1]

SomeIdle == Idle(CHOOSE w \in Wgs : TRUE, CHOOSE g \in Gateways : TRUE)

Init ==
    /\ bootFwd \in [Fams -> BOOLEAN]
    /\ host = FreshHost(bootFwd)
    /\ lock = Free
    /\ call = [c \in Calls |-> SomeIdle]
    /\ misread = {}

Return(c) == call' = [call EXCEPT ![c] = SomeIdle]

Goto(c, pc) == call' = [call EXCEPT ![c].pc = pc]

Invocation(c) == Invocations(call[c].wg, call[c].gw, call[c].v6)[call[c].k]

LastInvocation(c) == call[c].k = Len(Invocations(call[c].wg, call[c].gw, call[c].v6))

Begin(c, pc, wg, gw, v6) ==
    /\ call[c].pc = "idle"
    /\ call' = [call EXCEPT ![c] = [Idle(wg, gw) EXCEPT !.pc = pc, !.v6 = v6]]
    /\ UNCHANGED <<host, lock, bootFwd, misread>>

-----------------------------------------------------------------------------
(* apply *)

BeginApply(c) ==
    \E wg \in Wgs, gw \in Gateways, v6 \in Families : Begin(c, "read", wg, gw, v6)

\* The step after family f is on: the v6 file, or the snapshot.
AfterFamily(c, was) ==
    LET more == call[c].fam = "v4" /\ call[c].v6 IN
    call' = [call EXCEPT ![c].was = was,
                         ![c].pc  = IF more THEN "read" ELSE "snapshot",
                         ![c].fam = IF more THEN "v6" ELSE "v4"]

\* Mutant: takes every sysctl for off.
ReadAlwaysOff(c) ==
    /\ call[c].pc = "read"
    /\ call' = [call EXCEPT ![c].was[call[c].fam] = FALSE, ![c].pc = "write"]
    /\ UNCHANGED <<host, lock, bootFwd, misread>>

\* An error of the read is taken for "off".
read_forward(c) ==
    /\ call[c].pc = "read"
    /\ LET f == call[c].fam IN
       \/ /\ host.fwd[f]
          /\ AfterFamily(c, call[c].was)
          /\ UNCHANGED misread
       \/ /\ ~host.fwd[f] \/ "read" \in Faults
          /\ call' = [call EXCEPT ![c].was[f] = FALSE, ![c].pc = "write"]
          /\ misread' = IF bootFwd[f] /\ host.fwd[f] THEN misread \cup {f} ELSE misread
    /\ UNCHANGED <<host, lock, bootFwd>>

\* Mutant: goes on after a failed write.
WriteIgnored(c) ==
    /\ call[c].pc = "write"
    /\ \/ host' = [host EXCEPT !.fwd[call[c].fam] = TRUE]
       \/ "sysctl" \in Faults /\ host' = host
    /\ AfterFamily(c, call[c].was)
    /\ UNCHANGED <<lock, bootFwd, misread>>

write_forward(c) ==
    /\ call[c].pc = "write"
    /\ \/ /\ host' = [host EXCEPT !.fwd[call[c].fam] = TRUE]
          /\ AfterFamily(c, call[c].was)
       \/ /\ "sysctl" \in Faults
          /\ host' = host
          /\ Return(c)
    /\ UNCHANGED <<lock, bootFwd, misread>>

InsertSnapshot(c) ==
    /\ call[c].pc = "snapshot"
    /\ lock = Free
    /\ host' = [host EXCEPT !.snap[call[c].wg] = call[c].was]
    /\ Goto(c, "probe")
    /\ UNCHANGED <<lock, bootFwd, misread>>

\* The next rule of apply_rules, or Ok(()) after the last one.
NextRule(c) ==
    IF LastInvocation(c) THEN Return(c)
    ELSE call' = [call EXCEPT ![c].k = @ + 1, ![c].pc = "probe"]

\* Mutant: inserts without asking.
InsertUnprobed(c) ==
    /\ call[c].pc = "probe"
    /\ Goto(c, "insert")
    /\ UNCHANGED <<host, lock, bootFwd, misread>>

\* iptables -C
Probe(c) ==
    /\ call[c].pc = "probe"
    /\ LET i == Invocation(c) IN
       \/ host.rules[i.fam][i.rule] > 0 /\ NextRule(c)
       \/ host.rules[i.fam][i.rule] = 0 /\ Goto(c, "insert")
       \/ /\ "probe" \in Faults
          /\ host.rules[i.fam][i.rule] < MaxCopies /\ i.rule.chain \in Doubted
          /\ Goto(c, "insert")
       \/ "iptables" \in Faults /\ Return(c)
    /\ UNCHANGED <<host, lock, bootFwd, misread>>

\* iptables -I
Insert(c) ==
    /\ call[c].pc = "insert"
    /\ LET i == Invocation(c) IN
       \/ /\ host' = [host EXCEPT !.rules[i.fam][i.rule] = @ + 1]
          /\ NextRule(c)
       \/ /\ "iptables" \in Faults
          /\ host' = host
          /\ Return(c)
    /\ UNCHANGED <<lock, bootFwd, misread>>

-----------------------------------------------------------------------------
(* remove *)

BeginRemove(c) ==
    \E wg \in Wgs, gw \in Gateways, v6 \in Families : Begin(c, "delete", wg, gw, v6)

\* iptables -D, whose failure is ignored
Delete(c) ==
    /\ call[c].pc = "delete"
    /\ LET i == Invocation(c) IN
       \/ host' = [host EXCEPT !.rules[i.fam][i.rule] = IF @ > 0 THEN @ - 1 ELSE 0]
       \/ "iptables" \in Faults /\ host' = host
    /\ IF LastInvocation(c) THEN Goto(c, "restore")
       ELSE call' = [call EXCEPT ![c].k = @ + 1]
    /\ UNCHANGED <<lock, bootFwd, misread>>

\* Mutant: does not ask whether there is a snapshot.
TakeUnchecked(c) ==
    /\ call[c].pc = "restore" /\ lock = Free
    /\ call' = [call EXCEPT ![c].was = host.snap[call[c].wg], ![c].pc = "off"]
    /\ host' = [host EXCEPT !.snap[call[c].wg] = NoSnap]
    /\ lock' = c
    /\ UNCHANGED <<bootFwd, misread>>

\* lock the map and take the snapshot out of it
TakeSnapshot(c) ==
    /\ call[c].pc = "restore"
    /\ lock = Free
    /\ LET wg == call[c].wg IN
       \/ /\ host.snap[wg] = NoSnap
          /\ Return(c)
          /\ UNCHANGED <<host, lock>>
       \/ /\ host.snap[wg] # NoSnap
          /\ call' = [call EXCEPT ![c].was = host.snap[wg], ![c].pc = "off"]
          /\ host' = [host EXCEPT !.snap[wg] = NoSnap]
          /\ lock' = c
    /\ UNCHANGED <<bootFwd, misread>>

\* write a sysctl back, still under the mutex; a failed write is ignored
TurnOff(c) ==
    /\ call[c].pc = "off"
    /\ LET f   == call[c].fam
           off == Covers(call[c].v6, f) /\ ~call[c].was[f]
       IN  \/ host' = [host EXCEPT !.fwd[f] = @ /\ ~off]
           \/ off /\ "sysctl" \in Faults /\ host' = host
    /\ IF call[c].fam = "v4"
       THEN call' = [call EXCEPT ![c].fam = "v6"] /\ lock' = lock
       ELSE Return(c) /\ lock' = Free
    /\ UNCHANGED <<bootFwd, misread>>

-----------------------------------------------------------------------------
(***************************************************************************)
(* The server process dies and comes back: calls stop where they are, the  *)
(* map is empty again, the kernel keeps sysctls and rules.                 *)
(***************************************************************************)
Restart ==
    /\ host' = Forgotten(host)
    /\ lock' = Free
    /\ call' = [c \in Calls |-> SomeIdle]
    /\ UNCHANGED <<bootFwd, misread>>

Step(c) ==
    \/ read_forward(c) \/ write_forward(c) \/ InsertSnapshot(c) \/ Probe(c) \/ Insert(c)
    \/ Delete(c) \/ TakeSnapshot(c) \/ TurnOff(c)

Work == \E c \in Calls : BeginApply(c) \/ BeginRemove(c) \/ Step(c)

Next == Work \/ Restart

Spec == Init /\ [][Next]_vars

\* The life of one server process.
Uninterrupted == Init /\ [][Work]_vars

-----------------------------------------------------------------------------
(***************************************************************************)
(* The comment on ForwardSnapshot: forwarding that was on before Wireforge *)
(* ran ("we were not the ones who turned it on") is never turned off,      *)
(* whatever calls overlap, fail, or are cut short by a restart, unless     *)
(* read_forward once took it for off because the read failed.              *)
(***************************************************************************)
BootForwardingKept == \A f \in Fams : bootFwd[f] /\ f \notin misread => host.fwd[f]

(***************************************************************************)
(* Why: no snapshot, stored in the map or carried by a running call, says  *)
(* of such a family that it was off.                                       *)
(***************************************************************************)
SnapshotsHonest ==
    \A f \in Fams : bootFwd[f] /\ f \notin misread =>
        /\ \A w \in Wgs : host.snap[w] # NoSnap => host.snap[w][f]
        /\ \A c \in Calls : call[c].was[f]

\* The threads about to insert a rule.
Inserting(f, r) == {c \in Calls : call[c].pc = "insert" /\ Invocation(c) = [fam |-> f, rule |-> r]}

(***************************************************************************)
(* -C and -I are two processes, so overlapping apply calls can insert a    *)
(* rule twice, but never more often than calls can overlap, as long as -C  *)
(* finds every rule that is there: rules do not pile up over many          *)
(* start/stop rounds.                                                      *)
(***************************************************************************)
RuleCopiesBounded ==
    \A f \in Fams, r \in Rule :
        host.rules[f][r] + Cardinality(Inserting(f, r)) <= Cardinality(Calls)

\* No call is running.
Quiet == \A c \in Calls : call[c].pc = "idle"

(***************************************************************************)
(* The field comment "Lets `remove` restore `ip_forward` to its            *)
(* pre-`apply` value": once no interface has a snapshot any more and no    *)
(* call is running, the sysctls are what they were before Wireforge ran.   *)
(***************************************************************************)
ForwardingRestored ==
    (Quiet /\ \A w \in Wgs : host.snap[w] = NoSnap) => host.fwd = bootFwd
=============================================================================
