-------------------------- MODULE NatAdapterProofs --------------------------
(***************************************************************************)
(* Proofs about NatAdapter for any set of interfaces, gateways and         *)
(* threads, and any combination of faults, and the proof that it           *)
(* implements NatPort when one thread makes all the calls.                 *)
(***************************************************************************)
EXTENDS NatAdapterSerial, FiniteSetTheorems, SequenceTheorems, TLAPS

Entry == [fam : Fams, rule : Rule]

\* The rule index stays inside the list of the call's iptables invocations.
IndexOK == \A c \in Calls : call[c].v6 \/ call[c].k <= 3

TypeInv == TypeOK /\ IndexOK

-----------------------------------------------------------------------------
(* A call makes three iptables invocations per family, all on its own rules. *)
LEMMA InvocationsType ==
    ASSUME NEW wg \in Wgs, NEW gw \in Gateways, NEW v6 \in BOOLEAN
    PROVE  /\ Invocations(wg, gw, v6) \in Seq(Entry)
           /\ Len(Invocations(wg, gw, v6)) = IF v6 THEN 6 ELSE 3
<1> DEFINE on(f) == [i \in 1..3 |-> [fam |-> f, rule |-> nat_rules(wg, gw)[i]]]
<1>1. nat_rules(wg, gw)[1] \in Rule /\ nat_rules(wg, gw)[2] \in Rule /\ nat_rules(wg, gw)[3] \in Rule
  BY DEF nat_rules, Rule
<1>2. \A f \in Fams : on(f) \in [1..3 -> Entry]
  <2> SUFFICES ASSUME NEW f \in Fams, NEW i \in 1..3
               PROVE  nat_rules(wg, gw)[i] \in Rule
    BY DEF Entry
  <2> QED BY <1>1
<1>3. \A f \in Fams : on(f) \in Seq(Entry) /\ Len(on(f)) = 3
  BY <1>2
<1> HIDE DEF on
<1>4. "v4" \in Fams /\ "v6" \in Fams
  BY DEF Fams
<1>5. /\ on("v4") \o on("v6") \in Seq(Entry)
      /\ Len(on("v4") \o on("v6")) = 6
      /\ on("v4") \o << >> = on("v4")
  <2>1. on("v4") \in Seq(Entry) /\ on("v6") \in Seq(Entry) /\ Len(on("v4")) = 3 /\ Len(on("v6")) = 3
    BY <1>3, <1>4
  <2>2. on("v4") \o << >> = on("v4")
    BY <2>1, ConcatEmptySeq, Zenon
  <2>3. /\ on("v4") \o on("v6") \in Seq(Entry)
        /\ Len(on("v4") \o on("v6")) = Len(on("v4")) + Len(on("v6"))
    BY <2>1, ConcatProperties, Zenon
  <2>4. \A x, y, z : x = 3 /\ y = 3 /\ z = x + y => z = 6
    OBVIOUS
  <2> QED BY <2>1, <2>2, <2>3, <2>4, Zenon
<1>6. Invocations(wg, gw, v6) = on("v4") \o (IF v6 THEN on("v6") ELSE << >>)
  BY DEF Invocations, on
<1> QED BY <1>3, <1>4, <1>5, <1>6, Zenon

(* The invocation a thread is at is a rule of one of the two tables. *)
LEMMA InvocationType ==
    ASSUME TypeInv, NEW c \in Calls
    PROVE  /\ Invocation(c) \in Entry
           /\ LastInvocation(c) <=> call[c].k = IF call[c].v6 THEN 6 ELSE 3
<1> DEFINE inv == Invocations(call[c].wg, call[c].gw, call[c].v6)
<1>1. call[c] \in Call
  BY DEF TypeInv, TypeOK
<1>2. call[c].k \in 1..(IF call[c].v6 THEN 6 ELSE 3)
  BY <1>1 DEF Call, TypeInv, IndexOK
<1>3. inv \in Seq(Entry) /\ Len(inv) = IF call[c].v6 THEN 6 ELSE 3
  BY <1>1, InvocationsType DEF Call
<1> HIDE DEF inv
<1>4. inv[call[c].k] \in Entry
  BY <1>2, <1>3
<1> QED BY <1>3, <1>4 DEF inv, Invocation, LastInvocation

(* The record a returning call leaves behind is well typed. *)
LEMMA IdleType ==
    ASSUME NEW wg \in Wgs, NEW gw \in Gateways
    PROVE  Idle(wg, gw) \in Call /\ SomeIdle \in Call /\ SomeIdle.k = 1 /\ SomeIdle.was = AllOn
           /\ AllOn \in ForwardSnapshot
BY NamesAssumption DEF Idle, SomeIdle, Call, Pcs, Fams, ForwardSnapshot, AllOn

(* Changing the number of copies of one rule, or one sysctl, leaves a host. *)
LEMMA HostUpdates ==
    ASSUME NEW h \in Host
    PROVE  /\ \A i \in Entry, n \in Nat : [h EXCEPT !.rules[i.fam][i.rule] = n] \in Host
           /\ \A f \in Fams, b \in BOOLEAN : [h EXCEPT !.fwd[f] = b] \in Host
<1>1. ASSUME NEW i \in Entry, NEW n \in Nat
      PROVE  [h EXCEPT !.rules[i.fam][i.rule] = n] \in Host
  <2>1. i.fam \in Fams /\ i.rule \in Rule
    BY DEF Entry
  <2>2. h.rules[i.fam] \in [Rule -> Nat]
    BY <2>1 DEF Host
  <2>3. [h.rules[i.fam] EXCEPT ![i.rule] = n] \in [Rule -> Nat]
    BY <2>1, <2>2
  <2>4. [h.rules EXCEPT ![i.fam] = [h.rules[i.fam] EXCEPT ![i.rule] = n]] \in [Fams -> [Rule -> Nat]]
    BY <2>1, <2>3 DEF Host
  <2> QED BY <2>4 DEF Host
<1>2. ASSUME NEW f \in Fams, NEW b \in BOOLEAN
      PROVE  [h EXCEPT !.fwd[f] = b] \in Host
  <2>1. [h.fwd EXCEPT ![f] = b] \in [Fams -> BOOLEAN]
    BY DEF Host
  <2> QED BY <2>1 DEF Host
<1> QED BY <1>1, <1>2

(* Initially the host is fresh and every thread is idle. *)
LEMMA InitType == Init => TypeInv
<1> SUFFICES ASSUME Init PROVE TypeInv
  OBVIOUS
<1>1. host \in Host
  BY DEF Init, FreshHost, Host
<1>2. SomeIdle \in Call /\ SomeIdle.k = 1
  BY IdleType, NamesAssumption
<1> QED BY <1>1, <1>2 DEF Init, TypeInv, TypeOK, IndexOK

(* Every step keeps the variables in their types. *)
LEMMA NextType == TypeInv /\ [Next]_vars => TypeInv'
<1> SUFFICES ASSUME TypeInv, [Next]_vars PROVE TypeInv'
  OBVIOUS
<1> USE DEF TypeInv, TypeOK, IndexOK
<1>i. SomeIdle \in Call /\ SomeIdle.k = 1
  BY IdleType, NamesAssumption
<1>1. ASSUME NEW c \in Calls, BeginApply(c) \/ BeginRemove(c)
      PROVE  TypeInv'
  <2>1. PICK wg \in Wgs, gw \in Gateways, v6 \in Families, pc \in {"read", "delete"} :
             Begin(c, pc, wg, gw, v6)
    BY <1>1 DEF BeginApply, BeginRemove
  <2>2. [Idle(wg, gw) EXCEPT !.pc = pc, !.v6 = v6] \in Call
    <3>1. pc \in Pcs /\ v6 \in BOOLEAN /\ Idle(wg, gw) \in Call
      BY FamiliesAssumption, IdleType DEF Pcs
    <3> QED BY <3>1 DEF Call
  <2>3. [Idle(wg, gw) EXCEPT !.pc = pc, !.v6 = v6].k = 1
    BY DEF Idle
  <2> QED BY <2>1, <2>2, <2>3 DEF Begin
<1>2. ASSUME NEW c \in Calls, read_forward(c)
      PROVE  TypeInv'
  BY <1>2 DEF read_forward, AfterFamily, Call, Pcs, Fams, ForwardSnapshot
<1>3. ASSUME NEW c \in Calls, write_forward(c)
      PROVE  TypeInv'
  <2>1. host' \in Host
    BY <1>3, HostUpdates DEF write_forward, Call
  <2>2. CASE AfterFamily(c, call[c].was)
    <3>1. PICK pc \in Pcs, f \in Fams :
            call' = [call EXCEPT ![c].was = call[c].was, ![c].pc = pc, ![c].fam = f]
      BY <2>2 DEF AfterFamily, Pcs, Fams
    <3>2. call' \in [Calls -> Call] /\ IndexOK'
      BY <3>1, ZenonT(40) DEF Call
    <3> QED BY <1>3, <2>1, <3>2 DEF write_forward
  <2>3. CASE Return(c)
    <3>1. call' \in [Calls -> Call] /\ IndexOK'
      BY <2>3, <1>i DEF Return
    <3> QED BY <1>3, <2>1, <3>1 DEF write_forward
  <2> QED BY <1>3, <2>2, <2>3 DEF write_forward
<1>4. ASSUME NEW c \in Calls, InsertSnapshot(c)
      PROVE  TypeInv'
  <2>1. call' \in [Calls -> Call] /\ IndexOK'
    BY <1>4 DEF InsertSnapshot, Goto, Call, Pcs
  <2>2. host' \in Host
    BY <1>4 DEF InsertSnapshot, Host, Call
  <2> QED BY <1>4, <2>1, <2>2 DEF InsertSnapshot
<1>5. ASSUME NEW c \in Calls, NextRule(c)
      PROVE  call' \in [Calls -> Call] /\ IndexOK'
  BY <1>5, <1>i, InvocationType DEF NextRule, Return, Call, Pcs
<1>6. ASSUME NEW c \in Calls, Probe(c)
      PROVE  TypeInv'
  <2>1. call' \in [Calls -> Call] /\ IndexOK'
    BY <1>5, <1>6, <1>i DEF Probe, Goto, Return, Call, Pcs
  <2> QED BY <1>6, <2>1 DEF Probe
<1>7. ASSUME NEW c \in Calls, Insert(c)
      PROVE  TypeInv'
  <2>1. call' \in [Calls -> Call] /\ IndexOK'
    BY <1>5, <1>7, <1>i DEF Insert, Return
  <2>2. host' \in Host
    <3>1. Invocation(c) \in Entry
      BY InvocationType
    <3>2. host.rules[Invocation(c).fam][Invocation(c).rule] + 1 \in Nat
      BY <3>1 DEF Host, Entry
    <3> QED BY <1>7, <3>1, <3>2, HostUpdates DEF Insert
  <2> QED BY <1>7, <2>1, <2>2 DEF Insert
<1>8. ASSUME NEW c \in Calls, Delete(c)
      PROVE  TypeInv'
  <2>1. call' \in [Calls -> Call] /\ IndexOK'
    BY <1>8, InvocationType DEF Delete, Goto, Call, Pcs
  <2>2. host' \in Host
    <3>1. Invocation(c) \in Entry
      BY InvocationType
    <3>2. host.rules[Invocation(c).fam][Invocation(c).rule] \in Nat
      BY <3>1 DEF Host, Entry
    <3>3. PICK n \in Nat : host' = [host EXCEPT !.rules[Invocation(c).fam][Invocation(c).rule] = n]
                            \/ host' = host
      <4>1. \A m \in Nat : (IF m > 0 THEN m - 1 ELSE 0) \in Nat
        OBVIOUS
      <4> QED BY <1>8, <3>2, <4>1, Zenon DEF Delete
    <3> QED BY <3>1, <3>3, HostUpdates
  <2> QED BY <1>8, <2>1, <2>2 DEF Delete
<1>9. ASSUME NEW c \in Calls, TakeSnapshot(c)
      PROVE  TypeInv'
  <2>1. host' \in Host
    BY <1>9, SMTT(40) DEF TakeSnapshot, Host, Call
  <2>2. host.snap[call[c].wg] # NoSnap => host.snap[call[c].wg] \in ForwardSnapshot
    BY DEF Host, Call
  <2>3. call' \in [Calls -> Call] /\ IndexOK'
    BY <1>9, <2>2, <1>i DEF TakeSnapshot, Return, Call, Pcs
  <2> QED BY <1>9, <2>1, <2>3 DEF TakeSnapshot
<1>10. ASSUME NEW c \in Calls, TurnOff(c)
       PROVE  TypeInv'
  <2>1. call' \in [Calls -> Call] /\ IndexOK'
    BY <1>10, <1>i DEF TurnOff, Return, Call, Fams
  <2>2. host' \in Host
    <3>1. call[c].fam \in Fams
      BY DEF Call
    <3>2. \A b : (host.fwd[call[c].fam] /\ ~b) \in BOOLEAN
      OBVIOUS
    <3> QED BY <1>10, <3>1, <3>2, HostUpdates DEF TurnOff
  <2> QED BY <1>10, <2>1, <2>2 DEF TurnOff
<1>11. CASE Restart
  <2>1. host' \in Host
    BY <1>11 DEF Restart, Forgotten, Host
  <2> QED BY <1>11, <2>1, <1>i DEF Restart
<1>12. CASE UNCHANGED vars
  BY <1>12 DEF vars
<1> QED
  BY <1>1, <1>2, <1>3, <1>4, <1>6, <1>7, <1>8, <1>9, <1>10, <1>11, <1>12
  DEF Next, Work, Step

(* Type correctness of the adapter: in particular a thread never asks for  *)
(* a rule beyond the three of each family it works on.                     *)
THEOREM TypeCorrect == Spec => []TypeOK
<1>1. TypeInv => TypeOK
  BY DEF TypeInv
<1> QED BY <1>1, InitType, NextType, PTL DEF Spec

-----------------------------------------------------------------------------
(* BootForwardingKept alone is not inductive: remove turns a sysctl off on  *)
(* the word of a snapshot taken earlier, so snapshots must be honest too.   *)
BootInv == TypeInv /\ BootForwardingKept /\ SnapshotsHonest

(* Every step keeps forwarding that was on at boot on, and every snapshot  *)
(* of it honest.                                                           *)
LEMMA NextBoot == BootInv /\ [Next]_vars => BootInv'
<1> SUFFICES ASSUME BootInv, [Next]_vars PROVE BootForwardingKept' /\ SnapshotsHonest'
  BY NextType DEF BootInv
<1>t. TypeOK /\ TypeInv /\ BootForwardingKept /\ SnapshotsHonest
  BY DEF BootInv, TypeInv
<1> SUFFICES ASSUME NEW f \in Fams, bootFwd'[f], f \notin misread'
             PROVE  /\ host'.fwd[f]
                    /\ \A w \in Wgs : host'.snap[w] # NoSnap => host'.snap[w][f]
                    /\ \A d \in Calls : call'[d].was[f]
  BY DEF BootForwardingKept, SnapshotsHonest
<1>b. bootFwd' = bootFwd /\ misread \subseteq misread'
  BY DEF Next, Work, Step, BeginApply, BeginRemove, Begin, read_forward, write_forward, InsertSnapshot,
         Probe, Insert, Delete, TakeSnapshot, TurnOff, Restart, vars
<1>h. /\ host.fwd[f]
      /\ \A w \in Wgs : host.snap[w] # NoSnap => host.snap[w][f]
      /\ \A d \in Calls : call[d].was[f]
  BY <1>b, <1>t DEF BootForwardingKept, SnapshotsHonest
<1>i. SomeIdle.was[f] /\ \A wg, gw, pc, v6 : [Idle(wg, gw) EXCEPT !.pc = pc, !.v6 = v6].was[f]
  BY DEF SomeIdle, Idle, AllOn
<1>1. ASSUME NEW c \in Calls, BeginApply(c) \/ BeginRemove(c)
      PROVE  host' = host /\ \A d \in Calls : call'[d].was[f]
  <2>1. PICK r : r.was[f] /\ call' = [call EXCEPT ![c] = r]
    BY <1>1, <1>i, Zenon DEF BeginApply, BeginRemove, Begin
  <2> QED BY <1>1, <2>1, <1>t, <1>h DEF BeginApply, BeginRemove, Begin, TypeOK
<1>2. ASSUME NEW c \in Calls, AfterFamily(c, call[c].was)
      PROVE  \A d \in Calls : call'[d].was[f]
  <2>1. PICK pc, g : call' = [call EXCEPT ![c].was = call[c].was, ![c].pc = pc, ![c].fam = g]
    BY <1>2, Zenon DEF AfterFamily
  <2> QED BY <2>1, <1>t, <1>h DEF TypeOK, Call
<1>3. ASSUME NEW c \in Calls, Return(c)
      PROVE  \A d \in Calls : call'[d].was[f]
  BY <1>3, <1>t, <1>h, <1>i DEF Return, TypeOK
<1>4. ASSUME NEW c \in Calls, NEW pc, Goto(c, pc)
      PROVE  \A d \in Calls : call'[d].was[f]
  BY <1>4, <1>t, <1>h DEF Goto, TypeOK, Call
<1>5. ASSUME NEW c \in Calls, NextRule(c)
      PROVE  \A d \in Calls : call'[d].was[f]
  BY <1>3, <1>5, <1>t, <1>h DEF NextRule, TypeOK, Call
<1>6. ASSUME NEW c \in Calls, read_forward(c)
      PROVE  host' = host /\ \A d \in Calls : call'[d].was[f]
  <2>1. call[c] \in Call /\ call[c].was \in [Fams -> BOOLEAN]
    BY <1>t DEF TypeOK, Call, ForwardSnapshot
  <2>2. CASE /\ call' = [call EXCEPT ![c].was[call[c].fam] = FALSE, ![c].pc = "write"]
             /\ misread' = IF bootFwd[call[c].fam] /\ host.fwd[call[c].fam]
                           THEN misread \cup {call[c].fam} ELSE misread
    <3>1. call[c].fam # f
      BY <1>b, <1>h, <2>2
    <3> QED BY <2>1, <2>2, <3>1, <1>6, <1>t, <1>h DEF read_forward, TypeOK, Call
  <2> QED BY <1>2, <1>6, <2>2 DEF read_forward
<1>7. ASSUME NEW c \in Calls, write_forward(c)
      PROVE  host'.fwd[f] /\ host'.snap = host.snap /\ \A d \in Calls : call'[d].was[f]
  BY <1>2, <1>3, <1>7, <1>t, <1>h DEF write_forward, TypeOK, Host
<1>8. ASSUME NEW c \in Calls, InsertSnapshot(c)
      PROVE  /\ host'.fwd = host.fwd
             /\ \A w \in Wgs : host'.snap[w] # NoSnap => host'.snap[w][f]
             /\ \A d \in Calls : call'[d].was[f]
  <2>1. \A d \in Calls : call'[d].was[f]
    BY <1>4, <1>8 DEF InsertSnapshot
  <2> QED BY <1>8, <2>1, <1>t, <1>h DEF InsertSnapshot, TypeOK, Host
<1>9. ASSUME NEW c \in Calls, Probe(c)
      PROVE  host' = host /\ \A d \in Calls : call'[d].was[f]
  BY <1>3, <1>4, <1>5, <1>9 DEF Probe
<1>10. ASSUME NEW c \in Calls, Insert(c)
       PROVE  /\ host'.fwd = host.fwd /\ host'.snap = host.snap
              /\ \A d \in Calls : call'[d].was[f]
  BY <1>3, <1>5, <1>10, <1>t DEF Insert, TypeOK, Host
<1>11. ASSUME NEW c \in Calls, Delete(c)
       PROVE  /\ host'.fwd = host.fwd /\ host'.snap = host.snap
              /\ \A d \in Calls : call'[d].was[f]
  <2>1. \A d \in Calls : call'[d].was[f]
    BY <1>4, <1>11, <1>t, <1>h DEF Delete, TypeOK, Call
  <2> QED BY <2>1, <1>11, <1>t DEF Delete, TypeOK, Host
<1>12. ASSUME NEW c \in Calls, TakeSnapshot(c)
       PROVE  /\ host'.fwd = host.fwd
              /\ \A w \in Wgs : host'.snap[w] # NoSnap => host'.snap[w][f]
              /\ \A d \in Calls : call'[d].was[f]
  <2>1. call[c].wg \in Wgs
    BY <1>t DEF TypeOK, Call
  <2>2. CASE host.snap[call[c].wg] = NoSnap
    BY <1>3, <1>12, <2>2, <1>h DEF TakeSnapshot
  <2>3. CASE host.snap[call[c].wg] # NoSnap
    <3>1. \A d \in Calls : call'[d].was[f]
      BY <1>12, <2>1, <2>3, <1>t, <1>h DEF TakeSnapshot, TypeOK, Call
    <3> QED BY <1>12, <2>3, <3>1, <1>t, <1>h DEF TakeSnapshot, TypeOK, Host
  <2> QED BY <2>2, <2>3
<1>13. ASSUME NEW c \in Calls, TurnOff(c)
       PROVE  host'.fwd[f] /\ host'.snap = host.snap /\ \A d \in Calls : call'[d].was[f]
  <2>1. \A d \in Calls : call'[d].was[f]
    BY <1>3, <1>13, <1>t, <1>h DEF TurnOff, TypeOK, Call
  <2>2. host'.fwd[f] /\ host'.snap = host.snap
    BY <1>13, <1>t, <1>h DEF TurnOff, TypeOK, Host
  <2> QED BY <2>1, <2>2
<1>14. CASE Restart
  BY <1>14, <1>t, <1>h, <1>i DEF Restart, Forgotten, TypeOK, Host
<1>15. CASE UNCHANGED vars
  BY <1>15, <1>h DEF vars
<1> QED
  BY <1>1, <1>6, <1>7, <1>8, <1>9, <1>10, <1>11, <1>12, <1>13, <1>14, <1>15, <1>h
  DEF Next, Work, Step

(* Forwarding that was on before Wireforge ran is never turned off by it:  *)
(* not by overlapping apply and remove calls of any number of threads, not *)
(* by any other failed system call, not by a crash that loses              *)
(* forward_state, as long as read_forward never takes it for off because   *)
(* the read fails.                                                         *)
THEOREM BootForwarding == Spec => []BootForwardingKept
<1>1. Init => BootInv
  <2> SUFFICES ASSUME Init PROVE BootForwardingKept /\ SnapshotsHonest
    BY InitType DEF BootInv
  <2> QED BY DEF Init, FreshHost, SomeIdle, Idle, AllOn, BootForwardingKept, SnapshotsHonest
<1>2. BootInv => BootForwardingKept
  BY DEF BootInv
<1> QED BY <1>1, <1>2, NextBoot, PTL DEF Spec


-----------------------------------------------------------------------------
(* Copies of a rule *)

\* -C is believed: it finds every rule that is there.
ProbesHonest == "probe" \notin Faults \/ MaxCopies = 0

CopiesInv == TypeInv /\ RuleCopiesBounded

LEMMA InsertingFinite ==
    ASSUME NEW f, NEW r
    PROVE  /\ IsFiniteSet(Inserting(f, r)) /\ Cardinality(Inserting(f, r)) \in Nat
           /\ Cardinality(Inserting(f, r)) <= Cardinality(Calls) /\ Cardinality(Calls) \in Nat
<1>1. Inserting(f, r) \subseteq Calls
  BY DEF Inserting
<1> QED BY <1>1, CallsAssumption, FS_Subset, FS_CardinalityType

LEMMA InsertingFinitePrime ==
    ASSUME NEW f, NEW r
    PROVE  /\ IsFiniteSet(Inserting(f, r)') /\ Cardinality(Inserting(f, r)') \in Nat
           /\ Cardinality(Inserting(f, r)') <= Cardinality(Calls) /\ Cardinality(Calls) \in Nat
<1>1. Inserting(f, r)' \subseteq Calls
  BY DEF Inserting
<1> QED BY <1>1, CallsAssumption, FS_Subset, FS_CardinalityType

(* A thread that is about to insert nothing adds no copy. *)
LEMMA NoMoreCopies ==
    ASSUME CopiesInv, NEW f \in Fams, NEW r \in Rule,
           host'.rules[f][r] \in Nat, host'.rules[f][r] <= host.rules[f][r],
           \A d \in Calls : call'[d] = call[d] \/ call'[d].pc # "insert"
    PROVE  host'.rules[f][r] + Cardinality(Inserting(f, r)') <= Cardinality(Calls)
<1>1. Inserting(f, r)' \subseteq Inserting(f, r)
  BY DEF Inserting, Invocation
<1>2. Cardinality(Inserting(f, r)') <= Cardinality(Inserting(f, r))
  BY <1>1, InsertingFinite, FS_Subset
<1>3. host.rules[f][r] \in Nat /\ host.rules[f][r] + Cardinality(Inserting(f, r)) <= Cardinality(Calls)
  BY DEF CopiesInv, TypeInv, TypeOK, Host, RuleCopiesBounded
<1> QED BY <1>2, <1>3, InsertingFinite, InsertingFinitePrime

\* A step of a thread's that leaves no new insert behind.
Harmless == \A d \in Calls : call'[d] = call[d] \/ call'[d].pc # "insert"

LEMMA NextRuleHarmless == ASSUME TypeOK, NEW c \in Calls, NextRule(c) \/ Return(c)
                          PROVE  Harmless /\ call'[c].pc # "insert"
<1>1. SomeIdle.pc = "idle"
  BY DEF SomeIdle, Idle
<1>2. CASE Return(c)
  BY <1>1, <1>2 DEF Return, Harmless, TypeOK
<1>3. CASE call' = [call EXCEPT ![c].k = @ + 1, ![c].pc = "probe"]
  BY <1>3 DEF Harmless, TypeOK, Call
<1> QED BY <1>2, <1>3 DEF NextRule

LEMMA CopiesNext == ProbesHonest /\ CopiesInv /\ [Next]_vars => CopiesInv'
<1> SUFFICES ASSUME ProbesHonest, CopiesInv, [Next]_vars, NEW f \in Fams, NEW r \in Rule
             PROVE  host'.rules[f][r] + Cardinality(Inserting(f, r)') <= Cardinality(Calls)
  BY NextType DEF CopiesInv, RuleCopiesBounded
<1>t. TypeOK /\ TypeInv /\ host \in Host /\ host.rules[f][r] \in Nat
  BY DEF CopiesInv, TypeInv, TypeOK, Host
<1>n. host'.rules[f][r] \in Nat
  <2>1. TypeInv'
    BY <1>t, NextType
  <2> QED BY <2>1 DEF TypeInv, TypeOK, Host
<1>1. ASSUME Harmless, host'.rules[f][r] <= host.rules[f][r]
      PROVE  host'.rules[f][r] + Cardinality(Inserting(f, r)') <= Cardinality(Calls)
  BY <1>1, <1>n, NoMoreCopies DEF Harmless
<1>2. ASSUME NEW c \in Calls, Probe(c)
      PROVE  host'.rules[f][r] + Cardinality(Inserting(f, r)') <= Cardinality(Calls)
  <2>1. PICK i \in Entry : i = Invocation(c)
    BY <1>t, InvocationType
  <2>2. host' = host
    BY <1>2 DEF Probe
  <2>3. CASE NextRule(c) \/ Return(c)
    BY <1>1, <1>t, <2>2, <2>3, NextRuleHarmless
  <2>4. CASE host.rules[i.fam][i.rule] = 0 /\ Goto(c, "insert")
    <3>1. CASE i = [fam |-> f, rule |-> r]
      <4>1. host'.rules[f][r] = 0
        BY <2>2, <2>4, <3>1
      <4> QED BY <4>1, InsertingFinitePrime
    <3>2. CASE i # [fam |-> f, rule |-> r]
      <4>1. Invocation(c)' = i
        BY <1>t, <2>1, <2>4, ZenonT(60) DEF Goto, Invocation, TypeOK, Call
      <4>2. \A d \in Calls : d # c => call'[d] = call[d]
        BY <1>t, <2>4 DEF Goto, TypeOK
      <4>3. Inserting(f, r)' \subseteq Inserting(f, r)
        <5> SUFFICES ASSUME NEW d \in Calls, call'[d].pc = "insert", Invocation(d)' = [fam |-> f, rule |-> r]
                     PROVE  d \in Inserting(f, r)
          BY DEF Inserting
        <5>1. d # c
          BY <3>2, <4>1
        <5> QED BY <4>2, <5>1 DEF Inserting, Invocation
      <4>4. Cardinality(Inserting(f, r)') <= Cardinality(Inserting(f, r))
        BY <4>3, InsertingFinite, FS_Subset
      <4>5. host.rules[f][r] + Cardinality(Inserting(f, r)) <= Cardinality(Calls)
        BY DEF CopiesInv, RuleCopiesBounded
      <4> QED BY <1>t, <2>2, <4>4, <4>5, InsertingFinite, InsertingFinitePrime
    <3> QED BY <3>1, <3>2
  <2>5. ~("probe" \in Faults /\ host.rules[i.fam][i.rule] < MaxCopies)
    <3>1. host.rules[i.fam][i.rule] \in Nat
      BY <1>t, <2>1 DEF Host, Entry
    <3> QED BY <3>1 DEF ProbesHonest
  <2> QED BY <1>2, <2>1, <2>3, <2>4, <2>5 DEF Probe
<1>3. ASSUME NEW c \in Calls, Insert(c)
      PROVE  host'.rules[f][r] + Cardinality(Inserting(f, r)') <= Cardinality(Calls)
  <2>1. PICK i \in Entry : i = Invocation(c)
    BY <1>t, InvocationType
  <2>2. Harmless /\ call'[c].pc # "insert" /\ call[c].pc = "insert"
    BY <1>3, <1>t, NextRuleHarmless DEF Insert
  <2>3. CASE host' = host
    BY <1>1, <1>t, <2>2, <2>3
  <2>4. CASE host' = [host EXCEPT !.rules[i.fam][i.rule] = @ + 1]
    <3>1. CASE i = [fam |-> f, rule |-> r]
      <4>1. host'.rules[f][r] = host.rules[f][r] + 1
        BY <1>t, <2>4, <3>1 DEF Host
      <4>2. c \in Inserting(f, r) /\ Inserting(f, r)' \subseteq Inserting(f, r) \ {c}
        BY <2>1, <2>2, <3>1 DEF Inserting, Invocation, Harmless
      <4>3. IsFiniteSet(Inserting(f, r) \ {c})
            /\ Cardinality(Inserting(f, r) \ {c}) = Cardinality(Inserting(f, r)) - 1
        BY <4>2, InsertingFinite, FS_RemoveElement
      <4>4. Cardinality(Inserting(f, r)') <= Cardinality(Inserting(f, r)) - 1
        BY <4>2, <4>3, FS_Subset
      <4>5. host.rules[f][r] + Cardinality(Inserting(f, r)) <= Cardinality(Calls)
        BY DEF CopiesInv, RuleCopiesBounded
      <4> QED BY <1>t, <4>1, <4>4, <4>5, InsertingFinite, InsertingFinitePrime
    <3>2. CASE i # [fam |-> f, rule |-> r]
      <4>1. host'.rules[f][r] = host.rules[f][r]
        BY <1>t, <2>1, <2>4, <3>2 DEF Host, Entry
      <4> QED BY <1>1, <1>t, <2>2, <4>1
    <3> QED BY <3>1, <3>2
  <2> QED BY <1>3, <2>1, <2>3, <2>4 DEF Insert
<1>4. ASSUME NEW c \in Calls, Delete(c)
      PROVE  Harmless /\ host'.rules[f][r] <= host.rules[f][r]
  <2>1. PICK i \in Entry : i = Invocation(c)
    BY <1>t, InvocationType
  <2>2. Harmless
    BY <1>4, <1>t DEF Delete, Goto, Harmless, TypeOK, Call
  <2>3. PICK n \in Nat : (host' = [host EXCEPT !.rules[i.fam][i.rule] = n] /\ n <= host.rules[i.fam][i.rule])
                         \/ host' = host
    <3>1. \A m \in Nat : (IF m > 0 THEN m - 1 ELSE 0) \in Nat /\ (IF m > 0 THEN m - 1 ELSE 0) <= m
      OBVIOUS
    <3>2. host.rules[i.fam][i.rule] \in Nat
      BY <1>t, <2>1 DEF Host, Entry
    <3> QED BY <1>4, <2>1, <3>1, <3>2, Zenon DEF Delete
  <2>4. host'.rules[f][r] <= host.rules[f][r]
    BY <1>t, <2>1, <2>3 DEF Host, Entry
  <2> QED BY <2>2, <2>4
<1>5. ASSUME NEW c \in Calls, BeginApply(c) \/ BeginRemove(c)
      PROVE  Harmless /\ host' = host
  <2>1. PICK wg \in Wgs, gw \in Gateways, v6 \in Families, pc \in {"read", "delete"} :
             Begin(c, pc, wg, gw, v6)
    BY <1>5 DEF BeginApply, BeginRemove
  <2>2. PICK x : x = [Idle(wg, gw) EXCEPT !.pc = pc, !.v6 = v6]
    OBVIOUS
  <2>3. x.pc # "insert"
    BY <2>2 DEF Idle
  <2>4. call' = [call EXCEPT ![c] = x] /\ host' = host
    BY <2>1, <2>2 DEF Begin
  <2> QED BY <1>t, <2>3, <2>4 DEF Harmless, TypeOK
<1>6. ASSUME NEW c \in Calls, NEW was, AfterFamily(c, was)
      PROVE  Harmless
  BY <1>6, <1>t DEF AfterFamily, Harmless, TypeOK, Call
<1>7. ASSUME NEW c \in Calls, read_forward(c)
      PROVE  Harmless /\ host' = host
  BY <1>6, <1>7, <1>t DEF read_forward, Harmless, TypeOK, Call
<1>8. ASSUME NEW c \in Calls, write_forward(c)
      PROVE  Harmless /\ host'.rules = host.rules
  BY <1>6, <1>8, <1>t, NextRuleHarmless DEF write_forward, Host
<1>9. ASSUME NEW c \in Calls, InsertSnapshot(c)
      PROVE  Harmless /\ host'.rules = host.rules
  BY <1>9, <1>t DEF InsertSnapshot, Goto, Harmless, TypeOK, Call, Host
<1>10. ASSUME NEW c \in Calls, TakeSnapshot(c)
       PROVE  Harmless /\ host'.rules = host.rules
  <2>1. Harmless
    BY <1>10, <1>t, NextRuleHarmless DEF TakeSnapshot, Harmless, TypeOK, Call
  <2> QED BY <1>10, <1>t, <2>1 DEF TakeSnapshot, Host
<1>11. ASSUME NEW c \in Calls, TurnOff(c)
       PROVE  Harmless /\ host'.rules = host.rules
  <2>1. Harmless
    <3>1. CASE Return(c)
      BY <1>t, <3>1, NextRuleHarmless
    <3>2. CASE call[c].pc = "off" /\ call' = [call EXCEPT ![c].fam = "v6"]
      BY <1>t, <3>2 DEF Harmless, TypeOK, Call
    <3> QED BY <1>11, <3>1, <3>2 DEF TurnOff
  <2> QED BY <1>11, <1>t, <2>1 DEF TurnOff, Host
<1>12. ASSUME Restart
       PROVE  Harmless /\ host'.rules = host.rules
  BY <1>12, <1>t DEF Restart, Forgotten, Harmless, SomeIdle, Idle, Host
<1>13. ASSUME UNCHANGED vars
       PROVE  Harmless /\ host' = host
  BY <1>13 DEF vars, Harmless
<1>14. (Harmless /\ (host' = host \/ host'.rules = host.rules)) \/ (\E c \in Calls : Probe(c) \/ Insert(c) \/ Delete(c))
  BY <1>5, <1>7, <1>8, <1>9, <1>10, <1>11, <1>12, <1>13 DEF Next, Work, Step
<1> QED BY <1>1, <1>2, <1>3, <1>4, <1>14, <1>t

(* Each thread that saw no copy adds one, and none is asked again before it has: however many *)
(* rounds of apply and remove there are, and whatever fails or is cut short by a restart,     *)
(* there are never more copies than threads.                                                  *)
THEOREM CopiesStayBounded == ASSUME ProbesHonest PROVE Spec => []RuleCopiesBounded
<1>1. Init => CopiesInv
  <2> SUFFICES ASSUME Init, NEW f \in Fams, NEW r \in Rule
               PROVE  host.rules[f][r] + Cardinality(Inserting(f, r)) <= Cardinality(Calls)
    BY InitType DEF CopiesInv, RuleCopiesBounded
  <2>1. host.rules[f][r] = 0
    BY DEF Init, FreshHost
  <2> QED BY <2>1, InsertingFinite
<1>2. CopiesInv /\ [Next]_vars => CopiesInv'
  BY CopiesNext
<1>3. CopiesInv => RuleCopiesBounded
  BY DEF CopiesInv
<1> QED BY <1>1, <1>2, <1>3, PTL DEF Spec

-----------------------------------------------------------------------------
(***************************************************************************)
(* One thread at a time: the adapter implements the port.  What a call has *)
(* done so far is what the port's outcomes say of a call that stops here.  *)
(***************************************************************************)
Single == \A c, d \in Calls : c = d

\* The invocations of thread c, the first n of them, and those behind it.
InvocationsOf(c) == Invocations(call[c].wg, call[c].gw, call[c].v6)
First(inv, n) == {inv[j] : j \in 1..n}
Behind(c) == First(InvocationsOf(c), call[c].k - 1)
All(c) == Range(InvocationsOf(c))

\* apply_rules and remove_rules by the set of the invocations made
Installed(rules, made, denied) ==
    [f \in Fams |-> [r \in Rule |->
        LET i == [fam |-> f, rule |-> r] IN
        IF i \in made /\ (rules[f][r] = 0 \/ i \in denied) THEN rules[f][r] + 1 ELSE rules[f][r]]]

\* The probes that may deny a rule.
Doubtful(c) ==
    IF "probe" \in Faults
    THEN {i \in All(c) : before.rules[i.fam][i.rule] \in 1..(MaxCopies - 1) /\ i.rule.chain \in Doubted}
    ELSE {}

\* What apply notes of a family it has read: its value, or "off" after a failed read.
Noted(c, f) == call[c].was[f] = before.fwd[f] \/ ("read" \in Faults /\ ~call[c].was[f])

\* apply has looked at some families, has switched both on, or is at its k-th rule.
Looking(c) ==
    call[c].pc \in {"read", "write"} =>
        /\ host = IF call[c].fam = "v4" THEN before ELSE [before EXCEPT !.fwd["v4"] = TRUE]
        /\ call[c].fam = "v6" => call[c].v6
        /\ IF call[c].pc = "read" /\ call[c].fam = "v4" THEN call[c].was["v4"] ELSE Noted(c, "v4")
        /\ IF call[c].pc = "read" \/ call[c].fam = "v4" THEN call[c].was["v6"] ELSE Noted(c, "v6")
        /\ call[c].pc = "write" => ~call[c].was[call[c].fam]
        /\ call[c].k = 1

SwitchedOn(c) ==
    call[c].pc \in {"snapshot", "probe", "insert"} => host.fwd = ForwardingOn(before.fwd, call[c].v6)

Noting(c) ==
    call[c].pc = "snapshot" =>
        /\ host.rules = before.rules /\ host.snap = before.snap
        /\ call[c].was \in Snapshots(before.fwd, call[c].v6, Faults)
        /\ call[c].k = 1

Installing(c) ==
    call[c].pc \in {"probe", "insert"} =>
        /\ \E was \in Snapshots(before.fwd, call[c].v6, Faults) :
              host.snap = [before.snap EXCEPT ![call[c].wg] = was]
        /\ \E denied \in SUBSET (Behind(c) \cap Doubtful(c)) :
              host.rules = Installed(before.rules, Behind(c), denied)
        /\ LET i == Invocation(c) IN
           call[c].pc = "insert" => host.rules[i.fam][i.rule] = 0 \/ i \in Doubtful(c)

\* remove has deleted rules, and is about to take the snapshot or has it.
Gone(c) == IF call[c].pc = "delete" THEN Behind(c) ELSE All(c)

Deleting(c) ==
    call[c].pc \in {"delete", "restore", "off"} =>
        \E del \in SUBSET Gone(c) :
            /\ "iptables" \in Faults \/ del = Gone(c)
            /\ host.rules = remove_rules(before.rules, del)

Untouched(c) ==
    call[c].pc \in {"delete", "restore"} => host.fwd = before.fwd /\ host.snap = before.snap

Passed(c) == {f \in {"v4"} : call[c].fam = "v6" /\ ~call[c].was[f]}

SwitchingOff(c) ==
    call[c].pc = "off" =>
        /\ before.snap[call[c].wg] # NoSnap /\ call[c].was = before.snap[call[c].wg]
        /\ host.snap = [before.snap EXCEPT ![call[c].wg] = NoSnap]
        /\ \E off \in SUBSET Passed(c) :
              /\ "sysctl" \in Faults \/ off = Passed(c)
              /\ host.fwd = [f \in Fams |-> before.fwd[f] /\ f \notin off]

Underway(c) ==
    /\ Looking(c) /\ SwitchedOn(c) /\ Noting(c) /\ Installing(c)
    /\ Deleting(c) /\ Untouched(c) /\ SwitchingOff(c)
    /\ call[c].pc = "delete" => call[c].fam = "v4"
    /\ call[c].pc = "restore" => call[c].fam = "v4"

PortInv == TypeInv /\ before \in Host /\ (Single => \A c \in Calls : Underway(c))

(* The invocations of a call are different ones, and what ranges and prefixes of them are. *)
LEMMA InvocationsList ==
    ASSUME NEW wg \in Wgs, NEW gw \in Gateways, NEW v6 \in BOOLEAN, NEW inv, inv = Invocations(wg, gw, v6)
    PROVE  /\ inv \in Seq(Entry)
           /\ Range(inv) = First(inv, Len(inv))
           /\ \A i, j \in 1..Len(inv) : inv[i] = inv[j] => i = j
           /\ SubSeq(inv, 1, Len(inv)) = inv
           /\ \A n \in 0..Len(inv) : Range(SubSeq(inv, 1, n)) = First(inv, n)
<1>1. PICK four, six : /\ four = [i \in 1..3 |-> [fam |-> "v4", rule |-> nat_rules(wg, gw)[i]]]
                       /\ six  = [i \in 1..3 |-> [fam |-> "v6", rule |-> nat_rules(wg, gw)[i]]]
  OBVIOUS
<1>2. inv \in Seq(Entry) /\ Len(inv) = IF v6 THEN 6 ELSE 3
  BY InvocationsType
<1>3. inv = four \o (IF v6 THEN six ELSE << >>)
  BY <1>1, Zenon DEF Invocations
<1>4. /\ nat_rules(wg, gw)[1].chain = "in" /\ nat_rules(wg, gw)[2].chain = "out"
      /\ nat_rules(wg, gw)[3].chain = "masq"
      /\ \A i \in 1..3 : nat_rules(wg, gw)[i] \in Rule
  BY DEF nat_rules, Rule
<1>5. /\ four \in Seq(Entry) /\ Len(four) = 3
      /\ six \in Seq(Entry) /\ Len(six) = 3
  <2>1. \A i \in 1..3 : four[i] \in Entry /\ six[i] \in Entry
    BY <1>1, <1>4 DEF Entry, Fams
  <2> QED BY <1>1, <2>1
<1>6. \A i \in 1..Len(inv) : inv[i] = IF i <= 3 THEN four[i] ELSE six[i - 3]
  <2>1. CASE v6
    <3>1. inv = four \o six
      BY <1>3, <2>1
    <3>0. four \in Seq(Entry) /\ six \in Seq(Entry)
      BY <1>5
    <3>c. /\ four \o six \in Seq(Entry) /\ Len(four \o six) = Len(four) + Len(six)
          /\ \A i \in 1..Len(four) + Len(six) :
                (four \o six)[i] = IF i <= Len(four) THEN four[i] ELSE six[i - Len(four)]
      BY <3>0, ConcatProperties, Zenon
    <3>2. \A i \in 1..Len(four) + Len(six) :
             inv[i] = IF i <= Len(four) THEN four[i] ELSE six[i - Len(four)]
      BY <3>1, <3>c, Zenon
    <3>3. \A i \in 1..6 : inv[i] = IF i <= 3 THEN four[i] ELSE six[i - 3]
      <4>1. Len(four) = 3 /\ Len(six) = 3
        BY <1>5
      <4> QED BY <3>2, <4>1
    <3>4. Len(inv) = 6
      BY <1>2, <2>1
    <3> QED BY <3>3, <3>4
  <2>2. CASE ~v6
    <3>1. inv = four
      BY <1>3, <1>5, <2>2, ConcatEmptySeq, Zenon
    <3> QED BY <1>2, <2>2, <3>1
  <2> QED BY <2>1, <2>2
<1>7. ASSUME NEW i \in 1..Len(inv), NEW j \in 1..Len(inv), inv[i] = inv[j]
      PROVE  i = j
  <2>1. \A k \in 1..Len(inv) : /\ k <= 3 => inv[k].fam = "v4" /\ inv[k].rule = nat_rules(wg, gw)[k]
                               /\ k > 3 => inv[k].fam = "v6" /\ inv[k].rule = nat_rules(wg, gw)[k - 3]
    <3> SUFFICES ASSUME NEW k \in 1..Len(inv)
                 PROVE  /\ k <= 3 => inv[k].fam = "v4" /\ inv[k].rule = nat_rules(wg, gw)[k]
                        /\ k > 3 => inv[k].fam = "v6" /\ inv[k].rule = nat_rules(wg, gw)[k - 3]
      OBVIOUS
    <3>1. CASE k <= 3
      <4>1. k \in 1..3 /\ inv[k] = four[k]
        BY <1>2, <1>6, <3>1
      <4> QED BY <1>1, <3>1, <4>1
    <3>2. CASE k > 3
      <4>1. PICK m \in 1..3 : m = k - 3
        BY <1>2, <3>2
      <4>2. inv[k] = six[m]
        BY <1>6, <3>2, <4>1
      <4> QED BY <1>1, <3>2, <4>1, <4>2
    <3> QED BY <1>2, <3>1, <3>2
  <2>2. \A m, n \in 1..3 : nat_rules(wg, gw)[m] = nat_rules(wg, gw)[n] => m = n
    BY <1>4
  <2>3. (i <= 3 /\ j <= 3) \/ (i > 3 /\ j > 3)
    BY <1>2, <1>7, <2>1
  <2>4. CASE i <= 3 /\ j <= 3
    BY <1>2, <1>7, <2>1, <2>2, <2>4
  <2>5. CASE i > 3 /\ j > 3
    <3>1. i - 3 \in 1..3 /\ j - 3 \in 1..3 /\ nat_rules(wg, gw)[i - 3] = nat_rules(wg, gw)[j - 3]
      BY <1>2, <1>7, <2>1, <2>5
    <3>2. i - 3 = j - 3
      BY <2>2, <3>1
    <3> QED BY <1>2, <3>2
  <2> QED BY <2>3, <2>4, <2>5
<1>8. DOMAIN inv = 1..Len(inv)
  BY <1>2, LenProperties, Zenon
<1>9. Range(inv) = First(inv, Len(inv))
  BY <1>8 DEF Range, First
<1>10. SubSeq(inv, 1, Len(inv)) = inv
  BY <1>2, SubSeqFull, Zenon
<1>11. ASSUME NEW n \in 0..Len(inv) PROVE Range(SubSeq(inv, 1, n)) = First(inv, n)
  <2>1. \A i \in 1..n : i \in 1..Len(inv)
    BY <1>2
  <2>2. SubSeq(inv, 1, n) = [i \in 1..n |-> inv[i]]
    BY <1>2
  <2> QED BY <2>2, ZenonT(40) DEF Range, First
<1> QED BY <1>2, <1>7, <1>9, <1>10, <1>11

(* What thread c is at is not behind it; behind the last one are all. *)
LEMMA BehindFacts ==
    ASSUME TypeInv, NEW c \in Calls
    PROVE  /\ All(c) \subseteq Entry /\ Behind(c) \subseteq All(c)
           /\ Invocation(c) \in All(c) \ Behind(c)
           /\ LastInvocation(c) => All(c) = Behind(c) \cup {Invocation(c)}
           /\ call[c].k = 1 => Behind(c) = {}
           /\ First(InvocationsOf(c), call[c].k) = Behind(c) \cup {Invocation(c)}
           /\ call[c].k - 1 \in 0..Len(InvocationsOf(c)) /\ call[c].k <= Len(InvocationsOf(c))
<1>1. PICK inv : inv = InvocationsOf(c)
  OBVIOUS
<1>2. call[c].wg \in Wgs /\ call[c].gw \in Gateways /\ call[c].v6 \in BOOLEAN
  BY DEF TypeInv, TypeOK, Call
<1>3. PICK k : k = call[c].k
  OBVIOUS
<1>4. /\ inv \in Seq(Entry) /\ Range(inv) = First(inv, Len(inv))
      /\ \A i, j \in 1..Len(inv) : inv[i] = inv[j] => i = j
      /\ Len(inv) = IF call[c].v6 THEN 6 ELSE 3
  <2>1. inv = Invocations(call[c].wg, call[c].gw, call[c].v6)
    BY <1>1 DEF InvocationsOf
  <2>2. Len(inv) = IF call[c].v6 THEN 6 ELSE 3
    BY <1>2, <2>1, InvocationsType, Zenon
  <2>3. /\ inv \in Seq(Entry)
        /\ Range(inv) = First(inv, Len(inv))
        /\ \A i, j \in 1..Len(inv) : inv[i] = inv[j] => i = j
    BY <1>2, <2>1, InvocationsList
  <2> QED BY <2>2, <2>3
<1>5. k \in 1..Len(inv) /\ (LastInvocation(c) <=> k = Len(inv)) /\ Invocation(c) = inv[k]
  BY <1>1, <1>2, <1>3, <1>4, InvocationType DEF InvocationsOf, Invocation, TypeInv, TypeOK, Call, IndexOK
<1>6. /\ All(c) = First(inv, Len(inv)) /\ Behind(c) = First(inv, k - 1)
  BY <1>1, <1>3, <1>4 DEF All, Behind
<1>7. First(inv, k) = First(inv, k - 1) \cup {inv[k]}
  <2>1. \A j : j \in 1..k <=> j \in 1..(k - 1) \/ j = k
    BY <1>5
  <2> QED BY <2>1 DEF First
<1>8. inv[k] \notin First(inv, k - 1)
  <2> SUFFICES ASSUME NEW j \in 1..(k - 1), inv[j] = inv[k] PROVE FALSE
    BY DEF First
  <2>1. j \in 1..Len(inv) /\ j # k
    BY <1>5
  <2> QED BY <1>4, <1>5, <2>1
<1>9. First(inv, k - 1) \subseteq First(inv, Len(inv)) /\ inv[k] \in First(inv, Len(inv))
  <2>1. \A j \in 1..(k - 1) : j \in 1..Len(inv)
    BY <1>5
  <2> QED BY <1>5, <2>1 DEF First
<1>10. First(inv, Len(inv)) \subseteq Entry
  BY <1>4 DEF First
<1>11. k = 1 => First(inv, k - 1) = {}
  BY DEF First
<1>12. k - 1 \in 0..Len(inv) /\ k <= Len(inv)
  BY <1>5
<1> QED BY <1>1, <1>3, <1>5, <1>6, <1>7, <1>8, <1>9, <1>10, <1>11, <1>12

(* One more rule installed, and one more removed *)
LEMMA SameRules ==
    ASSUME NEW A \in [Fams -> [Rule -> Nat]], NEW B \in [Fams -> [Rule -> Nat]],
           \A f \in Fams, r \in Rule : A[f][r] = B[f][r]
    PROVE  A = B
OBVIOUS

\* The table with n copies of one rule
With(R, i, n) == [R EXCEPT ![i.fam][i.rule] = n]

LEMMA WithProps ==
    ASSUME NEW R \in [Fams -> [Rule -> Nat]], NEW i \in Entry, NEW n \in Nat
    PROVE  /\ With(R, i, n) \in [Fams -> [Rule -> Nat]]
           /\ \A f \in Fams, r \in Rule :
                 With(R, i, n)[f][r] = IF f = i.fam /\ r = i.rule THEN n ELSE R[f][r]
BY DEF With, Entry

\* Rule i comes after those of `made', and R is what these have left.
OneMore(rules, made, denied, i, R) ==
    /\ R \in [Fams -> [Rule -> Nat]]
    /\ R[i.fam][i.rule] = rules[i.fam][i.rule]
    /\ rules[i.fam][i.rule] # 0 => Installed(rules, made \cup {i}, denied) = R
    /\ \A d \in {denied, denied \cup {i}} :
          rules[i.fam][i.rule] = 0 \/ i \in d =>
             Installed(rules, made \cup {i}, d) = With(R, i, R[i.fam][i.rule] + 1)

LEMMA InstallOne ==
    ASSUME NEW rules \in [Fams -> [Rule -> Nat]], NEW made, NEW i \in Entry \ made, NEW denied, i \notin denied
    PROVE  OneMore(rules, made, denied, i, Installed(rules, made, denied))
<1>r. PICK R : R = Installed(rules, made, denied)
  OBVIOUS
<1>0. i.fam \in Fams /\ i.rule \in Rule /\ i = [fam |-> i.fam, rule |-> i.rule]
  BY DEF Entry
<1>3. \A f, r : [fam |-> f, rule |-> r] = i <=> f = i.fam /\ r = i.rule
  BY <1>0
<1>1. ASSUME NEW m, NEW d
      PROVE  /\ Installed(rules, m, d) \in [Fams -> [Rule -> Nat]]
             /\ \A f \in Fams, r \in Rule :
                   Installed(rules, m, d)[f][r] =
                      IF [fam |-> f, rule |-> r] \in m /\ (rules[f][r] = 0 \/ [fam |-> f, rule |-> r] \in d)
                      THEN rules[f][r] + 1 ELSE rules[f][r]
  BY DEF Installed
<1>2. /\ R \in [Fams -> [Rule -> Nat]]
      /\ \A f \in Fams, r \in Rule :
            R[f][r] = IF [fam |-> f, rule |-> r] \in made
                         /\ (rules[f][r] = 0 \/ [fam |-> f, rule |-> r] \in denied)
                      THEN rules[f][r] + 1 ELSE rules[f][r]
  BY <1>1, <1>r
<1>5. R[i.fam][i.rule] = rules[i.fam][i.rule] /\ rules[i.fam][i.rule] \in Nat
  BY <1>0, <1>2
<1>7. ASSUME rules[i.fam][i.rule] # 0
      PROVE  Installed(rules, made \cup {i}, denied) = R
  <2>1. PICK T : T = Installed(rules, made \cup {i}, denied)
    OBVIOUS
  <2>2. /\ T \in [Fams -> [Rule -> Nat]]
        /\ \A f \in Fams, r \in Rule :
              T[f][r] = IF [fam |-> f, rule |-> r] \in made \cup {i}
                           /\ (rules[f][r] = 0 \/ [fam |-> f, rule |-> r] \in denied)
                        THEN rules[f][r] + 1 ELSE rules[f][r]
    BY <1>1, <2>1
  <2>3. \A f \in Fams, r \in Rule : T[f][r] = R[f][r]
    <3> SUFFICES ASSUME NEW f \in Fams, NEW r \in Rule PROVE T[f][r] = R[f][r]
      OBVIOUS
    <3>1. CASE f = i.fam /\ r = i.rule
      BY <1>0, <1>5, <1>7, <2>2, <3>1
    <3>2. CASE ~(f = i.fam /\ r = i.rule)
      <4>1. [fam |-> f, rule |-> r] \in made \cup {i} <=> [fam |-> f, rule |-> r] \in made
        BY <1>3, <3>2
      <4> QED BY <1>2, <2>2, <4>1
    <3> QED BY <3>1, <3>2
  <2> QED BY <1>2, <2>1, <2>2, <2>3, SameRules
<1>8. ASSUME NEW d \in {denied, denied \cup {i}}, rules[i.fam][i.rule] = 0 \/ i \in d
      PROVE  Installed(rules, made \cup {i}, d) = With(R, i, R[i.fam][i.rule] + 1)
  <2>1. PICK T : T = Installed(rules, made \cup {i}, d)
    OBVIOUS
  <2>2. /\ T \in [Fams -> [Rule -> Nat]]
        /\ \A f \in Fams, r \in Rule :
              T[f][r] = IF [fam |-> f, rule |-> r] \in made \cup {i}
                           /\ (rules[f][r] = 0 \/ [fam |-> f, rule |-> r] \in d)
                        THEN rules[f][r] + 1 ELSE rules[f][r]
    BY <1>1, <2>1
  <2>n. PICK n \in Nat : n = R[i.fam][i.rule] + 1
    BY <1>5
  <2>3. PICK S : S = With(R, i, n)
    OBVIOUS
  <2>4. /\ S \in [Fams -> [Rule -> Nat]]
        /\ \A f \in Fams, r \in Rule : S[f][r] = IF f = i.fam /\ r = i.rule THEN n ELSE R[f][r]
    BY <1>2, <2>3, WithProps
  <2>5. \A f \in Fams, r \in Rule : T[f][r] = S[f][r]
    <3> SUFFICES ASSUME NEW f \in Fams, NEW r \in Rule PROVE T[f][r] = S[f][r]
      OBVIOUS
    <3>1. CASE f = i.fam /\ r = i.rule
      BY <1>0, <1>5, <1>8, <2>2, <2>4, <2>n, <3>1
    <3>2. CASE ~(f = i.fam /\ r = i.rule)
      <4>1. [fam |-> f, rule |-> r] # i
        BY <1>3, <3>2
      <4>2. S[f][r] = R[f][r]
        BY <2>4, <3>2
      <4>3. /\ [fam |-> f, rule |-> r] \in d <=> [fam |-> f, rule |-> r] \in denied
            /\ [fam |-> f, rule |-> r] \in made \cup {i} <=> [fam |-> f, rule |-> r] \in made
        BY <4>1
      <4> QED BY <1>2, <2>2, <4>2, <4>3
    <3> QED BY <3>1, <3>2
  <2>6. T = S
    BY <2>2, <2>4, <2>5, SameRules
  <2> QED BY <2>1, <2>3, <2>6, <2>n, Zenon
<1> QED BY <1>2, <1>5, <1>7, <1>8, <1>r DEF OneMore

LEMMA RemoveOne ==
    ASSUME NEW rules \in [Fams -> [Rule -> Nat]], NEW del, NEW i \in Entry \ del,
           NEW R, R = remove_rules(rules, del)
    PROVE  /\ R \in [Fams -> [Rule -> Nat]]
           /\ remove_rules(rules, del \cup {i}) =
                 With(R, i, IF R[i.fam][i.rule] > 0 THEN R[i.fam][i.rule] - 1 ELSE 0)
<1>0. i.fam \in Fams /\ i.rule \in Rule /\ i = [fam |-> i.fam, rule |-> i.rule]
  BY DEF Entry
<1>3. \A f, r : [fam |-> f, rule |-> r] = i <=> f = i.fam /\ r = i.rule
  BY <1>0
<1>1. ASSUME NEW d
      PROVE  /\ remove_rules(rules, d) \in [Fams -> [Rule -> Nat]]
             /\ \A f \in Fams, r \in Rule :
                   remove_rules(rules, d)[f][r] =
                      IF [fam |-> f, rule |-> r] \in d /\ rules[f][r] > 0 THEN rules[f][r] - 1 ELSE rules[f][r]
  <2>1. \A f \in Fams, r \in Rule : rules[f][r] \in Nat /\ (rules[f][r] > 0 => rules[f][r] - 1 \in Nat)
    OBVIOUS
  <2> QED BY <2>1 DEF remove_rules
<1>2. /\ R \in [Fams -> [Rule -> Nat]]
      /\ \A f \in Fams, r \in Rule :
            R[f][r] = IF [fam |-> f, rule |-> r] \in del /\ rules[f][r] > 0 THEN rules[f][r] - 1 ELSE rules[f][r]
  BY <1>1
<1>4. PICK T : T = remove_rules(rules, del \cup {i})
  OBVIOUS
<1>5. /\ T \in [Fams -> [Rule -> Nat]]
      /\ \A f \in Fams, r \in Rule :
            T[f][r] = IF [fam |-> f, rule |-> r] \in del \cup {i} /\ rules[f][r] > 0
                      THEN rules[f][r] - 1 ELSE rules[f][r]
  BY <1>1, <1>4
<1>6. PICK n : n = IF R[i.fam][i.rule] > 0 THEN R[i.fam][i.rule] - 1 ELSE 0
  OBVIOUS
<1>7. n \in Nat /\ R[i.fam][i.rule] = rules[i.fam][i.rule] /\ rules[i.fam][i.rule] \in Nat
  BY <1>0, <1>2, <1>6
<1>8. PICK S : S = With(R, i, n)
  OBVIOUS
<1>9. /\ S \in [Fams -> [Rule -> Nat]]
      /\ \A f \in Fams, r \in Rule : S[f][r] = IF f = i.fam /\ r = i.rule THEN n ELSE R[f][r]
  BY <1>2, <1>7, <1>8, WithProps
<1>10. \A f \in Fams, r \in Rule : T[f][r] = S[f][r]
  <2> SUFFICES ASSUME NEW f \in Fams, NEW r \in Rule PROVE T[f][r] = S[f][r]
    OBVIOUS
  <2>1. CASE f = i.fam /\ r = i.rule
    BY <1>0, <1>5, <1>6, <1>7, <1>9, <2>1
  <2>2. CASE ~(f = i.fam /\ r = i.rule)
    <3>1. [fam |-> f, rule |-> r] \in del \cup {i} <=> [fam |-> f, rule |-> r] \in del
      BY <1>3, <2>2
    <3> QED BY <1>2, <1>5, <1>9, <2>2, <3>1
  <2> QED BY <2>1, <2>2
<1> QED BY <1>2, <1>4, <1>5, <1>6, <1>8, <1>9, <1>10, SameRules, ZenonT(40)

-----------------------------------------------------------------------------
(* What the port allows, in these terms *)

(* The port's operators are those of NatHost. *)
LEMMA PortOperators ==
    /\ \A wg, gw, v6 : Port!Invocations(wg, gw, v6) = Invocations(wg, gw, v6)
    /\ \A r, calls, denied : Port!apply_rules(r, calls, denied) = apply_rules(r, calls, denied)
    /\ \A r, calls : Port!Deniable(r, calls) = Deniable(r, calls)
    /\ \A r, del : Port!remove_rules(r, del) = remove_rules(r, del)
    /\ \A fwd, v6 : Port!SnapshotOf(fwd, v6) = SnapshotOf(fwd, v6)
    /\ \A fwd, v6, faults : Port!Snapshots(fwd, v6, faults) = Snapshots(fwd, v6, faults)
    /\ \A fwd, v6 : Port!ForwardingOn(fwd, v6) = ForwardingOn(fwd, v6)
    /\ \A v6, f : Port!Covers(v6, f) <=> Covers(v6, f)
    /\ \A h : Port!Forgotten(h) = Forgotten(h)
    /\ \A fwd : Port!FreshHost(fwd) = FreshHost(fwd)
    /\ \A f : Port!Range(f) = Range(f)
    /\ Port!Fams = Fams /\ Port!NatFaults = NatFaults
<1>1. Port!Fams = Fams /\ Port!Rule = Rule /\ Port!NatFaults = NatFaults
  BY Zenon DEF Port!Fams, Fams, Port!Rule, Rule, Port!NatFaults, NatFaults
<1>2. \A v6, f : Port!Covers(v6, f) <=> Covers(v6, f)
  BY Zenon DEF Port!Covers, Covers
<1>3. \A wg, gw, v6 : Port!Invocations(wg, gw, v6) = Invocations(wg, gw, v6)
  BY Zenon DEF Port!Invocations, Invocations, Port!nat_rules, nat_rules
<1>4. \A r, calls, denied : Port!apply_rules(r, calls, denied) = apply_rules(r, calls, denied)
  BY Zenon DEF Port!apply_rules, apply_rules, Port!Range, Range, Port!Fams, Fams, Port!Rule, Rule
<1>5. \A r, calls : Port!Deniable(r, calls) = Deniable(r, calls)
  BY Zenon DEF Port!Deniable, Deniable, Port!Range, Range
<1>6. \A r, del : Port!remove_rules(r, del) = remove_rules(r, del)
  BY Zenon DEF Port!remove_rules, remove_rules, Port!Fams, Fams, Port!Rule, Rule
<1>7. \A fwd, v6 : /\ Port!SnapshotOf(fwd, v6) = SnapshotOf(fwd, v6)
                   /\ Port!ForwardingOn(fwd, v6) = ForwardingOn(fwd, v6)
  BY Zenon DEF Port!SnapshotOf, SnapshotOf, Port!ForwardingOn, ForwardingOn, Port!Covers, Covers, Port!Fams, Fams
<1>8. \A h : Port!Forgotten(h) = Forgotten(h)
  BY Zenon DEF Port!Forgotten, Forgotten
<1>9. \A fwd : Port!FreshHost(fwd) = FreshHost(fwd)
  BY Zenon DEF Port!FreshHost, FreshHost, Port!Fams, Fams, Port!Rule, Rule
<1>10. \A f : Port!Range(f) = Range(f)
  BY Zenon DEF Port!Range, Range
<1>11. \A fwd, v6, faults : Port!Snapshots(fwd, v6, faults) = Snapshots(fwd, v6, faults)
  BY <1>1, <1>2, <1>7 DEF Port!Snapshots, Snapshots
<1> QED BY <1>1, <1>2, <1>3, <1>4, <1>5, <1>6, <1>7, <1>8, <1>9, <1>10, <1>11

LEMMA PortOutcomes ==
    /\ \A h, wg, gw, v6, faults : Port!ApplyOutcomes(h, wg, gw, v6, faults) = ApplyOutcomes(h, wg, gw, v6, faults)
    /\ \A h, wg, gw, v6, faults : Port!RemoveOutcomes(h, wg, gw, v6, faults) = RemoveOutcomes(h, wg, gw, v6, faults)
    /\ \A h : Port!CrashOutcomes(h) = CrashOutcomes(h)
<1>1. \A h, wg, gw, v6, faults : Port!ApplyOutcomes(h, wg, gw, v6, faults) = ApplyOutcomes(h, wg, gw, v6, faults)
  BY PortOperators DEF Port!ApplyOutcomes, ApplyOutcomes
<1>2. \A h, wg, gw, v6, faults : Port!RemoveOutcomes(h, wg, gw, v6, faults) = RemoveOutcomes(h, wg, gw, v6, faults)
  BY PortOperators DEF Port!RemoveOutcomes, RemoveOutcomes, Port!Covers, Covers, Port!Fams, Fams
<1>3. \A h : Port!CrashOutcomes(h) = CrashOutcomes(h)
  BY <1>1, <1>2, PortOperators DEF Port!CrashOutcomes, CrashOutcomes
<1> QED BY <1>1, <1>2, <1>3

\* The host after apply has made the invocations of `made', or has failed to write the
\* second sysctl; the host after remove has deleted `del' and switched `off' some families.
AfterApply(h, wg, v6, made, denied, was) ==
    [fwd   |-> ForwardingOn(h.fwd, v6),
     rules |-> Installed(h.rules, made, denied),
     snap  |-> [h.snap EXCEPT ![wg] = was]]

HalfOn(h) == [h EXCEPT !.fwd["v4"] = TRUE]

AfterRemove(h, wg, del, off) ==
    [fwd   |-> [f \in Fams |-> h.fwd[f] /\ f \notin off],
     rules |-> remove_rules(h.rules, del),
     snap  |-> [h.snap EXCEPT ![wg] = NoSnap]]

\* What remove has to switch off.
ToSwitch(h, wg, v6) == IF h.snap[wg] = NoSnap THEN {} ELSE {f \in Fams : Covers(v6, f) /\ ~h.snap[wg][f]}

\* The port's apply can make host x of host h.
CanApply(h, wg, gw, v6, faults, x) == \E o \in ApplyOutcomes(h, wg, gw, v6, faults) : o.host = x

(* What apply may remember of each family. *)
LEMMA SnapshotsAre ==
    ASSUME NEW fwd \in [Fams -> BOOLEAN], NEW v6 \in BOOLEAN, NEW faults
    PROVE  /\ Snapshots(fwd, v6, faults) \subseteq ForwardSnapshot
           /\ SnapshotOf(fwd, v6) \in Snapshots(fwd, v6, faults)
           /\ \A was \in ForwardSnapshot :
                 (\A f \in Fams : IF Covers(v6, f)
                                  THEN was[f] = fwd[f] \/ ("read" \in faults /\ ~was[f])
                                  ELSE was[f])
                    => was \in Snapshots(fwd, v6, faults)
<1> DEFINE some == IF "read" \in faults THEN SUBSET {f \in Fams : Covers(v6, f)} ELSE {{}}
           less(u) == [f \in Fams |-> SnapshotOf(fwd, v6)[f] /\ f \notin u]
<1>1. Snapshots(fwd, v6, faults) = {less(u) : u \in some}
  BY DEF Snapshots
<1>2. SnapshotOf(fwd, v6) \in [Fams -> BOOLEAN]
  BY DEF SnapshotOf, Covers
<1>3. \A u : less(u) \in ForwardSnapshot
  BY DEF ForwardSnapshot
<1>4. less({}) = SnapshotOf(fwd, v6) /\ {} \in some
  BY <1>2
<1>5. ASSUME NEW was \in ForwardSnapshot,
             \A f \in Fams : IF Covers(v6, f)
                             THEN was[f] = fwd[f] \/ ("read" \in faults /\ ~was[f])
                             ELSE was[f]
      PROVE  was \in {less(u) : u \in some}
  <2>1. PICK u : u = IF "read" \in faults THEN {f \in Fams : Covers(v6, f) /\ ~was[f]} ELSE {}
    OBVIOUS
  <2>2. u \in some
    BY <2>1
  <2>3. \A f \in Fams : was[f] = (SnapshotOf(fwd, v6)[f] /\ f \notin u)
    <3> SUFFICES ASSUME NEW f \in Fams PROVE was[f] = (SnapshotOf(fwd, v6)[f] /\ f \notin u)
      OBVIOUS
    <3>1. SnapshotOf(fwd, v6)[f] = (Covers(v6, f) => fwd[f])
      BY DEF SnapshotOf
    <3>2. was[f] \in BOOLEAN /\ fwd[f] \in BOOLEAN
      BY DEF ForwardSnapshot
    <3>3. CASE Covers(v6, f)
      BY <1>5, <2>1, <3>1, <3>2, <3>3
    <3>4. CASE ~Covers(v6, f)
      BY <1>5, <2>1, <3>1, <3>2, <3>4
    <3> QED BY <3>3, <3>4
  <2>4. was = less(u)
    BY <2>3 DEF ForwardSnapshot
  <2> QED BY <2>2, <2>4
<1> HIDE DEF less, some
<1> QED BY <1>1, <1>3, <1>4, <1>5

(* apply may stop before any of its rules, and it may have been denied any rule that is there. *)
LEMMA ApplyReaches ==
    ASSUME NEW h, NEW wg \in Wgs, NEW gw \in Gateways, NEW v6 \in BOOLEAN, NEW faults,
           NEW inv, inv = Invocations(wg, gw, v6), NEW was \in Snapshots(h.fwd, v6, faults),
           NEW n \in 0..Len(inv), n = Len(inv) \/ "iptables" \in faults,
           NEW denied, denied = {} \/ ("probe" \in faults /\ denied \subseteq Deniable(h.rules, inv))
    PROVE  CanApply(h, wg, gw, v6, faults, AfterApply(h, wg, v6, First(inv, n), denied, was))
<1> DEFINE seen == Snapshots(h.fwd, v6, faults)
           denials == IF "probe" \in faults THEN SUBSET Deniable(h.rules, inv) ELSE {{}}
           upTo(m, d, w) == [fwd   |-> ForwardingOn(h.fwd, v6),
                             rules |-> apply_rules(h.rules, SubSeq(inv, 1, m), d),
                             snap  |-> [h.snap EXCEPT ![wg] = w]]
           offs(f) == {w \in seen : "sysctl" \in faults /\ ~w[f]}
           short == {m \in 0..(Len(inv) - 1) : "iptables" \in faults}
           good(d, w) == [ok |-> TRUE, host |-> upTo(Len(inv), d, w)]
           bad(m, d, w) == [ok |-> FALSE, host |-> upTo(m, d, w)]
           whole == {good(d, w) : d \in denials, w \in seen}
           parts == {bad(m, d, w) : m \in short, d \in denials, w \in seen}
<1>1. Len(inv) \in Nat /\ Range(SubSeq(inv, 1, n)) = First(inv, n)
  BY InvocationsList
<1>2. denied \in denials /\ was \in seen
  OBVIOUS
<1>3. upTo(n, denied, was) = AfterApply(h, wg, v6, First(inv, n), denied, was)
  BY <1>1, Zenon DEF AfterApply, apply_rules, Installed
<1>7. whole \cup parts \subseteq ApplyOutcomes(h, wg, gw, v6, faults)
  <2>1. ApplyOutcomes(h, wg, gw, v6, faults) =
           whole \cup {[ok |-> FALSE, host |-> h] : w \in offs("v4")}
                 \cup {[ok |-> FALSE, host |-> HalfOn(h)] : w \in offs("v6")} \cup parts
    BY DEF ApplyOutcomes, HalfOn
  <2> HIDE DEF whole, parts
  <2> QED BY <2>1
<1>8. "iptables" \in faults => 0..(Len(inv) - 1) \subseteq short
  OBVIOUS
<1>9. /\ \A d \in denials, w \in seen : good(d, w) \in whole
      /\ \A m \in short, d \in denials, w \in seen : bad(m, d, w) \in parts
  <2> HIDE DEF denials, seen, short, good, bad
  <2> QED OBVIOUS
<1>4. /\ good(denied, was) \in ApplyOutcomes(h, wg, gw, v6, faults)
      /\ \A m \in 0..(Len(inv) - 1) : "iptables" \in faults =>
            bad(m, denied, was) \in ApplyOutcomes(h, wg, gw, v6, faults)
  <2> HIDE DEF denials, seen, short, good, bad, whole, parts
  <2> QED BY <1>2, <1>7, <1>8, <1>9
<1> HIDE DEF upTo, denials, short, seen, whole, parts
<1>5. CASE n = Len(inv)
  <2>1. [ok |-> TRUE, host |-> upTo(n, denied, was)].host = upTo(n, denied, was)
    OBVIOUS
  <2> QED BY <1>3, <1>4, <1>5, <2>1, Zenon DEF CanApply
<1>6. CASE n # Len(inv)
  <2>1. [ok |-> FALSE, host |-> upTo(n, denied, was)].host = upTo(n, denied, was)
    OBVIOUS
  <2>2. n \in 0..(Len(inv) - 1) /\ "iptables" \in faults
    BY <1>1, <1>6
  <2> QED BY <1>3, <1>4, <2>1, <2>2, Zenon DEF CanApply
<1> QED BY <1>5, <1>6

(* It may also fail to write a sysctl that it takes for off. *)
LEMMA ApplyFails ==
    ASSUME NEW h, NEW wg, NEW gw, NEW v6, NEW faults, "sysctl" \in faults,
           NEW was \in Snapshots(h.fwd, v6, faults)
    PROVE  /\ ~was["v4"] => CanApply(h, wg, gw, v6, faults, h)
           /\ ~was["v6"] => CanApply(h, wg, gw, v6, faults, HalfOn(h))
<1>1. ASSUME ~was["v4"] PROVE CanApply(h, wg, gw, v6, faults, h)
  <2>1. was \in {w \in Snapshots(h.fwd, v6, faults) : "sysctl" \in faults /\ ~w["v4"]}
    BY <1>1
  <2>2. [ok |-> FALSE, host |-> h] \in ApplyOutcomes(h, wg, gw, v6, faults)
    BY <2>1 DEF ApplyOutcomes
  <2>3. [ok |-> FALSE, host |-> h].host = h
    OBVIOUS
  <2> QED BY <2>2, <2>3, Zenon DEF CanApply
<1>2. ASSUME ~was["v6"] PROVE CanApply(h, wg, gw, v6, faults, HalfOn(h))
  <2>1. was \in {w \in Snapshots(h.fwd, v6, faults) : "sysctl" \in faults /\ ~w["v6"]}
    BY <1>2
  <2>2. [ok |-> FALSE, host |-> HalfOn(h)] \in ApplyOutcomes(h, wg, gw, v6, faults)
    BY <2>1 DEF ApplyOutcomes, HalfOn
  <2>3. [ok |-> FALSE, host |-> HalfOn(h)].host = HalfOn(h)
    OBVIOUS
  <2> QED BY <2>2, <2>3, Zenon DEF CanApply
<1> QED BY <1>1, <1>2

(* remove leaves behind what it could not delete, and on what it could not switch off. *)
LEMMA RemoveReaches ==
    ASSUME NEW h, NEW wg, NEW gw, NEW v6, NEW faults,
           NEW all, all = Range(Invocations(wg, gw, v6)),
           NEW del \in SUBSET all, "iptables" \in faults \/ del = all,
           NEW off \in SUBSET ToSwitch(h, wg, v6), "sysctl" \in faults \/ off = ToSwitch(h, wg, v6)
    PROVE  AfterRemove(h, wg, del, off) \in RemoveOutcomes(h, wg, gw, v6, faults)
<1>1. del \in (IF "iptables" \in faults THEN SUBSET all ELSE {all})
  OBVIOUS
<1>2. off \in (IF "sysctl" \in faults THEN SUBSET ToSwitch(h, wg, v6) ELSE {ToSwitch(h, wg, v6)})
  OBVIOUS
<1> DEFINE dels == IF "iptables" \in faults THEN SUBSET all ELSE {all}
           offs == IF "sysctl" \in faults THEN SUBSET ToSwitch(h, wg, v6) ELSE {ToSwitch(h, wg, v6)}
<1>3. RemoveOutcomes(h, wg, gw, v6, faults) = {AfterRemove(h, wg, d, x) : d \in dels, x \in offs}
  BY DEF RemoveOutcomes, AfterRemove, ToSwitch
<1>4. del \in dels /\ off \in offs
  BY <1>1, <1>2
<1> HIDE DEF dels, offs
<1> QED BY <1>3, <1>4

(* A crash can leave what a call with every fault can. *)
LEMMA CrashReaches ==
    ASSUME NEW h, NEW wg \in Wgs, NEW gw \in Gateways, NEW v6 \in BOOLEAN
    PROVE  /\ Forgotten(h) \in CrashOutcomes(h)
           /\ \A o \in ApplyOutcomes(h, wg, gw, v6, NatFaults) : Forgotten(o.host) \in CrashOutcomes(h)
           /\ \A x \in RemoveOutcomes(h, wg, gw, v6, NatFaults) : Forgotten(x) \in CrashOutcomes(h)
<1> DEFINE of(w, g, v) == {o.host : o \in ApplyOutcomes(h, w, g, v, NatFaults)}
                             \cup RemoveOutcomes(h, w, g, v, NatFaults)
           all == {h} \cup UNION {of(w, g, v) : w \in Wgs, g \in Gateways, v \in BOOLEAN}
<1>1. CrashOutcomes(h) = {Forgotten(x) : x \in all}
  BY DEF CrashOutcomes
<1>2. /\ \A o \in ApplyOutcomes(h, wg, gw, v6, NatFaults) : o.host \in of(wg, gw, v6)
      /\ \A x \in RemoveOutcomes(h, wg, gw, v6, NatFaults) : x \in of(wg, gw, v6)
  OBVIOUS
<1> HIDE DEF of
<1>3. of(wg, gw, v6) \subseteq all /\ h \in all
  OBVIOUS
<1> HIDE DEF all
<1> QED BY <1>1, <1>2, <1>3

-----------------------------------------------------------------------------
(* The steps of a call *)

LEMMA HostsEqual ==
    ASSUME NEW g \in Host, NEW h \in Host, g.fwd["v4"] = h.fwd["v4"], g.fwd["v6"] = h.fwd["v6"],
           g.rules = h.rules, g.snap = h.snap
    PROVE  g = h
<1>1. \A f \in Fams : g.fwd[f] = h.fwd[f]
  BY DEF Fams
<1>2. g.fwd \in [Fams -> BOOLEAN] /\ h.fwd \in [Fams -> BOOLEAN]
  BY DEF Host
<1>3. g.fwd = h.fwd
  BY <1>1, <1>2
<1> QED BY <1>3 DEF Host

(* A call that has made no invocation has changed no rule. *)
LEMMA NothingMade ==
    ASSUME NEW rules \in [Fams -> [Rule -> Nat]], NEW denied
    PROVE  Installed(rules, {}, denied) = rules /\ remove_rules(rules, {}) = rules
<1>1. /\ Installed(rules, {}, denied) \in [Fams -> [Rule -> Nat]]
      /\ \A f \in Fams, r \in Rule : Installed(rules, {}, denied)[f][r] = rules[f][r]
  BY DEF Installed
<1>2. /\ remove_rules(rules, {}) \in [Fams -> [Rule -> Nat]]
      /\ \A f \in Fams, r \in Rule : remove_rules(rules, {})[f][r] = rules[f][r]
  BY DEF remove_rules
<1> QED BY <1>1, <1>2, SameRules

(* What holds of the thread that runs a call. *)
LEMMA Alone ==
    ASSUME PortInv, Single, NEW c \in Calls
    PROVE  /\ TypeInv /\ call \in [Calls -> Call] /\ call[c] \in Call
           /\ host \in Host /\ before \in Host /\ Underway(c)
           /\ \A d \in Calls : d = c
BY DEF PortInv, TypeInv, TypeOK, Single

(* A family is on now: on to the next one, or to the snapshot. *)
LEMMA FamilyOn ==
    ASSUME PortInv, Single, NEW c \in Calls, call[c].pc \in {"read", "write"},
           Noted(c, call[c].fam),
           AfterFamily(c, call[c].was), before' = before, host' \in Host,
           host' = [host EXCEPT !.fwd[call[c].fam] = TRUE]
    PROVE  Underway(c)' /\ call'[c].pc # "idle"
<1>1. /\ TypeInv /\ call \in [Calls -> Call] /\ call[c] \in Call /\ host \in Host /\ before \in Host
      /\ Looking(c)
  BY Alone DEF Underway
<1>2. "v4" \in Fams /\ "v6" \in Fams /\ call[c].fam \in Fams /\ call[c].v6 \in BOOLEAN
      /\ call[c].was \in [Fams -> BOOLEAN]
  BY <1>1 DEF Fams, Call, ForwardSnapshot
<1>3. /\ host.fwd \in [Fams -> BOOLEAN] /\ before.fwd \in [Fams -> BOOLEAN] /\ host'.fwd \in [Fams -> BOOLEAN]
      /\ host'.fwd = [host.fwd EXCEPT ![call[c].fam] = TRUE]
      /\ host'.rules = host.rules /\ host'.snap = host.snap
  BY <1>1 DEF Host
<1>4. /\ host.rules = before.rules /\ host.snap = before.snap
      /\ call[c].fam = "v4" => host = before
      /\ call[c].fam = "v6" => /\ host.fwd["v4"] /\ host.fwd["v6"] = before.fwd["v6"] /\ call[c].v6
                               /\ Noted(c, "v4")
      /\ call[c].fam = "v4" => call[c].was["v6"] = TRUE
      /\ call[c].k = 1
  BY <1>1, <1>2, <1>3 DEF Looking, Host
<1>5. CASE call[c].fam = "v4" /\ call[c].v6
  <2>1. /\ call'[c].was = call[c].was /\ call'[c].pc = "read" /\ call'[c].fam = "v6"
        /\ call'[c].k = 1 /\ call'[c].v6 = call[c].v6
    BY <1>1, <1>4, <1>5 DEF AfterFamily, Call
  <2>2. host' = [before EXCEPT !.fwd["v4"] = TRUE]
    BY <1>4, <1>5
  <2>3. Noted(c, "v4")'
    BY <1>5, <2>1 DEF Noted
  <2>4. Looking(c)'
    BY <2>1, <2>2, <2>3, <1>4, <1>5 DEF Looking
  <2> QED BY <2>1, <2>4 DEF Underway, SwitchedOn, Noting, Installing, Deleting, Untouched, SwitchingOff
<1>6. CASE ~(call[c].fam = "v4" /\ call[c].v6)
  <2>1. /\ call'[c].was = call[c].was /\ call'[c].pc = "snapshot" /\ call'[c].fam = "v4"
        /\ call'[c].k = 1 /\ call'[c].v6 = call[c].v6
    BY <1>1, <1>4, <1>6 DEF AfterFamily, Call
  <2>2. \A f \in Fams : /\ host'.fwd[f] = (Covers(call[c].v6, f) \/ before.fwd[f])
                        /\ IF Covers(call[c].v6, f) THEN Noted(c, f) ELSE call[c].was[f]
    <3>1. CASE call[c].fam = "v4"
      <4>1. ~call[c].v6 /\ host = before /\ call[c].was["v6"] = TRUE /\ Noted(c, "v4")
        BY <1>4, <1>6, <3>1
      <4>2. host'.fwd["v4"] = TRUE /\ host'.fwd["v6"] = before.fwd["v6"]
        BY <1>2, <1>3, <3>1, <4>1
      <4> QED BY <1>2, <1>3, <4>1, <4>2 DEF Covers, Fams
    <3>2. CASE call[c].fam = "v6"
      <4>1. host'.fwd["v4"] = TRUE /\ host'.fwd["v6"] = TRUE
        BY <1>2, <1>3, <1>4, <3>2
      <4>2. Noted(c, "v4") /\ Noted(c, "v6") /\ call[c].v6
        BY <1>4, <3>2
      <4> QED BY <1>2, <1>3, <4>1, <4>2 DEF Covers, Fams
    <3> QED BY <1>2, <3>1, <3>2 DEF Fams
  <2>3. host'.fwd = ForwardingOn(before.fwd, call[c].v6)
    <3>1. ForwardingOn(before.fwd, call[c].v6) \in [Fams -> BOOLEAN]
      BY <1>3 DEF ForwardingOn, Covers
    <3>2. \A f \in Fams : host'.fwd[f] = ForwardingOn(before.fwd, call[c].v6)[f]
      <4> SUFFICES ASSUME NEW f \in Fams PROVE host'.fwd[f] = ForwardingOn(before.fwd, call[c].v6)[f]
        OBVIOUS
      <4>1. ForwardingOn(before.fwd, call[c].v6)[f] = (Covers(call[c].v6, f) \/ before.fwd[f])
        BY DEF ForwardingOn
      <4> QED BY <2>2, <4>1, Zenon
    <3> QED BY <1>3, <3>1, <3>2, ZenonT(40)
  <2>4. call[c].was \in Snapshots(before.fwd, call[c].v6, Faults)
    <3>1. \A f \in Fams : IF Covers(call[c].v6, f)
                          THEN \/ call[c].was[f] = before.fwd[f]
                               \/ "read" \in Faults /\ ~call[c].was[f]
                          ELSE call[c].was[f]
      BY <2>2 DEF Noted
    <3>2. call[c].was \in ForwardSnapshot /\ before.fwd \in [Fams -> BOOLEAN]
      BY <1>2, <1>3 DEF ForwardSnapshot
    <3> QED BY <1>2, <3>1, <3>2, SnapshotsAre
  <2> QED BY <2>1, <2>3, <2>4, <1>3, <1>4 DEF Underway, Looking, SwitchedOn, Noting, Installing, Deleting,
                                        Untouched, SwitchingOff
<1> QED BY <1>5, <1>6

\* The call that returns in this step did to `before' what the port allows.
Applied(c) ==
    CanApply(before, call[c].wg, call[c].gw, call[c].v6, Faults, host')
Removed(c) ==
    host' \in RemoveOutcomes(before, call[c].wg, call[c].gw, call[c].v6, Faults)

LEMMA ReadStep ==
    ASSUME PortInv, Single, NEW c \in Calls, read_forward(c), before' = before
    PROVE  Underway(c)' /\ call'[c].pc # "idle"
<1>1. /\ TypeInv /\ call \in [Calls -> Call] /\ call[c] \in Call /\ host \in Host /\ before \in Host
      /\ Looking(c) /\ call[c].pc = "read" /\ host' = host
  BY Alone DEF Underway, read_forward
<1>2. /\ "v4" \in Fams /\ "v6" \in Fams /\ call[c].fam \in {"v4", "v6"} /\ call[c].v6 \in BOOLEAN
      /\ call[c].was \in [Fams -> BOOLEAN] /\ host.fwd \in [Fams -> BOOLEAN] /\ before.fwd \in [Fams -> BOOLEAN]
  BY <1>1 DEF Fams, Call, ForwardSnapshot, Host
<1>3. host.fwd[call[c].fam] = before.fwd[call[c].fam]
  BY <1>1, <1>2 DEF Looking, Host
<1>4. CASE host.fwd[call[c].fam] /\ AfterFamily(c, call[c].was)
  <2>1. host' = [host EXCEPT !.fwd[call[c].fam] = TRUE]
    <3>1. [host EXCEPT !.fwd[call[c].fam] = TRUE] \in Host
      BY <1>1, <1>2, HostUpdates
    <3>2. host.fwd[call[c].fam] = TRUE
      BY <1>2, <1>4
    <3>3. [host.fwd EXCEPT ![call[c].fam] = TRUE] = host.fwd
      BY <1>2, <3>2
    <3>4. [host EXCEPT !.fwd = host.fwd] = host
      BY <1>1 DEF Host
    <3> QED BY <1>1, <3>3, <3>4
  <2>2. Noted(c, call[c].fam)
    BY <1>1, <1>2, <1>3, <1>4 DEF Looking, Noted
  <2> QED BY <1>1, <1>4, <2>1, <2>2, FamilyOn
<1>5. CASE /\ ~host.fwd[call[c].fam] \/ "read" \in Faults
           /\ call' = [call EXCEPT ![c].was[call[c].fam] = FALSE, ![c].pc = "write"]
  <2>1. /\ call'[c].pc = "write" /\ call'[c].fam = call[c].fam /\ call'[c].v6 = call[c].v6
        /\ call'[c].k = call[c].k /\ call'[c].was = [call[c].was EXCEPT ![call[c].fam] = FALSE]
    BY <1>1, <1>5 DEF Call
  <2>2. Looking(c)'
    <3>1. CASE call[c].fam = "v4"
      <4>1. call'[c].was["v4"] = FALSE /\ call'[c].was["v6"] = call[c].was["v6"]
        BY <1>2, <2>1, <3>1
      <4>2. call[c].was["v6"] /\ host = before /\ call[c].k = 1
        BY <1>1, <3>1 DEF Looking
      <4>3. Noted(c, "v4")'
        BY <1>2, <1>3, <1>5, <3>1, <4>1 DEF Noted
      <4> QED BY <1>1, <2>1, <3>1, <4>1, <4>2, <4>3 DEF Looking
    <3>2. CASE call[c].fam = "v6"
      <4>1. call'[c].was["v6"] = FALSE /\ call'[c].was["v4"] = call[c].was["v4"]
        BY <1>2, <2>1, <3>2
      <4>2. /\ Noted(c, "v4") /\ host = [before EXCEPT !.fwd["v4"] = TRUE]
            /\ call[c].k = 1 /\ call[c].v6
        BY <1>1, <3>2 DEF Looking
      <4>3. Noted(c, "v4")' /\ Noted(c, "v6")'
        BY <1>2, <1>3, <1>5, <3>2, <4>1, <4>2 DEF Noted
      <4> QED BY <1>1, <2>1, <3>2, <4>1, <4>2, <4>3 DEF Looking
    <3> QED BY <1>2, <3>1, <3>2
  <2> QED BY <2>1, <2>2 DEF Underway, SwitchedOn, Noting, Installing, Deleting, Untouched, SwitchingOff
<1> QED BY <1>4, <1>5 DEF read_forward

(* A thread that is idle again has nothing underway. *)
LEMMA Returned ==
    ASSUME PortInv, Single, NEW c \in Calls, Return(c)
    PROVE  Underway(c)' /\ call'[c].pc = "idle"
<1>1. call'[c].pc = "idle"
  BY Alone DEF Return, SomeIdle, Idle
<1> QED BY <1>1 DEF Underway, Looking, SwitchedOn, Noting, Installing, Deleting, Untouched, SwitchingOff

(* A family that is about to be written is off in what apply may remember. *)
LEMMA WasOff ==
    ASSUME NEW c \in Calls, Looking(c), call[c].pc = "write", call[c].v6 \in BOOLEAN,
           call[c].was \in [Fams -> BOOLEAN], before.fwd \in [Fams -> BOOLEAN], call[c].fam \in {"v4", "v6"}
    PROVE  \E was \in Snapshots(before.fwd, call[c].v6, Faults) : ~was[call[c].fam]
<1>1. PICK was \in ForwardSnapshot :
         was = [f \in Fams |-> IF Covers(call[c].v6, f) /\ f = call[c].fam THEN FALSE
                               ELSE SnapshotOf(before.fwd, call[c].v6)[f]]
  BY DEF ForwardSnapshot, SnapshotOf, Covers
<1>2. ~was[call[c].fam]
  BY <1>1 DEF Looking, Covers, Fams
<1>3. Noted(c, call[c].fam) /\ ~call[c].was[call[c].fam]
  BY DEF Looking
<1>4. \A f \in Fams : IF Covers(call[c].v6, f)
                      THEN was[f] = before.fwd[f] \/ ("read" \in Faults /\ ~was[f])
                      ELSE was[f]
  BY <1>1, <1>3 DEF SnapshotOf, Noted
<1>5. was \in Snapshots(before.fwd, call[c].v6, Faults)
  BY <1>4, SnapshotsAre
<1> QED BY <1>2, <1>5

LEMMA WriteStep ==
    ASSUME PortInv, Single, NEW c \in Calls, write_forward(c), before' = before
    PROVE  Underway(c)' /\ (call'[c].pc = "idle" => Applied(c))
<1>1. /\ TypeInv /\ call \in [Calls -> Call] /\ call[c] \in Call /\ host \in Host /\ before \in Host
      /\ Looking(c) /\ call[c].pc = "write"
  BY Alone DEF Underway, write_forward
<1>2. /\ "v4" \in Fams /\ "v6" \in Fams /\ call[c].fam \in {"v4", "v6"} /\ call[c].v6 \in BOOLEAN
      /\ call[c].was \in [Fams -> BOOLEAN] /\ host.fwd \in [Fams -> BOOLEAN] /\ before.fwd \in [Fams -> BOOLEAN]
  BY <1>1 DEF Fams, Call, ForwardSnapshot, Host
<1>3. CASE host' = [host EXCEPT !.fwd[call[c].fam] = TRUE] /\ AfterFamily(c, call[c].was)
  <2>1. host' \in Host
    BY <1>1, <1>2, <1>3, HostUpdates
  <2>2. Noted(c, call[c].fam)
    BY <1>1, <1>2 DEF Looking
  <2> QED BY <1>1, <1>3, <2>1, <2>2, FamilyOn
<1>4. CASE "sysctl" \in Faults /\ host' = host /\ Return(c)
  <2>1. Applied(c)
    <3>1. CASE call[c].fam = "v4"
      <4>1. host' = before
        BY <1>1, <1>4, <3>1 DEF Looking
      <4>2. PICK was \in Snapshots(before.fwd, call[c].v6, Faults) : ~was["v4"]
        BY <1>1, <1>2, <3>1, WasOff
      <4>3. CanApply(before, call[c].wg, call[c].gw, call[c].v6, Faults, before)
        BY <1>4, <4>2, ApplyFails
      <4> QED BY <4>1, <4>3 DEF Applied
    <3>2. CASE call[c].fam = "v6"
      <4>1. host' = HalfOn(before) /\ call[c].v6
        BY <1>1, <1>4, <3>2 DEF Looking, HalfOn
      <4>2. PICK was \in Snapshots(before.fwd, call[c].v6, Faults) : ~was["v6"]
        BY <1>1, <1>2, <3>2, WasOff
      <4>3. CanApply(before, call[c].wg, call[c].gw, call[c].v6, Faults, HalfOn(before))
        BY <1>4, <4>2, ApplyFails
      <4> QED BY <4>1, <4>3 DEF Applied
    <3> QED BY <1>2, <3>1, <3>2
  <2> QED BY <1>4, <2>1, Returned
<1> QED BY <1>3, <1>4 DEF write_forward

(* A call that stops after n invocations of apply is an outcome the port allows. *)
LEMMA StopsAt ==
    ASSUME PortInv, Single, NEW c \in Calls, call[c].pc \in {"probe", "insert"}, host' \in Host,
           host'.fwd = host.fwd, host'.snap = host.snap,
           NEW n \in 0..Len(InvocationsOf(c)), n = Len(InvocationsOf(c)) \/ "iptables" \in Faults,
           NEW denied \in SUBSET Doubtful(c),
           host'.rules = Installed(before.rules, First(InvocationsOf(c), n), denied)
    PROVE  Applied(c)
<1>1. /\ call[c] \in Call /\ SwitchedOn(c) /\ Installing(c)
  BY Alone DEF Underway
<1>2. call[c].wg \in Wgs /\ call[c].gw \in Gateways /\ call[c].v6 \in BOOLEAN
  BY <1>1 DEF Call
<1>3. denied = {} \/ ("probe" \in Faults /\ denied \subseteq Deniable(before.rules, InvocationsOf(c)))
  BY DEF Doubtful, Deniable, All
<1>4. PICK was \in Snapshots(before.fwd, call[c].v6, Faults) :
         host' = AfterApply(before, call[c].wg, call[c].v6, First(InvocationsOf(c), n), denied, was)
  <2>1. host' = [fwd |-> host'.fwd, rules |-> host'.rules, snap |-> host'.snap]
    BY DEF Host
  <2>2. /\ host'.fwd = ForwardingOn(before.fwd, call[c].v6)
        /\ \E was \in Snapshots(before.fwd, call[c].v6, Faults) :
              host'.snap = [before.snap EXCEPT ![call[c].wg] = was]
    BY <1>1 DEF SwitchedOn, Installing
  <2> QED BY <2>1, <2>2, Zenon DEF AfterApply
<1>5. CanApply(before, call[c].wg, call[c].gw, call[c].v6, Faults,
                 AfterApply(before, call[c].wg, call[c].v6, First(InvocationsOf(c), n), denied, was))
  <2>1. PICK inv : inv = InvocationsOf(c)
    OBVIOUS
  <2>2. inv = Invocations(call[c].wg, call[c].gw, call[c].v6)
    BY <2>1 DEF InvocationsOf
  <2>3. n \in 0..Len(inv) /\ (n = Len(inv) \/ "iptables" \in Faults)
    BY <2>1
  <2>4. denied = {} \/ ("probe" \in Faults /\ denied \subseteq Deniable(before.rules, inv))
    BY <1>3, <2>1
  <2>5. CanApply(before, call[c].wg, call[c].gw, call[c].v6, Faults,
                 AfterApply(before, call[c].wg, call[c].v6, First(inv, n), denied, was))
    BY <1>2, <1>4, <2>2, <2>3, <2>4, ApplyReaches, Zenon
  <2> QED BY <2>1, <2>5
<1> QED BY <1>4, <1>5, Zenon DEF Applied

(* The call's other invocations, seen by the next step: the same with one more behind. *)
LEMMA OneBehind ==
    ASSUME TypeInv, NEW c \in Calls, call' = [call EXCEPT ![c].k = @ + 1, ![c].pc = "probe"]
                                     \/ call' = [call EXCEPT ![c].k = @ + 1], before' = before
    PROVE  /\ Behind(c)' = Behind(c) \cup {Invocation(c)}
           /\ All(c)' = All(c) /\ Doubtful(c)' = Doubtful(c)
           /\ call'[c].wg = call[c].wg /\ call'[c].v6 = call[c].v6 /\ call'[c].fam = call[c].fam
<1>1. call[c] \in Call /\ call \in [Calls -> Call] /\ call[c].k \in 1..6
  BY DEF TypeInv, TypeOK, Call
<1>2. /\ call'[c].wg = call[c].wg /\ call'[c].v6 = call[c].v6 /\ call'[c].gw = call[c].gw
      /\ call'[c].fam = call[c].fam /\ call'[c].k - 1 = call[c].k
  BY <1>1 DEF Call
<1>3. InvocationsOf(c)' = InvocationsOf(c)
  BY <1>2 DEF InvocationsOf
<1>4. Behind(c)' = First(InvocationsOf(c), call[c].k)
  BY <1>2, <1>3 DEF Behind
<1>5. All(c)' = All(c)
  BY <1>3 DEF All
<1>6. Doubtful(c)' = Doubtful(c)
  BY <1>5 DEF Doubtful
<1> QED BY <1>2, <1>4, <1>5, <1>6, BehindFacts

(* The next rule is due: the one before it is behind the call, or it was the last one. *)
LEMMA RuleDone ==
    ASSUME PortInv, Single, NEW c \in Calls, call[c].pc \in {"probe", "insert"}, NextRule(c),
           before' = before, host' \in Host, host'.fwd = host.fwd, host'.snap = host.snap,
           NEW denied \in SUBSET ((Behind(c) \cup {Invocation(c)}) \cap Doubtful(c)),
           host'.rules = Installed(before.rules, Behind(c) \cup {Invocation(c)}, denied)
    PROVE  Underway(c)' /\ (call'[c].pc = "idle" => Applied(c))
<1>1. /\ TypeInv /\ call \in [Calls -> Call] /\ call[c] \in Call /\ SwitchedOn(c) /\ Installing(c)
  BY Alone DEF Underway
<1>2. CASE LastInvocation(c)
  <2>1. First(InvocationsOf(c), call[c].k) = Behind(c) \cup {Invocation(c)}
    BY <1>1, BehindFacts
  <2>2. call[c].k = Len(InvocationsOf(c)) /\ call[c].k \in 0..Len(InvocationsOf(c))
    BY <1>1, <1>2 DEF LastInvocation, InvocationsOf, Call
  <2>3. Applied(c)
    BY <2>1, <2>2, StopsAt
  <2> QED BY <1>2, <2>3, Returned DEF NextRule
<1>3. CASE ~LastInvocation(c)
  <2>1. call' = [call EXCEPT ![c].k = @ + 1, ![c].pc = "probe"]
    BY <1>3 DEF NextRule
  <2>2. /\ Behind(c)' = Behind(c) \cup {Invocation(c)}
        /\ Doubtful(c)' = Doubtful(c)
        /\ call'[c].wg = call[c].wg /\ call'[c].v6 = call[c].v6
    BY <1>1, <2>1, OneBehind
  <2>3. call'[c].pc = "probe"
    BY <1>1, <2>1 DEF Call
  <2>4. Installing(c)'
    BY <1>1, <2>2, <2>3 DEF Installing
  <2>5. SwitchedOn(c)'
    BY <1>1, <2>2, <2>3 DEF SwitchedOn
  <2> QED BY <2>3, <2>4, <2>5 DEF Underway, Looking, Noting, Deleting, Untouched, SwitchingOff
<1> QED BY <1>2, <1>3

LEMMA SnapshotStep ==
    ASSUME PortInv, Single, NEW c \in Calls, InsertSnapshot(c), before' = before
    PROVE  Underway(c)' /\ call'[c].pc # "idle"
<1>1. /\ TypeInv /\ call \in [Calls -> Call] /\ call[c] \in Call /\ host \in Host /\ before \in Host
      /\ SwitchedOn(c) /\ Noting(c) /\ call[c].pc = "snapshot"
  BY Alone DEF Underway, InsertSnapshot
<1>2. /\ call'[c].pc = "probe" /\ call'[c].wg = call[c].wg /\ call'[c].v6 = call[c].v6
      /\ call'[c].gw = call[c].gw /\ call'[c].k = call[c].k
  BY <1>1 DEF InsertSnapshot, Goto, Call
<1>3. /\ host'.fwd = host.fwd /\ host'.rules = host.rules
      /\ host'.snap = [host.snap EXCEPT ![call[c].wg] = call[c].was]
  BY <1>1 DEF InsertSnapshot, Host
<1>4. Behind(c)' = {}
  <2>1. InvocationsOf(c)' = InvocationsOf(c)
    BY <1>2 DEF InvocationsOf
  <2>2. call[c].k = 1
    BY <1>1 DEF Noting
  <2>3. Behind(c)' = Behind(c)
    BY <1>2, <2>1 DEF Behind
  <2> QED BY <1>1, <2>2, <2>3, BehindFacts
<1>5. host.rules = Installed(before.rules, {}, {})
  BY <1>1, NothingMade DEF Noting, Host
<1>6. Installing(c)'
  <2>1. \E was \in Snapshots(before.fwd, call'[c].v6, Faults) :
           host'.snap = [before.snap EXCEPT ![call'[c].wg] = was]
    BY <1>1, <1>2, <1>3 DEF Noting
  <2>2. \E denied \in SUBSET (Behind(c)' \cap Doubtful(c)') : host'.rules = Installed(before.rules, Behind(c)', denied)
    BY <1>3, <1>4, <1>5
  <2> QED BY <1>2, <2>1, <2>2 DEF Installing
<1>7. SwitchedOn(c)'
  BY <1>1, <1>2, <1>3 DEF SwitchedOn
<1> QED BY <1>2, <1>6, <1>7 DEF Underway, Looking, Noting, Deleting, Untouched, SwitchingOff

(* What is known of the rule that is up: it is as the call found it. *)
LEMMA RuleUp ==
    ASSUME PortInv, Single, NEW c \in Calls, call[c].pc \in {"probe", "insert"}
    PROVE  /\ host.rules[Invocation(c).fam][Invocation(c).rule]
                 = before.rules[Invocation(c).fam][Invocation(c).rule]
           /\ Invocation(c) \in Entry /\ Invocation(c) \in All(c) \ Behind(c)
           /\ before.rules[Invocation(c).fam][Invocation(c).rule] \in Nat
           /\ \E denied \in SUBSET (Behind(c) \cap Doubtful(c)) :
                 /\ host.rules = Installed(before.rules, Behind(c), denied)
                 /\ before.rules[Invocation(c).fam][Invocation(c).rule] # 0 =>
                       Installed(before.rules, Behind(c) \cup {Invocation(c)}, denied) = host.rules
                 /\ \A d \in {denied, denied \cup {Invocation(c)}} :
                       before.rules[Invocation(c).fam][Invocation(c).rule] = 0 \/ Invocation(c) \in d =>
                          Installed(before.rules, Behind(c) \cup {Invocation(c)}, d) =
                             With(host.rules, Invocation(c), host.rules[Invocation(c).fam][Invocation(c).rule] + 1)
<1>1. /\ TypeInv /\ before \in Host /\ before.rules \in [Fams -> [Rule -> Nat]] /\ Installing(c)
  BY Alone DEF Underway, Host
<1>2. Invocation(c) \in All(c) \ Behind(c) /\ All(c) \subseteq Entry
  BY <1>1, BehindFacts
<1>3. PICK denied \in SUBSET (Behind(c) \cap Doubtful(c)) : host.rules = Installed(before.rules, Behind(c), denied)
  BY <1>1 DEF Installing
<1>4. PICK i \in Entry \ Behind(c) : i = Invocation(c)
  BY <1>2
<1>5. i \notin denied
  BY <1>3, <1>4
<1>6. before.rules[i.fam][i.rule] \in Nat
  BY <1>1 DEF Entry
<1>7. /\ host.rules[i.fam][i.rule] = before.rules[i.fam][i.rule]
      /\ before.rules[i.fam][i.rule] # 0 => Installed(before.rules, Behind(c) \cup {i}, denied) = host.rules
      /\ \A d \in {denied, denied \cup {i}} :
            before.rules[i.fam][i.rule] = 0 \/ i \in d =>
               Installed(before.rules, Behind(c) \cup {i}, d) = With(host.rules, i, host.rules[i.fam][i.rule] + 1)
  <2>1. PICK rules \in [Fams -> [Rule -> Nat]] : rules = before.rules
    BY <1>1
  <2>2. PICK made : made = Behind(c)
    OBVIOUS
  <2>3. PICK R : R = host.rules
    OBVIOUS
  <2>4. R = Installed(rules, made, denied) /\ i \in Entry \ made /\ i \notin denied
    BY <1>3, <1>5, <2>1, <2>2, <2>3
  <2>5. OneMore(rules, made, denied, i, R)
    BY <2>4, InstallOne
  <2> QED BY <2>1, <2>2, <2>3, <2>5, Zenon DEF OneMore
<1> QED BY <1>2, <1>3, <1>4, <1>6, <1>7

LEMMA ProbeStep ==
    ASSUME PortInv, Single, NEW c \in Calls, Probe(c), before' = before
    PROVE  Underway(c)' /\ (call'[c].pc = "idle" => Applied(c))
<1>1. /\ TypeInv /\ call \in [Calls -> Call] /\ call[c] \in Call /\ host \in Host /\ before \in Host
      /\ SwitchedOn(c) /\ Installing(c) /\ call[c].pc = "probe" /\ host' = host
  BY Alone DEF Underway, Probe
<1>2. PICK i : i = Invocation(c)
  OBVIOUS
<1>3. /\ host.rules[i.fam][i.rule] = before.rules[i.fam][i.rule]
      /\ i \in Entry /\ i \in All(c) \ Behind(c) /\ before.rules[i.fam][i.rule] \in Nat
  BY <1>1, <1>2, RuleUp
<1>4. PICK denied \in SUBSET (Behind(c) \cap Doubtful(c)) :
         /\ host.rules = Installed(before.rules, Behind(c), denied)
         /\ before.rules[i.fam][i.rule] # 0 =>
               Installed(before.rules, Behind(c) \cup {i}, denied) = host.rules
  BY <1>1, <1>2, RuleUp
<1>5. CASE host.rules[i.fam][i.rule] > 0 /\ NextRule(c)
  <2>1. host'.rules = Installed(before.rules, Behind(c) \cup {i}, denied)
    BY <1>1, <1>3, <1>4, <1>5
  <2>2. denied \in SUBSET ((Behind(c) \cup {i}) \cap Doubtful(c))
    BY <1>4
  <2> QED BY <1>1, <1>2, <1>5, <2>1, <2>2, RuleDone
<1>6. CASE /\ Goto(c, "insert")
           /\ \/ host.rules[i.fam][i.rule] = 0
              \/ /\ "probe" \in Faults
                 /\ host.rules[i.fam][i.rule] < MaxCopies /\ i.rule.chain \in Doubted
  <2>1. call'[c] = [call[c] EXCEPT !.pc = "insert"]
    BY <1>1, <1>6 DEF Goto
  <2>2. /\ call'[c].pc = "insert" /\ call'[c].wg = call[c].wg /\ call'[c].v6 = call[c].v6
        /\ call'[c].gw = call[c].gw /\ call'[c].k = call[c].k
    BY <1>1, <2>1 DEF Call
  <2>3. InvocationsOf(c)' = InvocationsOf(c) /\ Invocation(c)' = i
    BY <1>2, <2>2 DEF InvocationsOf, Invocation
  <2>4. Behind(c)' = Behind(c) /\ All(c)' = All(c)
    BY <2>2, <2>3 DEF Behind, All
  <2>5. Doubtful(c)' = Doubtful(c)
    BY <2>4 DEF Doubtful
  <2>6. host.rules[i.fam][i.rule] = 0 \/ i \in Doubtful(c)
    BY <1>3, <1>6, MaxCopiesAssumption DEF Doubtful
  <2>7. Installing(c)'
    <3>1. \E was \in Snapshots(before.fwd, call'[c].v6, Faults) :
             host'.snap = [before.snap EXCEPT ![call'[c].wg] = was]
      BY <1>1, <2>2 DEF Installing
    <3>2. \E d \in SUBSET (Behind(c)' \cap Doubtful(c)') : host'.rules = Installed(before.rules, Behind(c)', d)
      BY <1>1, <1>4, <2>4, <2>5
    <3> QED BY <1>1, <2>3, <2>5, <2>6, <3>1, <3>2 DEF Installing
  <2>8. SwitchedOn(c)'
    BY <1>1, <2>2 DEF SwitchedOn
  <2> QED BY <2>2, <2>7, <2>8 DEF Underway, Looking, Noting, Deleting, Untouched, SwitchingOff
<1>7. CASE "iptables" \in Faults /\ Return(c)
  <2>1. PICK n : n = call[c].k - 1
    OBVIOUS
  <2>2. n \in 0..Len(InvocationsOf(c)) /\ Behind(c) = First(InvocationsOf(c), n)
    BY <1>1, <2>1, BehindFacts DEF Behind
  <2>3. denied \in SUBSET Doubtful(c) /\ host'.rules = Installed(before.rules, First(InvocationsOf(c), n), denied)
    BY <1>1, <1>4, <2>2
  <2>4. Applied(c)
    BY <1>1, <1>7, <2>2, <2>3, StopsAt
  <2> QED BY <1>7, <2>4, Returned
<1> QED BY <1>2, <1>5, <1>6, <1>7 DEF Probe

LEMMA InsertStep ==
    ASSUME PortInv, Single, NEW c \in Calls, Insert(c), before' = before
    PROVE  Underway(c)' /\ (call'[c].pc = "idle" => Applied(c))
<1>1. /\ TypeInv /\ call \in [Calls -> Call] /\ call[c] \in Call /\ host \in Host /\ before \in Host
      /\ SwitchedOn(c) /\ Installing(c) /\ call[c].pc = "insert"
  BY Alone DEF Underway, Insert
<1>2. PICK i : i = Invocation(c)
  OBVIOUS
<1>3. /\ host.rules[i.fam][i.rule] = before.rules[i.fam][i.rule]
      /\ i \in Entry /\ i \in All(c) \ Behind(c) /\ before.rules[i.fam][i.rule] \in Nat
  BY <1>1, <1>2, RuleUp
<1>4. PICK denied \in SUBSET (Behind(c) \cap Doubtful(c)) :
         /\ host.rules = Installed(before.rules, Behind(c), denied)
         /\ \A d \in {denied, denied \cup {i}} :
               before.rules[i.fam][i.rule] = 0 \/ i \in d =>
                  Installed(before.rules, Behind(c) \cup {i}, d) = With(host.rules, i, host.rules[i.fam][i.rule] + 1)
  BY <1>1, <1>2, RuleUp
<1>5. CASE host' = [host EXCEPT !.rules[i.fam][i.rule] = @ + 1] /\ NextRule(c)
  <2>1. /\ host'.fwd = host.fwd /\ host'.snap = host.snap
        /\ host'.rules = With(host.rules, i, host.rules[i.fam][i.rule] + 1)
    BY <1>1, <1>5 DEF Host, With
  <2>2. host' \in Host
    <3>1. host.rules[i.fam][i.rule] + 1 \in Nat
      BY <1>3
    <3> QED BY <1>1, <1>3, <1>5, <3>1, HostUpdates
  <2>3. PICK d : d = IF before.rules[i.fam][i.rule] = 0 THEN denied ELSE denied \cup {i}
    OBVIOUS
  <2>4. i \in Doubtful(c) \/ before.rules[i.fam][i.rule] = 0
    BY <1>1, <1>2, <1>3 DEF Installing
  <2>5. d \in SUBSET ((Behind(c) \cup {i}) \cap Doubtful(c))
    BY <1>4, <2>3, <2>4
  <2>6. host'.rules = Installed(before.rules, Behind(c) \cup {i}, d)
    BY <1>4, <2>1, <2>3
  <2> QED BY <1>1, <1>2, <1>5, <2>1, <2>2, <2>5, <2>6, RuleDone
<1>6. CASE "iptables" \in Faults /\ host' = host /\ Return(c)
  <2>1. PICK n : n = call[c].k - 1
    OBVIOUS
  <2>2. n \in 0..Len(InvocationsOf(c)) /\ Behind(c) = First(InvocationsOf(c), n)
    BY <1>1, <2>1, BehindFacts DEF Behind
  <2>3. denied \in SUBSET Doubtful(c) /\ host'.rules = Installed(before.rules, First(InvocationsOf(c), n), denied)
    BY <1>4, <1>6, <2>2
  <2>4. Applied(c)
    BY <1>1, <1>6, <2>2, <2>3, StopsAt
  <2> QED BY <1>6, <2>4, Returned
<1> QED BY <1>2, <1>5, <1>6 DEF Insert

LEMMA DeleteStep ==
    ASSUME PortInv, Single, NEW c \in Calls, Delete(c), before' = before
    PROVE  Underway(c)' /\ call'[c].pc # "idle"
<1>1. /\ TypeInv /\ call \in [Calls -> Call] /\ call[c] \in Call /\ host \in Host /\ before \in Host
      /\ Deleting(c) /\ Untouched(c) /\ call[c].pc = "delete" /\ call[c].fam = "v4"
      /\ before.rules \in [Fams -> [Rule -> Nat]]
  BY Alone DEF Underway, Delete, Host
<1>2. PICK i : i = Invocation(c)
  OBVIOUS
<1>3. /\ i \in All(c) \ Behind(c) /\ i \in Entry /\ All(c) \subseteq Entry
      /\ LastInvocation(c) => All(c) = Behind(c) \cup {i}
  BY <1>1, <1>2, BehindFacts
<1>4. PICK del \in SUBSET Behind(c) : /\ "iptables" \in Faults \/ del = Behind(c)
                                      /\ host.rules = remove_rules(before.rules, del)
  BY <1>1 DEF Deleting, Gone
<1>5. /\ host'.fwd = host.fwd /\ host'.snap = host.snap
      /\ \/ host'.rules = With(host.rules, i, IF host.rules[i.fam][i.rule] > 0
                                              THEN host.rules[i.fam][i.rule] - 1 ELSE 0)
         \/ "iptables" \in Faults /\ host'.rules = host.rules
  BY <1>1, <1>2 DEF Delete, Host, With
<1>6. \E d \in SUBSET (Behind(c) \cup {i}) :
         /\ "iptables" \in Faults \/ d = Behind(c) \cup {i}
         /\ host'.rules = remove_rules(before.rules, d)
  <2>1. i \in Entry \ del
    BY <1>3, <1>4
  <2>2. remove_rules(before.rules, del \cup {i}) =
           With(host.rules, i, IF host.rules[i.fam][i.rule] > 0 THEN host.rules[i.fam][i.rule] - 1 ELSE 0)
    BY <1>1, <1>4, <2>1, RemoveOne
  <2>3. CASE host'.rules = remove_rules(before.rules, del \cup {i})
    BY <1>4, <2>3
  <2>4. CASE "iptables" \in Faults /\ host'.rules = host.rules
    BY <1>4, <2>4
  <2> QED BY <1>5, <2>2, <2>3, <2>4
<1>7. host'.fwd = before'.fwd /\ host'.snap = before'.snap
  BY <1>1, <1>5 DEF Untouched
<1>8. CASE LastInvocation(c) /\ Goto(c, "restore")
  <2>1. /\ call'[c].pc = "restore" /\ call'[c].wg = call[c].wg /\ call'[c].v6 = call[c].v6
        /\ call'[c].gw = call[c].gw /\ call'[c].fam = "v4"
    BY <1>1, <1>8 DEF Goto, Call
  <2>2. Gone(c)' = Behind(c) \cup {i}
    BY <1>3, <1>8, <2>1 DEF Gone, All, InvocationsOf
  <2>3. Deleting(c)'
    BY <1>6, <2>2 DEF Deleting
  <2> QED BY <1>7, <2>1, <2>3 DEF Underway, Looking, SwitchedOn, Noting, Installing, Untouched, SwitchingOff
<1>9. CASE ~LastInvocation(c) /\ call' = [call EXCEPT ![c].k = @ + 1]
  <2>1. call'[c].pc = "delete"
    BY <1>1, <1>9 DEF Call
  <2>2. Behind(c)' = Behind(c) \cup {i} /\ call'[c].fam = "v4"
    BY <1>1, <1>2, <1>9, OneBehind
  <2>3. Gone(c)' = Behind(c) \cup {i}
    BY <2>1, <2>2 DEF Gone
  <2>4. Deleting(c)'
    BY <1>6, <2>3 DEF Deleting
  <2> QED BY <1>7, <2>1, <2>2, <2>4 DEF Underway, Looking, SwitchedOn, Noting, Installing, Untouched, SwitchingOff
<1> QED BY <1>8, <1>9 DEF Delete

(* The host after remove, from what has been deleted and switched off. *)
LEMMA RemovedHost ==
    ASSUME NEW h \in Host, NEW x \in Host, NEW wg \in Wgs, NEW del, NEW off,
           x.rules = remove_rules(h.rules, del), x.snap = [h.snap EXCEPT ![wg] = NoSnap],
           \A f \in Fams : x.fwd[f] = (h.fwd[f] /\ f \notin off)
    PROVE  x = AfterRemove(h, wg, del, off)
<1>1. x = [fwd |-> x.fwd, rules |-> x.rules, snap |-> x.snap]
  BY DEF Host
<1>2. x.fwd = [f \in Fams |-> h.fwd[f] /\ f \notin off]
  <2>1. x.fwd \in [Fams -> BOOLEAN]
    BY DEF Host
  <2> QED BY <2>1
<1> QED BY <1>1, <1>2, Zenon DEF AfterRemove

LEMMA TakeStep ==
    ASSUME PortInv, Single, NEW c \in Calls, TakeSnapshot(c), before' = before
    PROVE  Underway(c)' /\ (call'[c].pc = "idle" => Removed(c))
<1>1. /\ TypeInv /\ call \in [Calls -> Call] /\ call[c] \in Call /\ host \in Host /\ before \in Host
      /\ Deleting(c) /\ Untouched(c) /\ call[c].pc = "restore" /\ call[c].fam = "v4"
      /\ call[c].wg \in Wgs
  BY Alone DEF Underway, TakeSnapshot, Call
<1>2. host.fwd = before.fwd /\ host.snap = before.snap
  BY <1>1 DEF Untouched
<1>3. PICK del \in SUBSET All(c) : /\ "iptables" \in Faults \/ del = All(c)
                                   /\ host.rules = remove_rules(before.rules, del)
  BY <1>1 DEF Deleting, Gone
<1>4. CASE host.snap[call[c].wg] = NoSnap /\ Return(c) /\ UNCHANGED host
  <2>1. before.snap = [before.snap EXCEPT ![call[c].wg] = NoSnap]
    BY <1>1, <1>2, <1>4 DEF Host
  <2>2. \A f \in Fams : host.fwd[f] = (before.fwd[f] /\ f \notin {})
    BY <1>1, <1>2 DEF Host
  <2>3. host = AfterRemove(before, call[c].wg, del, {})
    <3>1. PICK none : none = {}
      OBVIOUS
    <3>2. /\ host.rules = remove_rules(before.rules, del)
          /\ host.snap = [before.snap EXCEPT ![call[c].wg] = NoSnap]
          /\ \A f \in Fams : host.fwd[f] = (before.fwd[f] /\ f \notin none)
      BY <1>2, <1>3, <2>1, <2>2, <3>1
    <3>3. host = AfterRemove(before, call[c].wg, del, none)
      BY <1>1, <3>2, RemovedHost
    <3> QED BY <3>1, <3>3
  <2>4. ToSwitch(before, call[c].wg, call[c].v6) = {}
    BY <1>2, <1>4 DEF ToSwitch
  <2>5. AfterRemove(before, call[c].wg, del, {})
           \in RemoveOutcomes(before, call[c].wg, call[c].gw, call[c].v6, Faults)
    <3>1. PICK all : all = All(c)
      OBVIOUS
    <3>2. all = Range(Invocations(call[c].wg, call[c].gw, call[c].v6))
      BY <3>1 DEF All, InvocationsOf
    <3> QED BY <1>3, <2>4, <3>1, <3>2, RemoveReaches
  <2> QED BY <1>4, <2>3, <2>5, Returned DEF Removed
<1>5. CASE /\ host.snap[call[c].wg] # NoSnap
           /\ call' = [call EXCEPT ![c].was = host.snap[call[c].wg], ![c].pc = "off"]
           /\ host' = [host EXCEPT !.snap[call[c].wg] = NoSnap]
  <2>1. /\ call'[c].pc = "off" /\ call'[c].wg = call[c].wg /\ call'[c].v6 = call[c].v6
        /\ call'[c].gw = call[c].gw /\ call'[c].fam = "v4" /\ call'[c].was = host.snap[call[c].wg]
    BY <1>1, <1>5 DEF Call
  <2>2. host'.fwd = host.fwd /\ host'.rules = host.rules /\ host'.snap = [host.snap EXCEPT ![call[c].wg] = NoSnap]
    BY <1>1, <1>5 DEF Host
  <2>3. Gone(c)' = All(c)
    BY <2>1 DEF Gone, All, InvocationsOf
  <2>4. Deleting(c)'
    BY <1>3, <2>2, <2>3 DEF Deleting
  <2>5. SwitchingOff(c)'
    <3>1. Passed(c)' = {}
      BY <2>1 DEF Passed
    <3>2. host'.fwd = [f \in Fams |-> before.fwd[f] /\ f \notin {}]
      BY <1>1, <1>2, <2>2 DEF Host
    <3>3. \E off \in SUBSET Passed(c)' : /\ "sysctl" \in Faults \/ off = Passed(c)'
                                         /\ host'.fwd = [f \in Fams |-> before'.fwd[f] /\ f \notin off]
      <4>1. PICK none : none = {}
        OBVIOUS
      <4>2. none \in SUBSET Passed(c)' /\ none = Passed(c)'
            /\ host'.fwd = [f \in Fams |-> before.fwd[f] /\ f \notin none]
        BY <3>1, <3>2, <4>1
      <4>3. host'.fwd = [f \in Fams |-> before'.fwd[f] /\ f \notin none]
        BY <4>2
      <4> QED BY <4>2, <4>3, Zenon
    <3>4. /\ before'.snap[call'[c].wg] # NoSnap /\ call'[c].was = before'.snap[call'[c].wg]
          /\ host'.snap = [before'.snap EXCEPT ![call'[c].wg] = NoSnap]
      BY <1>2, <1>5, <2>1, <2>2
    <3> QED BY <3>3, <3>4, Zenon DEF SwitchingOff
  <2> QED BY <2>1, <2>4, <2>5 DEF Underway, Looking, SwitchedOn, Noting, Installing, Untouched
<1> QED BY <1>4, <1>5 DEF TakeSnapshot

LEMMA OffStep ==
    ASSUME PortInv, Single, NEW c \in Calls, TurnOff(c), before' = before
    PROVE  Underway(c)' /\ (call'[c].pc = "idle" => Removed(c))
<1>1. /\ TypeInv /\ call \in [Calls -> Call] /\ call[c] \in Call /\ host \in Host /\ before \in Host
      /\ Deleting(c) /\ SwitchingOff(c) /\ call[c].pc = "off" /\ call[c].fam \in {"v4", "v6"}
      /\ call[c].wg \in Wgs /\ call[c].v6 \in BOOLEAN /\ before.fwd \in [Fams -> BOOLEAN]
      /\ call[c].was \in [Fams -> BOOLEAN]
  BY Alone DEF Underway, TurnOff, Call, Fams, Host, ForwardSnapshot
<1>2. /\ before.snap[call[c].wg] # NoSnap /\ call[c].was = before.snap[call[c].wg]
      /\ host.snap = [before.snap EXCEPT ![call[c].wg] = NoSnap]
  BY <1>1 DEF SwitchingOff
<1>3. PICK del \in SUBSET All(c) : /\ "iptables" \in Faults \/ del = All(c)
                                   /\ host.rules = remove_rules(before.rules, del)
  BY <1>1 DEF Deleting, Gone
<1>4. PICK off \in SUBSET Passed(c) : /\ "sysctl" \in Faults \/ off = Passed(c)
                                      /\ \A f \in Fams : host.fwd[f] = (before.fwd[f] /\ f \notin off)
  <2>1. PICK x \in SUBSET Passed(c) : /\ "sysctl" \in Faults \/ x = Passed(c)
                                      /\ host.fwd = [f \in Fams |-> before.fwd[f] /\ f \notin x]
    BY <1>1 DEF SwitchingOff
  <2> QED BY <2>1
<1>5. PICK f \in Fams : f = call[c].fam
  BY <1>1 DEF Fams
<1>6. PICK now : now = (Covers(call[c].v6, f) /\ ~call[c].was[f])
  OBVIOUS
<1>7. now \in BOOLEAN
  BY <1>6
<1>8. f \notin off
  BY <1>4, <1>5 DEF Passed
<1>9. \E done \in SUBSET {g \in {f} : now} :
         /\ "sysctl" \in Faults \/ done = {g \in {f} : now}
         /\ \A g \in Fams : host'.fwd[g] = (before.fwd[g] /\ g \notin off \cup done)
         /\ host'.rules = host.rules /\ host'.snap = host.snap /\ host' \in Host
  <2>1. CASE host' = [host EXCEPT !.fwd[f] = @ /\ ~now]
    <3>1. host'.rules = host.rules /\ host'.snap = host.snap
          /\ host'.fwd = [host.fwd EXCEPT ![f] = host.fwd[f] /\ ~now]
      BY <1>1, <2>1 DEF Host
    <3>2. host' \in Host
      <4>1. (host.fwd[f] /\ ~now) \in BOOLEAN
        OBVIOUS
      <4> QED BY <1>1, <2>1, <4>1, HostUpdates
    <3>3. \A g \in Fams : host'.fwd[g] = (before.fwd[g] /\ g \notin off \cup {x \in {f} : now})
      <4> SUFFICES ASSUME NEW g \in Fams
                   PROVE  host'.fwd[g] = (before.fwd[g] /\ g \notin off \cup {x \in {f} : now})
        OBVIOUS
      <4>1. host.fwd \in [Fams -> BOOLEAN]
        BY <1>1 DEF Host
      <4>2. CASE g = f
        BY <1>1, <1>4, <1>7, <1>8, <3>1, <4>1, <4>2
      <4>3. CASE g # f
        BY <1>4, <3>1, <4>1, <4>3
      <4> QED BY <4>2, <4>3
    <3> QED BY <3>1, <3>2, <3>3
  <2>2. CASE now /\ "sysctl" \in Faults /\ host' = host
    <3>1. off \cup {} = off
      OBVIOUS
    <3> QED BY <1>1, <1>4, <2>2, <3>1
  <2> QED BY <1>5, <1>6, <2>1, <2>2 DEF TurnOff
<1>10. PICK done \in SUBSET {g \in {f} : now} :
         /\ "sysctl" \in Faults \/ done = {g \in {f} : now}
         /\ \A g \in Fams : host'.fwd[g] = (before.fwd[g] /\ g \notin off \cup done)
         /\ host'.rules = host.rules /\ host'.snap = host.snap /\ host' \in Host
  BY <1>9
<1>11. CASE call[c].fam = "v4" /\ call' = [call EXCEPT ![c].fam = "v6"]
  <2>1. /\ call'[c].pc = "off" /\ call'[c].wg = call[c].wg /\ call'[c].v6 = call[c].v6
        /\ call'[c].gw = call[c].gw /\ call'[c].fam = "v6" /\ call'[c].was = call[c].was
    BY <1>1, <1>11 DEF Call
  <2>2. Gone(c)' = All(c)
    BY <2>1 DEF Gone, All, InvocationsOf
  <2>3. Deleting(c)'
    BY <1>3, <1>10, <2>2 DEF Deleting
  <2>4. off = {} /\ now = ~call[c].was["v4"] /\ f = "v4"
    BY <1>1, <1>4, <1>5, <1>6, <1>11 DEF Passed, Covers
  <2>5. Passed(c)' = {g \in {f} : now}
    BY <1>1, <2>1, <2>4 DEF Passed, Fams
  <2>6. host'.fwd = [g \in Fams |-> before.fwd[g] /\ g \notin done]
    <3>1. \A g \in Fams : host'.fwd[g] = (before.fwd[g] /\ g \notin done)
      BY <1>10, <2>4
    <3>2. host'.fwd \in [Fams -> BOOLEAN]
      BY <1>10 DEF Host
    <3> QED BY <3>1, <3>2
  <2>7. SwitchingOff(c)'
    BY <1>2, <1>10, <2>1, <2>5, <2>6 DEF SwitchingOff
  <2> QED BY <2>1, <2>3, <2>7 DEF Underway, Looking, SwitchedOn, Noting, Installing, Untouched
<1>12. CASE call[c].fam = "v6" /\ Return(c)
  <2>1. f = "v6"
    BY <1>5, <1>12
  <2>2. ToSwitch(before, call[c].wg, call[c].v6) = Passed(c) \cup {g \in {f} : now}
    <3>1. ToSwitch(before, call[c].wg, call[c].v6) = {g \in Fams : Covers(call[c].v6, g) /\ ~call[c].was[g]}
      BY <1>2 DEF ToSwitch
    <3> QED BY <1>1, <1>6, <1>12, <2>1, <3>1 DEF Passed, Covers, Fams
  <2>3. PICK both : both = off \cup done
    OBVIOUS
  <2>4. /\ both \in SUBSET ToSwitch(before, call[c].wg, call[c].v6)
        /\ "sysctl" \in Faults \/ both = ToSwitch(before, call[c].wg, call[c].v6)
    BY <1>4, <1>10, <2>2, <2>3
  <2>5. host' = AfterRemove(before, call[c].wg, del, both)
    BY <1>1, <1>2, <1>3, <1>10, <2>3, RemovedHost
  <2>6. AfterRemove(before, call[c].wg, del, both)
           \in RemoveOutcomes(before, call[c].wg, call[c].gw, call[c].v6, Faults)
    <3>1. PICK all : all = All(c)
      OBVIOUS
    <3>2. all = Range(Invocations(call[c].wg, call[c].gw, call[c].v6))
      BY <3>1 DEF All, InvocationsOf
    <3> QED BY <1>3, <2>4, <3>1, <3>2, RemoveReaches
  <2> QED BY <1>12, <2>5, <2>6, Returned DEF Removed
<1> QED BY <1>1, <1>11, <1>12 DEF TurnOff

(* A crash in the middle of a call leaves what some failure of the call could have left. *)
LEMMA CrashStep ==
    ASSUME PortInv, Single, NEW c \in Calls, call[c].pc # "idle"
    PROVE  Forgotten(host) \in CrashOutcomes(before)
<1>1. /\ TypeInv /\ call \in [Calls -> Call] /\ call[c] \in Call /\ host \in Host /\ before \in Host /\ Underway(c)
      /\ call[c].pc \in Pcs
  BY Alone DEF Call
<1>2. PICK wg \in Wgs, gw \in Gateways, v6 \in BOOLEAN :
         wg = call[c].wg /\ gw = call[c].gw /\ v6 = call[c].v6
  BY <1>1 DEF Call
<1>3. PICK inv : inv = InvocationsOf(c)
  OBVIOUS
<1>4. inv = Invocations(wg, gw, v6)
  BY <1>2, <1>3 DEF InvocationsOf
<1>5. NatFaults = {"read", "sysctl", "iptables", "probe"}
  BY DEF NatFaults
<1>6. ASSUME NEW x, Forgotten(host) = Forgotten(x), CanApply(before, wg, gw, v6, NatFaults, x)
      PROVE  Forgotten(host) \in CrashOutcomes(before)
  <2>1. PICK o \in ApplyOutcomes(before, wg, gw, v6, NatFaults) : o.host = x
    BY <1>6 DEF CanApply
  <2>2. Forgotten(o.host) \in CrashOutcomes(before)
    BY CrashReaches
  <2> QED BY <1>6, <2>1, <2>2
<1>7. ASSUME NEW n \in 0..Len(inv), NEW denied \in SUBSET Doubtful(c),
             host.fwd = ForwardingOn(before.fwd, v6), host.rules = Installed(before.rules, First(inv, n), denied)
      PROVE  Forgotten(host) \in CrashOutcomes(before)
  <2>1. denied = {} \/ ("probe" \in NatFaults /\ denied \subseteq Deniable(before.rules, inv))
    BY <1>3, <1>5 DEF Doubtful, Deniable, All
  <2>w. PICK was \in Snapshots(before.fwd, v6, NatFaults) : TRUE
    BY <1>1, SnapshotsAre DEF Host
  <2>2. PICK x : x = AfterApply(before, wg, v6, First(inv, n), denied, was)
    OBVIOUS
  <2>3. "iptables" \in NatFaults
    BY <1>5
  <2>4. CanApply(before, wg, gw, v6, NatFaults, x)
    BY <1>4, <2>1, <2>2, <2>3, ApplyReaches
  <2>5. Forgotten(host) = Forgotten(x)
    <3>1. x.fwd = host.fwd /\ x.rules = host.rules
      BY <1>7, <2>2 DEF AfterApply
    <3>2. x = [fwd |-> x.fwd, rules |-> x.rules, snap |-> x.snap]
      BY <2>2 DEF AfterApply
    <3> QED BY <1>1, <3>1, <3>2 DEF Forgotten, Host
  <2> QED BY <1>6, <2>4, <2>5
<1>8. ASSUME NEW del \in SUBSET All(c), NEW off \in SUBSET ToSwitch(before, wg, v6),
             host.rules = remove_rules(before.rules, del),
             \A f \in Fams : host.fwd[f] = (before.fwd[f] /\ f \notin off)
      PROVE  Forgotten(host) \in CrashOutcomes(before)
  <2>1. PICK all : all = All(c)
    OBVIOUS
  <2>2. all = Range(Invocations(wg, gw, v6)) /\ "iptables" \in NatFaults /\ "sysctl" \in NatFaults
    BY <1>3, <1>4, <1>5, <2>1 DEF All
  <2>3. PICK x : x = AfterRemove(before, wg, del, off)
    OBVIOUS
  <2>4. x \in RemoveOutcomes(before, wg, gw, v6, NatFaults)
    BY <1>8, <2>1, <2>2, <2>3, RemoveReaches
  <2>5. Forgotten(host) = Forgotten(x)
    <3>1. host.fwd = [f \in Fams |-> before.fwd[f] /\ f \notin off]
      <4>1. host.fwd \in [Fams -> BOOLEAN]
        BY <1>1 DEF Host
      <4> QED BY <1>8, <4>1
    <3>2. x.fwd = host.fwd /\ x.rules = host.rules
      BY <1>8, <2>3, <3>1 DEF AfterRemove
    <3>3. x = [fwd |-> x.fwd, rules |-> x.rules, snap |-> x.snap]
      BY <2>3 DEF AfterRemove
    <3> QED BY <1>1, <3>2, <3>3 DEF Forgotten, Host
  <2>6. Forgotten(x) \in CrashOutcomes(before)
    BY <2>4, CrashReaches
  <2> QED BY <2>5, <2>6
<1>9. CASE call[c].pc \in {"read", "write"}
  <2>1. Looking(c) /\ call[c].fam \in {"v4", "v6"} /\ before.fwd \in [Fams -> BOOLEAN]
    BY <1>1 DEF Underway, Call, Fams, Host
  <2>2. CASE host = before
    <3>1. Forgotten(before) \in CrashOutcomes(before)
      BY <1>2, CrashReaches
    <3> QED BY <2>2, <3>1
  <2>3. CASE host = [before EXCEPT !.fwd["v4"] = TRUE] /\ v6
    <3>1. CASE before.fwd["v6"]
      <4>1. host.fwd = ForwardingOn(before.fwd, v6)
        <5>1. host.fwd = [before.fwd EXCEPT !["v4"] = TRUE]
          BY <1>1, <2>3 DEF Host
        <5>2. \A f \in Fams : host.fwd[f] = TRUE
          BY <2>1, <3>1, <5>1 DEF Fams
        <5>3. \A f \in Fams : ForwardingOn(before.fwd, v6)[f] = TRUE
          BY <2>3 DEF ForwardingOn, Covers, Fams
        <5>4. host.fwd \in [Fams -> BOOLEAN] /\ ForwardingOn(before.fwd, v6) \in [Fams -> BOOLEAN]
          BY <1>1, <2>1 DEF Host, ForwardingOn, Covers
        <5> QED BY <5>2, <5>3, <5>4
      <4>2. host.rules = Installed(before.rules, First(inv, 0), {})
        <5>1. First(inv, 0) = {} /\ host.rules = before.rules /\ before.rules \in [Fams -> [Rule -> Nat]]
          BY <1>1, <2>3 DEF First, Host
        <5> QED BY <5>1, NothingMade
      <4>3. PICK n, none : n = 0 /\ none = {}
        OBVIOUS
      <4>4. n \in 0..Len(inv) /\ none \in SUBSET Doubtful(c)
        BY <1>4, <4>3, InvocationsType
      <4> QED BY <1>7, <4>1, <4>2, <4>3, <4>4
    <3>2. CASE ~before.fwd["v6"]
      <4>1. /\ ~SnapshotOf(before.fwd, v6)["v6"]
            /\ SnapshotOf(before.fwd, v6) \in Snapshots(before.fwd, v6, NatFaults)
        BY <2>1, <2>3, <3>2, SnapshotsAre DEF SnapshotOf, Covers, Fams
      <4>2. "sysctl" \in NatFaults
        BY <1>5
      <4>3. CanApply(before, wg, gw, v6, NatFaults, HalfOn(before))
        BY <2>1, <4>1, <4>2, ApplyFails
      <4>4. host = HalfOn(before)
        BY <2>3 DEF HalfOn
      <4> QED BY <1>6, <4>3, <4>4
    <3> QED BY <3>1, <3>2
  <2> QED BY <1>2, <1>9, <2>1, <2>2, <2>3 DEF Looking
<1>10. CASE call[c].pc = "snapshot"
  <2>1. SwitchedOn(c) /\ Noting(c)
    BY <1>1 DEF Underway
  <2>2. host.fwd = ForwardingOn(before.fwd, v6) /\ host.rules = before.rules
    BY <1>2, <1>10, <2>1 DEF SwitchedOn, Noting
  <2>3. host.rules = Installed(before.rules, First(inv, 0), {})
    <3>1. First(inv, 0) = {} /\ before.rules \in [Fams -> [Rule -> Nat]]
      BY <1>1 DEF First, Host
    <3> QED BY <2>2, <3>1, NothingMade
  <2>4. PICK n, none : n = 0 /\ none = {}
    OBVIOUS
  <2>5. n \in 0..Len(inv) /\ none \in SUBSET Doubtful(c)
    BY <1>4, <2>4, InvocationsType
  <2> QED BY <1>7, <2>2, <2>3, <2>4, <2>5
<1>11. CASE call[c].pc \in {"probe", "insert"}
  <2>1. SwitchedOn(c) /\ Installing(c)
    BY <1>1 DEF Underway
  <2>2. host.fwd = ForwardingOn(before.fwd, v6)
    BY <1>2, <1>11, <2>1 DEF SwitchedOn
  <2>3. PICK denied \in SUBSET (Behind(c) \cap Doubtful(c)) : host.rules = Installed(before.rules, Behind(c), denied)
    BY <1>11, <2>1 DEF Installing
  <2>4. PICK n : n = call[c].k - 1
    OBVIOUS
  <2>5. n \in 0..Len(inv) /\ Behind(c) = First(inv, n)
    BY <1>1, <1>3, <2>4, BehindFacts DEF Behind
  <2> QED BY <1>7, <2>2, <2>3, <2>5
<1>12. CASE call[c].pc \in {"delete", "restore"}
  <2>1. Deleting(c) /\ Untouched(c)
    BY <1>1 DEF Underway
  <2>2. PICK del \in SUBSET Gone(c) : host.rules = remove_rules(before.rules, del)
    BY <1>12, <2>1 DEF Deleting
  <2>3. del \in SUBSET All(c)
    BY <1>1, <2>2, BehindFacts DEF Gone
  <2>4. PICK none : none = {}
    OBVIOUS
  <2>5. none \in SUBSET ToSwitch(before, wg, v6) /\ \A f \in Fams : host.fwd[f] = (before.fwd[f] /\ f \notin none)
    BY <1>1, <1>12, <2>1, <2>4 DEF Untouched, Host
  <2> QED BY <1>8, <2>2, <2>3, <2>5
<1>13. CASE call[c].pc = "off"
  <2>1. Deleting(c) /\ SwitchingOff(c)
    BY <1>1 DEF Underway
  <2>2. PICK del \in SUBSET All(c) : host.rules = remove_rules(before.rules, del)
    BY <1>13, <2>1 DEF Deleting, Gone
  <2>3. PICK off \in SUBSET Passed(c) : host.fwd = [f \in Fams |-> before.fwd[f] /\ f \notin off]
    BY <1>13, <2>1 DEF SwitchingOff
  <2>4. Passed(c) \subseteq ToSwitch(before, wg, v6)
    BY <1>2, <1>13, <2>1 DEF SwitchingOff, Passed, ToSwitch, Covers, Fams
  <2>5. off \in SUBSET ToSwitch(before, wg, v6) /\ \A f \in Fams : host.fwd[f] = (before.fwd[f] /\ f \notin off)
    BY <2>3, <2>4
  <2> QED BY <1>8, <2>2, <2>5
<1> QED BY <1>1, <1>9, <1>10, <1>11, <1>12, <1>13 DEF Pcs

(* A step of the thread leaves it where the port's outcomes say it may stop, and a call that *)
(* returns is one of the port's calls. *)
LEMMA CallStep ==
    ASSUME PortInv, Single, NEW c \in Calls, Step(c), before' = before
    PROVE  Underway(c)' /\ (call'[c].pc = "idle" => Applied(c) \/ Removed(c))
<1>1. CASE read_forward(c) \/ InsertSnapshot(c) \/ Delete(c)
  BY <1>1, ReadStep, SnapshotStep, DeleteStep
<1>2. CASE write_forward(c) \/ Probe(c) \/ Insert(c)
  BY <1>2, WriteStep, ProbeStep, InsertStep
<1>3. CASE TakeSnapshot(c) \/ TurnOff(c)
  BY <1>3, TakeStep, OffStep
<1> QED BY <1>1, <1>2, <1>3 DEF Step

LEMMA BeginStep ==
    ASSUME PortInv, Single, NEW c \in Calls, BeginApply(c) \/ BeginRemove(c), before' = host
    PROVE  Underway(c)' /\ call'[c].pc # "idle" /\ host' = host
<1>1. /\ TypeInv /\ call \in [Calls -> Call] /\ call[c] \in Call /\ host \in Host
  BY Alone
<1>2. PICK wg \in Wgs, gw \in Gateways, v6 \in Families, pc \in {"read", "delete"} :
         Begin(c, pc, wg, gw, v6)
  BY DEF BeginApply, BeginRemove
<1>3. /\ call'[c] = [Idle(wg, gw) EXCEPT !.pc = pc, !.v6 = v6] /\ host' = host
  BY <1>1, <1>2 DEF Begin
<1>4. /\ call'[c].pc = pc /\ call'[c].fam = "v4" /\ call'[c].was = AllOn /\ call'[c].k = 1
  BY <1>3 DEF Idle
<1>5. "v4" \in Fams /\ "v6" \in Fams
  BY DEF Fams
<1>6. CASE pc = "read"
  <2>1. Looking(c)'
    BY <1>3, <1>4, <1>5, <1>6 DEF Looking, AllOn
  <2> QED BY <1>3, <1>4, <1>6, <2>1 DEF Underway, SwitchedOn, Noting, Installing, Deleting, Untouched, SwitchingOff
<1>7. CASE pc = "delete"
  <2>1. Gone(c)' = {}
    <3>1. Gone(c)' = First(InvocationsOf(c)', 0)
      BY <1>4, <1>7 DEF Gone, Behind
    <3> QED BY <3>1 DEF First
  <2>2. host'.rules = remove_rules(before'.rules, {})
    BY <1>1, <1>3, NothingMade DEF Host
  <2>3. Deleting(c)'
    <3>1. PICK none : none = {}
      OBVIOUS
    <3>2. none \in SUBSET Gone(c)' /\ none = Gone(c)' /\ host'.rules = remove_rules(before'.rules, none)
      BY <2>1, <2>2, <3>1
    <3> QED BY <3>2 DEF Deleting
  <2>4. Untouched(c)'
    BY <1>3 DEF Untouched
  <2> QED BY <1>3, <1>4, <1>7, <2>3, <2>4 DEF Underway, Looking, SwitchedOn, Noting, Installing, SwitchingOff
<1> QED BY <1>3, <1>4, <1>6, <1>7

LEMMA PortInitial == HInit => PortInv
<1> SUFFICES ASSUME HInit PROVE PortInv
  OBVIOUS
<1>1. TypeInv /\ host \in Host /\ before = host
  BY InitType DEF HInit, TypeInv, TypeOK
<1>2. \A c \in Calls : call[c].pc = "idle"
  BY DEF HInit, Init, SomeIdle, Idle
<1>3. \A c \in Calls : Underway(c)
  BY <1>2 DEF Underway, Looking, SwitchedOn, Noting, Installing, Deleting, Untouched, SwitchingOff
<1> QED BY <1>1, <1>3 DEF PortInv

\* The variable of the port, as the adapter implements it.
Seen == IF Quiet THEN host ELSE before

\* One call of the port, or a crash.
PortCall ==
    \/ \E wg \in Wgs, gw \in Gateways, v6 \in BOOLEAN :
          \/ CanApply(Seen, wg, gw, v6, Faults, Seen')
          \/ Seen' \in RemoveOutcomes(Seen, wg, gw, v6, Faults)
    \/ Seen' \in CrashOutcomes(Seen)

(* Every step of the adapter is one of the port, or nothing that the port shows. *)
LEMMA PortStep ==
    ASSUME Single, PortInv, [HNext]_<<vars, before>>
    PROVE  PortInv' /\ (PortCall \/ Seen' = Seen)
<1>1. TypeInv /\ TypeInv' /\ host \in Host /\ before \in Host /\ call \in [Calls -> Call]
  <2>1. [Next]_vars
    BY DEF HNext, vars
  <2> QED BY <2>1, NextType DEF PortInv, TypeInv, TypeOK
<1>2. ASSUME NEW c \in Calls, BeginApply(c) \/ BeginRemove(c), HNext
      PROVE  PortInv' /\ Seen' = Seen
  <2>1. \A d \in Calls : d = c
    BY DEF Single
  <2>2. Quiet
    <3>1. call[c].pc = "idle"
      BY <1>2 DEF BeginApply, BeginRemove, Begin
    <3> QED BY <2>1, <3>1 DEF Quiet
  <2>3. before' = host
    BY <1>2, <2>2 DEF HNext
  <2>4. Underway(c)' /\ call'[c].pc # "idle" /\ host' = host
    BY <1>2, <2>3, BeginStep
  <2>5. ~Quiet'
    BY <2>4 DEF Quiet
  <2>6. PortInv'
    BY <1>1, <2>1, <2>3, <2>4 DEF PortInv
  <2> QED BY <2>2, <2>3, <2>5, <2>6 DEF Seen
<1>3. ASSUME NEW c \in Calls, Step(c), HNext
      PROVE  PortInv' /\ (PortCall \/ Seen' = Seen)
  <2>1. \A d \in Calls : d = c
    BY DEF Single
  <2>2. call[c].pc # "idle"
    BY <1>3 DEF Step, read_forward, write_forward, InsertSnapshot, Probe, Insert, Delete, TakeSnapshot, TurnOff
  <2>3. ~Quiet
    BY <2>2 DEF Quiet
  <2>4. before' = before
    BY <1>3, <2>3 DEF HNext
  <2>5. Underway(c)' /\ (call'[c].pc = "idle" => Applied(c) \/ Removed(c))
    BY <1>3, <2>4, CallStep
  <2>6. PortInv'
    BY <1>1, <2>1, <2>4, <2>5 DEF PortInv
  <2>7. CASE call'[c].pc = "idle"
    <3>1. Quiet'
      BY <2>1, <2>7 DEF Quiet
    <3>2. Seen = before /\ Seen' = host'
      BY <2>3, <3>1 DEF Seen
    <3>3. call[c].wg \in Wgs /\ call[c].gw \in Gateways /\ call[c].v6 \in BOOLEAN
      BY <1>1 DEF Call
    <3>4. \/ CanApply(Seen, call[c].wg, call[c].gw, call[c].v6, Faults, Seen')
          \/ Seen' \in RemoveOutcomes(Seen, call[c].wg, call[c].gw, call[c].v6, Faults)
      BY <2>5, <2>7, <3>2 DEF Applied, Removed
    <3> QED BY <2>6, <3>3, <3>4 DEF PortCall
  <2>8. CASE call'[c].pc # "idle"
    BY <2>3, <2>4, <2>6, <2>8 DEF Seen, Quiet
  <2> QED BY <2>7, <2>8
<1>4. ASSUME Restart, HNext
      PROVE  PortInv' /\ PortCall
  <2>1. \A c \in Calls : call'[c].pc = "idle"
    BY <1>4 DEF Restart, SomeIdle, Idle
  <2>2. before' \in Host
    BY <1>1, <1>4 DEF HNext
  <2>3. \A c \in Calls : Underway(c)'
    BY <2>1 DEF Underway, Looking, SwitchedOn, Noting, Installing, Deleting, Untouched, SwitchingOff
  <2>4. PortInv'
    BY <1>1, <2>2, <2>3 DEF PortInv
  <2>5. Seen' = Forgotten(host)
    BY <1>4, <2>1 DEF Seen, Quiet, Restart
  <2>6. Forgotten(host) \in CrashOutcomes(Seen)
    <3>1. CASE Quiet
      <4>1. PICK wg \in Wgs, gw \in Gateways, v6 \in BOOLEAN : TRUE
        BY NamesAssumption
      <4>2. Forgotten(host) \in CrashOutcomes(host)
        BY <4>1, CrashReaches
      <4> QED BY <3>1, <4>2 DEF Seen
    <3>2. CASE ~Quiet
      <4>1. PICK c \in Calls : call[c].pc # "idle"
        BY <3>2 DEF Quiet
      <4>2. Forgotten(host) \in CrashOutcomes(before)
        BY <4>1, CrashStep
      <4> QED BY <3>2, <4>2 DEF Seen
    <3> QED BY <3>1, <3>2
  <2> QED BY <2>4, <2>5, <2>6 DEF PortCall
<1>5. CASE UNCHANGED <<vars, before>>
  <2>1. host' = host /\ call' = call /\ before' = before
    BY <1>5 DEF vars
  <2>2. \A c \in Calls : Underway(c) => Underway(c)'
    <3> SUFFICES ASSUME NEW c \in Calls, Underway(c) PROVE Underway(c)'
      OBVIOUS
    <3>1. /\ InvocationsOf(c)' = InvocationsOf(c) /\ Invocation(c)' = Invocation(c) /\ Passed(c)' = Passed(c)
      BY <2>1 DEF InvocationsOf, Invocation, Passed
    <3>2. Behind(c)' = Behind(c) /\ All(c)' = All(c)
      BY <2>1, <3>1 DEF Behind, All
    <3>3. Gone(c)' = Gone(c) /\ Doubtful(c)' = Doubtful(c)
      BY <2>1, <3>2 DEF Gone, Doubtful
    <3>0. Noted(c, "v4")' = Noted(c, "v4") /\ Noted(c, "v6")' = Noted(c, "v6")
      BY <2>1 DEF Noted
    <3>4. Looking(c)' /\ SwitchedOn(c)' /\ Noting(c)'
      BY <2>1, <3>0 DEF Underway, Looking, SwitchedOn, Noting
    <3>5. Installing(c)'
      BY <2>1, <3>1, <3>2, <3>3 DEF Underway, Installing
    <3>6. Deleting(c)' /\ Untouched(c)'
      BY <2>1, <3>3 DEF Underway, Deleting, Untouched
    <3>7. SwitchingOff(c)'
      <4> SUFFICES ASSUME call'[c].pc = "off" PROVE SwitchingOff(c)'
        BY DEF SwitchingOff
      <4>1. SwitchingOff(c) /\ call[c].pc = "off"
        BY <2>1 DEF Underway
      <4>2. PICK off \in SUBSET Passed(c) : /\ "sysctl" \in Faults \/ off = Passed(c)
                                           /\ host.fwd = [f \in Fams |-> before.fwd[f] /\ f \notin off]
        BY <4>1 DEF SwitchingOff
      <4>3. host'.fwd = [f \in Fams |-> before'.fwd[f] /\ f \notin off]
        BY <2>1, <4>2, Zenon
      <4>4. off \in SUBSET Passed(c)' /\ ("sysctl" \in Faults \/ off = Passed(c)')
        BY <3>1, <4>2
      <4>5. /\ before'.snap[call'[c].wg] # NoSnap /\ call'[c].was = before'.snap[call'[c].wg]
            /\ host'.snap = [before'.snap EXCEPT ![call'[c].wg] = NoSnap]
        BY <2>1, <4>1 DEF SwitchingOff
      <4> QED BY <4>3, <4>4, <4>5, Zenon DEF SwitchingOff
    <3> QED BY <2>1, <3>4, <3>5, <3>6, <3>7 DEF Underway
  <2>3. PortInv'
    BY <1>1, <2>1, <2>2 DEF PortInv
  <2> QED BY <2>1, <2>3 DEF Seen, Quiet
<1> QED BY <1>2, <1>3, <1>4, <1>5 DEF HNext, Next, Work

(* Calls that do not overlap are atomic: sysctls, rules and forward_state change as one call *)
(* of the NatPort trait may change them, whichever system calls fail and wherever the server *)
(* process dies. *)
THEOREM PortImplemented == ASSUME Single PROVE HSpec => PortSpec
<1>1. HInit => PortInv /\ Port!Init
  <2>1. HInit => Quiet /\ \E fwd \in [Fams -> BOOLEAN] : host = FreshHost(fwd)
    BY DEF HInit, Init, Quiet, SomeIdle, Idle
  <2>2. Quiet /\ (\E fwd \in [Fams -> BOOLEAN] : host = FreshHost(fwd)) => Port!Init
    BY PortOperators DEF Port!Init
  <2> QED BY <2>1, <2>2, PortInitial
<1>2. PortCall => Port!Next
  <2>1. \A wg, gw, v6 : /\ CanApply(Seen, wg, gw, v6, Faults, Seen') => Port!Apply(wg, gw, v6)
                        /\ Seen' \in RemoveOutcomes(Seen, wg, gw, v6, Faults) => Port!Remove(wg, gw, v6)
    BY PortOutcomes DEF Port!Apply, Port!Remove, CanApply, Seen
  <2>2. Seen' \in CrashOutcomes(Seen) => Port!Restart
    BY PortOutcomes DEF Port!Restart, Seen
  <2> QED BY <2>1, <2>2 DEF PortCall, Port!Next
<1>3. PortInv /\ [HNext]_<<vars, before>> => PortInv' /\ [Port!Next]_Seen
  BY <1>2, PortStep
<1> QED BY <1>1, <1>3, PTL DEF HSpec, PortSpec, Port!Spec, Seen
=============================================================================
