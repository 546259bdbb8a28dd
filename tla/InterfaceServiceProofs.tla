----------------------- MODULE InterfaceServiceProofs -----------------------
(***************************************************************************)
(* Proofs about InterfaceService for any set of interfaces, gateways, rows *)
(* and requests, and any combination of faults and mishaps.                *)
(***************************************************************************)
EXTENDS InterfaceService, FiniteSetTheorems, SequenceTheorems, TLAPS

\* The three rules of a gateway'd interface.
In(wg)   == [chain |-> "in", dev |-> wg]
Out(wg)  == [chain |-> "out", dev |-> wg]
Masq(gw) == [chain |-> "masq", dev |-> gw]
Own(wg, gw) == {In(wg), Out(wg), Masq(gw)}

\* The iptables invocations of one call, as a set.
Asked(wg, gw, v6) ==
    {i \in [fam : Fams, rule : Rule] : Covers(v6, i.fam) /\ i.rule \in Own(wg, gw)}

-----------------------------------------------------------------------------
(* What the calls of the adapter do to the host *)

(* A call makes an invocation for each of its three rules in each family it covers. *)
LEMMA InvocationsRange ==
    ASSUME NEW wg \in Wgs, NEW gw \in Gateways, NEW v6 \in BOOLEAN
    PROVE  /\ Range(Invocations(wg, gw, v6)) = Asked(wg, gw, v6)
           /\ Invocations(wg, gw, v6) \in Seq([fam : Fams, rule : Rule])
<1>1. PICK four, six : /\ four = [i \in 1..3 |-> [fam |-> "v4", rule |-> nat_rules(wg, gw)[i]]]
                       /\ six  = [i \in 1..3 |-> [fam |-> "v6", rule |-> nat_rules(wg, gw)[i]]]
  OBVIOUS
<1>2. /\ nat_rules(wg, gw)[1] = In(wg) /\ nat_rules(wg, gw)[2] = Out(wg)
      /\ nat_rules(wg, gw)[3] = Masq(gw)
      /\ In(wg) \in Rule /\ Out(wg) \in Rule /\ Masq(gw) \in Rule
  BY DEF nat_rules, In, Out, Masq, Rule
<1>3. /\ Invocations(wg, gw, v6) = four \o (IF v6 THEN six ELSE << >>)
      /\ "v4" \in Fams /\ "v6" \in Fams
  BY <1>1, Zenon DEF Invocations, Fams
<1>4. \A i \in 1..3 : four[i] \in [fam : Fams, rule : Rule] /\ six[i] \in [fam : Fams, rule : Rule]
  BY <1>1, <1>2 DEF Fams
<1>5. /\ four \in Seq([fam : Fams, rule : Rule]) /\ Len(four) = 3
      /\ six \in Seq([fam : Fams, rule : Rule]) /\ Len(six) = 3
  BY <1>1, <1>4
<1>6. PICK inv : inv = Invocations(wg, gw, v6)
  OBVIOUS
<1>7. /\ inv \in Seq([fam : Fams, rule : Rule])
      /\ Len(inv) = IF v6 THEN 6 ELSE 3
      /\ \A i \in 1..3 : inv[i] = four[i] /\ (v6 => inv[i + 3] = six[i])
      /\ \A i \in 4..Len(inv) : v6 /\ i - 3 \in 1..3 /\ inv[i] = six[i - 3]
  <2>0. PICK E : E = [fam : Fams, rule : Rule]
    OBVIOUS
  <2>1. CASE v6
    <3>1. inv = four \o six
      BY <1>3, <1>6, <2>1
    <3>2. /\ inv \in Seq(E) /\ Len(inv) = Len(four) + Len(six)
          /\ \A i \in 1..Len(four) + Len(six) :
                inv[i] = IF i <= Len(four) THEN four[i] ELSE six[i - Len(four)]
      BY <1>5, <2>0, <3>1, ConcatProperties, Zenon
    <3>3. Len(four) = 3 /\ Len(six) = 3
      BY <1>5
    <3>4. /\ Len(inv) = 6
          /\ \A i \in 1..6 : inv[i] = IF i <= 3 THEN four[i] ELSE six[i - 3]
      BY <3>2, <3>3
    <3>5. \A i \in 1..3 : inv[i] = four[i] /\ inv[i + 3] = six[i]
      BY <3>4
    <3>6. \A i \in 4..Len(inv) : i - 3 \in 1..3 /\ inv[i] = six[i - 3]
      BY <3>4
    <3> QED BY <2>0, <2>1, <3>2, <3>4, <3>5, <3>6
  <2>2. CASE ~v6
    <3>1. inv = four \o << >>
      BY <1>3, <1>6, <2>2
    <3>2. inv = four
      BY <1>5, <3>1, ConcatEmptySeq, Zenon
    <3>3. inv \in Seq(E) /\ Len(inv) = 3
      BY <1>5, <2>0, <3>2
    <3> QED BY <2>0, <2>2, <3>2, <3>3
  <2> QED BY <2>1, <2>2
<1>8. \A i \in 1..Len(inv) : inv[i] \in Asked(wg, gw, v6)
  <2> SUFFICES ASSUME NEW i \in 1..Len(inv) PROVE inv[i] \in Asked(wg, gw, v6)
    OBVIOUS
  <2>1. CASE i \in 1..3
    <3>1. inv[i] = four[i] /\ four[i].fam = "v4" /\ four[i].rule = nat_rules(wg, gw)[i]
      BY <1>1, <1>7, <2>1
    <3> QED BY <1>2, <1>4, <2>1, <3>1 DEF Asked, Own, Covers
  <2>2. CASE i \in 4..Len(inv)
    <3>1. PICK j \in 1..3 : j = i - 3
      BY <1>7, <2>2
    <3>2. v6 /\ inv[i] = six[j] /\ six[j].fam = "v6" /\ six[j].rule = nat_rules(wg, gw)[j]
      BY <1>1, <1>7, <2>2, <3>1
    <3> QED BY <1>2, <1>4, <3>2 DEF Asked, Own, Covers
  <2> QED BY <1>7, <2>1, <2>2
<1>9. ASSUME NEW x \in Asked(wg, gw, v6) PROVE \E i \in 1..Len(inv) : inv[i] = x
  <2>1. /\ x \in [fam : Fams, rule : Rule] /\ x = [fam |-> x.fam, rule |-> x.rule]
        /\ x.rule \in Own(wg, gw) /\ Covers(v6, x.fam)
    BY DEF Asked
  <2>2. PICK j \in 1..3 : x.rule = nat_rules(wg, gw)[j]
    BY <1>2, <2>1 DEF Own
  <2>3. CASE x.fam = "v4"
    <3>1. x = four[j] /\ inv[j] = four[j] /\ j \in 1..Len(inv)
      BY <1>1, <1>7, <2>1, <2>2, <2>3
    <3> QED BY <3>1
  <2>4. CASE x.fam = "v6" /\ v6
    <3>1. x = six[j] /\ inv[j + 3] = six[j] /\ j + 3 \in 1..Len(inv)
      BY <1>1, <1>7, <2>1, <2>2, <2>4
    <3> QED BY <3>1
  <2> QED BY <2>1, <2>3, <2>4 DEF Fams, Covers
<1> QED BY <1>6, <1>7, <1>8, <1>9 DEF Range


\* The host after apply has made the invocations of `calls'.
Applied(h, wg, v6, calls, denied, was) ==
    [fwd   |-> ForwardingOn(h.fwd, v6),
     rules |-> apply_rules(h.rules, calls, denied),
     snap  |-> [h.snap EXCEPT ![wg] = was]]

\* The host after apply has failed to write the second sysctl.
HalfOn(h) == [h EXCEPT !.fwd["v4"] = TRUE]

Denials(h, calls, faults) == IF "probe" \in faults THEN SUBSET Deniable(h.rules, calls) ELSE {{}}

\* apply has made every invocation, or some of them only.
Complete(o, h, wg, gw, v6, faults) ==
    /\ o.ok = TRUE
    /\ \E denied : \E was \in ForwardSnapshot :
          /\ faults = {} => denied = {}
          /\ o.host = Applied(h, wg, v6, Invocations(wg, gw, v6), denied, was)
Partial(o, h, wg, v6, faults) ==
    /\ faults # {} /\ o.ok = FALSE
    /\ \/ o.host = h
       \/ o.host = HalfOn(h)
       \/ \E calls, denied : \E was \in ForwardSnapshot : o.host = Applied(h, wg, v6, calls, denied, was)

(* What apply leaves behind, with every fault and with none. *)
LEMMA ApplyCases ==
    ASSUME NEW h \in Host, NEW wg \in Wgs, NEW gw \in Gateways, NEW v6 \in BOOLEAN, NEW faults,
           NEW o \in ApplyOutcomes(h, wg, gw, v6, faults)
    PROVE  Complete(o, h, wg, gw, v6, faults) \/ Partial(o, h, wg, v6, faults)
<1> DEFINE inv == Invocations(wg, gw, v6)
           full(denied, was) == Applied(h, wg, v6, SubSeq(inv, 1, Len(inv)), denied, was)
           part(n, denied, was) == Applied(h, wg, v6, SubSeq(inv, 1, n), denied, was)
           denials == Denials(h, inv, faults)
           seen == Snapshots(h.fwd, v6, faults)
           off4 == {w \in seen : "sysctl" \in faults /\ ~w["v4"]}
           off6 == {w \in seen : "sysctl" \in faults /\ ~w["v6"]}
           short == {m \in 0..(Len(inv) - 1) : "iptables" \in faults}
<1>1. \/ \E denied \in denials, was \in seen : o = [ok |-> TRUE, host |-> full(denied, was)]
      \/ off4 # {} /\ o = [ok |-> FALSE, host |-> h]
      \/ off6 # {} /\ o = [ok |-> FALSE, host |-> HalfOn(h)]
      \/ \E n \in short, denied \in denials, was \in seen : o = [ok |-> FALSE, host |-> part(n, denied, was)]
  BY DEF ApplyOutcomes, Applied, HalfOn, Denials
<1>2. SubSeq(inv, 1, Len(inv)) = inv
  BY InvocationsRange, SubSeqFull, Zenon
<1>3. /\ faults = {} => denials = {{}}
      /\ off4 # {} => faults # {}
      /\ off6 # {} => faults # {}
      /\ short # {} => faults # {}
  BY DEF Denials
<1>s. seen \subseteq ForwardSnapshot
  BY DEF Snapshots, ForwardSnapshot
<1> HIDE DEF inv, full, part, denials, seen, off4, off6, short
<1>4. CASE \E denied \in denials, was \in seen : o = [ok |-> TRUE, host |-> full(denied, was)]
  <2>1. PICK denied \in denials, was \in seen : o = [ok |-> TRUE, host |-> full(denied, was)]
    BY <1>4
  <2>2. full(denied, was) = Applied(h, wg, v6, Invocations(wg, gw, v6), denied, was)
    BY <1>2, Zenon DEF full, inv
  <2> QED BY <1>3, <1>s, <2>1, <2>2 DEF Complete
<1>5. CASE off4 # {} /\ o = [ok |-> FALSE, host |-> h]
  BY <1>3, <1>5 DEF Partial
<1>6. CASE off6 # {} /\ o = [ok |-> FALSE, host |-> HalfOn(h)]
  BY <1>3, <1>6 DEF Partial
<1>7. CASE \E n \in short, denied \in denials, was \in seen : o = [ok |-> FALSE, host |-> part(n, denied, was)]
  <2>1. PICK n \in short, denied \in denials, was \in seen : o = [ok |-> FALSE, host |-> part(n, denied, was)]
    BY <1>7
  <2>2. part(n, denied, was) = Applied(h, wg, v6, SubSeq(inv, 1, n), denied, was)
    BY Zenon DEF part
  <2> QED BY <1>3, <1>s, <2>1, <2>2 DEF Partial
<1> QED BY <1>1, <1>4, <1>5, <1>6, <1>7


(* apply leaves a well-formed host; success means the interface is masqueraded; without *)
(* faults it succeeds, and of the IPv4 rules it adds its own three where they are missing. *)
LEMMA ApplyEffect ==
    ASSUME NEW h \in Host, NEW wg \in Wgs, NEW gw \in Gateways, NEW v6 \in BOOLEAN, NEW faults,
           NEW o \in ApplyOutcomes(h, wg, gw, v6, faults)
    PROVE  /\ o.host \in Host
           /\ o.ok \in BOOLEAN
           /\ o.ok => Masqueraded(o.host, wg, gw, v6)
           /\ faults = {} => /\ o.ok
                             /\ \A r \in Rule : o.host.rules["v4"][r] =
                                   IF r \in Own(wg, gw) /\ h.rules["v4"][r] = 0 THEN 1
                                   ELSE h.rules["v4"][r]
<1>1. /\ h.fwd \in [Fams -> BOOLEAN] /\ h.rules \in [Fams -> [Rule -> Nat]]
      /\ h.snap \in [Wgs -> ForwardSnapshot \cup {NoSnap}]
      /\ h = [fwd |-> h.fwd, rules |-> h.rules, snap |-> h.snap]
      /\ "v4" \in Fams
  BY DEF Host, Fams
<1>2. PICK fwd \in [Fams -> BOOLEAN] : fwd = ForwardingOn(h.fwd, v6)
  BY <1>1 DEF ForwardingOn, Covers
<1>3. \A f \in Fams : Covers(v6, f) => fwd[f]
  BY <1>2 DEF ForwardingOn
<1>6. \A calls, denied : apply_rules(h.rules, calls, denied) \in [Fams -> [Rule -> Nat]]
  BY <1>1 DEF apply_rules
<1>8. ASSUME NEW calls, NEW denied, NEW was \in ForwardSnapshot
      PROVE  /\ Applied(h, wg, v6, calls, denied, was) \in Host
             /\ Applied(h, wg, v6, calls, denied, was).fwd = fwd
             /\ Applied(h, wg, v6, calls, denied, was).rules = apply_rules(h.rules, calls, denied)
  <2>1. PICK rules \in [Fams -> [Rule -> Nat]] : rules = apply_rules(h.rules, calls, denied)
    BY <1>6
  <2>2. PICK snap \in [Wgs -> ForwardSnapshot \cup {NoSnap}] : snap = [h.snap EXCEPT ![wg] = was]
    BY <1>1
  <2>3. Applied(h, wg, v6, calls, denied, was) = [fwd |-> fwd, rules |-> rules, snap |-> snap]
    BY <1>2, <2>1, <2>2, Zenon DEF Applied
  <2> QED BY <2>1, <2>3 DEF Host
<1>9. CASE Complete(o, h, wg, gw, v6, faults)
  <2>1. PICK denied : \E was \in ForwardSnapshot :
           /\ faults = {} => denied = {}
           /\ o.host = Applied(h, wg, v6, Invocations(wg, gw, v6), denied, was)
    BY <1>9 DEF Complete
  <2>1a. PICK was \in ForwardSnapshot :
            /\ faults = {} => denied = {}
            /\ o.host = Applied(h, wg, v6, Invocations(wg, gw, v6), denied, was)
    BY <2>1
  <2>2. PICK inv : inv = Invocations(wg, gw, v6)
    OBVIOUS
  <2>3. Range(inv) = Asked(wg, gw, v6)
    BY <2>2, InvocationsRange
  <2>4. o.host.fwd = fwd /\ o.host.rules = apply_rules(h.rules, inv, denied)
    BY <1>8, <2>1a, <2>2
  <2>5. \A f \in Fams, r \in Rule : o.host.rules[f][r] =
            IF [fam |-> f, rule |-> r] \in Asked(wg, gw, v6)
               /\ (h.rules[f][r] = 0 \/ [fam |-> f, rule |-> r] \in denied)
            THEN h.rules[f][r] + 1 ELSE h.rules[f][r]
    BY <2>3, <2>4 DEF apply_rules
  <2>6. \A i \in Asked(wg, gw, v6) : o.host.rules[i.fam][i.rule] > 0
    <3> SUFFICES ASSUME NEW i \in Asked(wg, gw, v6) PROVE o.host.rules[i.fam][i.rule] > 0
      OBVIOUS
    <3>1. i.fam \in Fams /\ i.rule \in Rule /\ i = [fam |-> i.fam, rule |-> i.rule]
      BY DEF Asked
    <3>2. h.rules[i.fam][i.rule] \in Nat
      BY <1>1, <3>1
    <3> QED BY <2>5, <3>1, <3>2
  <2>7. Masqueraded(o.host, wg, gw, v6)
    BY <1>3, <2>2, <2>3, <2>4, <2>6 DEF Masqueraded
  <2>8. \A r \in Rule : [fam |-> "v4", rule |-> r] \in Asked(wg, gw, v6) <=> r \in Own(wg, gw)
    BY <1>1 DEF Asked, Covers
  <2>9. faults = {} => \A r \in Rule : o.host.rules["v4"][r] =
                            IF r \in Own(wg, gw) /\ h.rules["v4"][r] = 0 THEN 1
                            ELSE h.rules["v4"][r]
    <3> SUFFICES ASSUME faults = {}, NEW r \in Rule
                 PROVE  o.host.rules["v4"][r] =
                            IF r \in Own(wg, gw) /\ h.rules["v4"][r] = 0 THEN 1
                            ELSE h.rules["v4"][r]
      OBVIOUS
    <3>1. [fam |-> "v4", rule |-> r] \notin denied
      BY <2>1a
    <3>2. h.rules["v4"][r] \in Nat
      BY <1>1
    <3> QED BY <1>1, <2>5, <2>8, <3>1, <3>2
  <2>10. o.ok /\ o.ok \in BOOLEAN
    BY <1>9, Zenon DEF Complete
  <2>11. o.host \in Host
    BY <1>8, <2>1a
  <2> QED BY <2>7, <2>9, <2>10, <2>11
<1>10. CASE Partial(o, h, wg, v6, faults)
  <2>1. HalfOn(h) \in Host
    <3>1. PICK half \in [Fams -> BOOLEAN] : half = [h.fwd EXCEPT !["v4"] = TRUE]
      BY <1>1
    <3>2. HalfOn(h) = [h EXCEPT !.fwd = half]
      BY <3>1, Zenon DEF HalfOn
    <3> QED BY <1>1, <3>2 DEF Host
  <2> QED BY <1>8, <1>10, <2>1 DEF Partial
<1> QED BY <1>9, <1>10, ApplyCases, Zenon

\* The host after remove has deleted the rules of `del' and switched `off' some families.
Lifted(h, wg, del, off) ==
    [fwd   |-> [f \in Fams |-> h.fwd[f] /\ f \notin off],
     rules |-> remove_rules(h.rules, del),
     snap  |-> [h.snap EXCEPT ![wg] = NoSnap]]

(* remove leaves a well-formed host; without faults it takes one copy of each of its three *)
(* IPv4 rules away and touches no other. *)
LEMMA RemoveEffect ==
    ASSUME NEW h \in Host, NEW wg \in Wgs, NEW gw \in Gateways, NEW v6 \in BOOLEAN, NEW faults,
           NEW o \in RemoveOutcomes(h, wg, gw, v6, faults)
    PROVE  /\ o \in Host
           /\ faults = {} => \A r \in Rule : o.rules["v4"][r] =
                                IF r \in Own(wg, gw) /\ h.rules["v4"][r] > 0
                                THEN h.rules["v4"][r] - 1 ELSE h.rules["v4"][r]
<1>1. /\ h.fwd \in [Fams -> BOOLEAN] /\ h.rules \in [Fams -> [Rule -> Nat]]
      /\ h.snap \in [Wgs -> ForwardSnapshot \cup {NoSnap}]
      /\ "v4" \in Fams
  BY DEF Host, Fams
<1> DEFINE all == Range(Invocations(wg, gw, v6))
           deleted == IF "iptables" \in faults THEN SUBSET all ELSE {all}
<1>2. \E off : \E del \in deleted : o = Lifted(h, wg, del, off)
  BY DEF RemoveOutcomes, Lifted
<1>3. faults = {} => deleted = {Asked(wg, gw, v6)}
  BY InvocationsRange, Zenon
<1> HIDE DEF deleted
<1>4. PICK off : \E del \in deleted : o = Lifted(h, wg, del, off)
  BY <1>2
<1>4a. PICK del \in deleted : o = Lifted(h, wg, del, off)
  BY <1>4
<1>5. PICK fwd \in [Fams -> BOOLEAN] : fwd = [f \in Fams |-> h.fwd[f] /\ f \notin off]
  BY <1>1
<1>6. PICK rules \in [Fams -> [Rule -> Nat]] : rules = remove_rules(h.rules, del)
  <2>1. \A f \in Fams, r \in Rule : h.rules[f][r] \in Nat /\
            (h.rules[f][r] > 0 => h.rules[f][r] - 1 \in Nat)
    BY <1>1
  <2> QED BY <2>1 DEF remove_rules
<1>7. PICK snap \in [Wgs -> ForwardSnapshot \cup {NoSnap}] : snap = [h.snap EXCEPT ![wg] = NoSnap]
  BY <1>1
<1>8. o = [fwd |-> fwd, rules |-> rules, snap |-> snap]
  BY <1>4a, <1>5, <1>6, <1>7, Zenon DEF Lifted
<1>9. \A r \in Rule : [fam |-> "v4", rule |-> r] \in Asked(wg, gw, v6) <=> r \in Own(wg, gw)
  BY <1>1 DEF Asked, Covers
<1>10. \A r \in Rule : rules["v4"][r] =
           IF [fam |-> "v4", rule |-> r] \in del /\ h.rules["v4"][r] > 0
           THEN h.rules["v4"][r] - 1 ELSE h.rules["v4"][r]
  BY <1>1, <1>6 DEF remove_rules
<1>11. o \in Host /\ o.rules = rules
  BY <1>8 DEF Host
<1> QED BY <1>3, <1>9, <1>10, <1>11


-----------------------------------------------------------------------------
(* Types *)

PcsOf == [none |-> {"idle"}, create |-> {"find", "insert", "link"},
          start |-> {"get", "up", "nat", "rollback", "save"},
          stop |-> {"get", "unnat", "down", "save"},
          update |-> {"get", "save", "reup", "reunnat", "renat"},
          delete |-> {"get", "unnat", "down", "destroy", "drop"}]

\* A request is at a step of its operation, and makes NAT calls with a gateway only.
Staged(r) ==
    /\ req[r].pc \in PcsOf[req[r].op]
    /\ req[r].pc \in {"nat", "unnat"} => HasGw(Copy(r))
    /\ req[r].pc = "reunnat" => req[r].old # NoGw
    /\ req[r].gone => req[r].pc \notin {"idle", "find", "get"}

TypeInv == TypeOK /\ \A r \in Requests : Staged(r)


(* What every action but the restarts leaves alone. *)
Others(r) == \A s \in Requests \ {r} : req'[s] = req[s]

\* A request goes on to another step with the row it has, or has ended.
Moved(r, pc) ==
    /\ req'[r].op = req[r].op /\ req'[r].pc = pc /\ req'[r].id = req[r].id
    /\ req'[r].row = req[r].row /\ req'[r].old = req[r].old
    /\ ~req[r].gone /\ ~req'[r].gone /\ req'[r].alone = req[r].alone
Ended(r) == req'[r] = Idle

\* A dropped request leaves the call that it has under way.
Left(r) ==
    /\ req'[r].op = req[r].op /\ req'[r].pc = req[r].pc /\ req'[r].id = req[r].id
    /\ req'[r].row = req[r].row /\ req'[r].old = req[r].old
    /\ ~req[r].gone /\ req'[r].gone /\ req'[r].alone = req[r].alone

LEMMA IdleType ==
    /\ Idle \in Request
    /\ Idle.op = "none" /\ Idle.pc = "idle" /\ Idle.old = NoGw /\ Idle.row \in Row
    /\ Idle.id \in Ids
    /\ Idle.gone = FALSE /\ Idle.alone = FALSE
<1>1. (CHOOSE i \in Ids : TRUE) \in Ids /\ (CHOOSE w \in Wgs : TRUE) \in Wgs
  BY TasksAssumption, NamesAssumption
<1>2. PICK i \in Ids, w \in Wgs :
        Idle = [op |-> "none", pc |-> "idle", id |-> i, old |-> NoGw, gone |-> FALSE, alone |-> FALSE,
                row |-> [name |-> w, gw |-> NoGw, v6 |-> FALSE, status |-> "down"]]
  BY <1>1 DEF Idle
<1>3. Idle.row \in Row
  BY <1>2 DEF Row
<1> QED BY <1>2, <1>3 DEF Request, Pcs

LEMMA EndStep ==
    ASSUME TypeOK, NEW r \in Requests, End(r)
    PROVE  req' \in [Requests -> Request] /\ Others(r) /\ Ended(r)
BY IdleType DEF TypeOK, End, Others, Ended

LEMMA GotoStep ==
    ASSUME TypeOK, NEW r \in Requests, NEW pc \in Pcs, Goto(r, pc)
    PROVE  /\ req' \in [Requests -> Request] /\ Others(r)
           /\ Moved(r, pc) \/ (req[r].gone /\ Ended(r))
<1>1. req[r] \in Request
  BY DEF TypeOK
<1>2. CASE req[r].gone
  BY <1>2, EndStep DEF Goto
<1>3. CASE ~req[r].gone
  <2>1. PICK q : q = [req[r] EXCEPT !.pc = pc]
    OBVIOUS
  <2>2. /\ q \in Request /\ q.op = req[r].op /\ q.pc = pc /\ q.id = req[r].id
        /\ q.row = req[r].row /\ q.old = req[r].old /\ q.gone = req[r].gone /\ q.alone = req[r].alone
    BY <1>1, <2>1 DEF Request
  <2>3. req' = [req EXCEPT ![r] = q]
    BY <1>3, <2>1, Zenon DEF Goto
  <2>4. req' \in [Requests -> Request] /\ req'[r] = q /\ Others(r)
    BY <2>2, <2>3 DEF TypeOK, Others
  <2> QED BY <1>3, <2>2, <2>4 DEF Moved
<1> QED BY <1>2, <1>3

(* The rows of requests and of the table. *)
LEMMA Fields ==
    ASSUME TypeOK, NEW r \in Requests
    PROVE  /\ req[r] \in Request /\ req[r].id \in Ids /\ req[r].pc \in Pcs
           /\ req[r].op \in {"none", "create", "start", "stop", "update", "delete"}
           /\ req[r].old \in Gateways \cup {NoGw}
           /\ Copy(r) \in Row /\ Copy(r).name \in Wgs /\ Copy(r).gw \in Gateways \cup {NoGw}
           /\ Copy(r).v6 \in BOOLEAN /\ Copy(r).status \in {"up", "down"}
           /\ req[r].row = Copy(r)
           /\ HasGw(Copy(r)) => Copy(r).gw \in Gateways
           /\ req[r].gone \in BOOLEAN /\ req[r].alone \in BOOLEAN
BY DEF TypeOK, Request, Row, Copy, HasGw

(* UPDATE writes the row when it is there. *)
LEMMA UpdateStep ==
    ASSUME TypeOK, NEW i \in Ids, NEW row \in Row, Update(i, row)
    PROVE  /\ rows' \in [Ids -> Row \cup {NoRow}]
           /\ rows'[i] = IF rows[i] = NoRow THEN NoRow ELSE row
           /\ \A j \in Ids \ {i} : rows'[j] = rows[j]
BY DEF TypeOK, Update

\* A host with another row, and steps of a request that are none of its own.
LEMMA StagedOthers ==
    ASSUME NEW r \in Requests, \A s \in Requests : Staged(s), Others(r), Staged(r)'
    PROVE  \A s \in Requests : Staged(s)'
BY DEF Staged, Others, Copy, HasGw

LEMMA StagedIdle ==
    ASSUME NEW r \in Requests, Ended(r)
    PROVE  Staged(r)'
BY IdleType DEF Staged, Ended, PcsOf, Copy, HasGw


(* A request that goes on does so to a step of its own operation. *)
LEMMA GoOn ==
    ASSUME TypeInv, NEW r \in Requests, NEW pc \in PcsOf[req[r].op], Goto(r, pc),
           pc \in {"nat", "unnat"} => HasGw(Copy(r)),
           pc = "reunnat" => req[r].old # NoGw
    PROVE  /\ req' \in [Requests -> Request]
           /\ \A s \in Requests : Staged(s)'
           /\ Others(r)
           /\ Moved(r, pc) \/ (req[r].gone /\ Ended(r))
<1>1. pc \in Pcs
  BY Fields DEF TypeInv, PcsOf, Pcs
<1>2. /\ req' \in [Requests -> Request] /\ Others(r)
      /\ Moved(r, pc) \/ (req[r].gone /\ Ended(r))
  BY <1>1, GotoStep DEF TypeInv
<1>3. Staged(r)'
  BY <1>2, StagedIdle DEF Staged, Moved, Copy, HasGw
<1> QED BY <1>2, <1>3, StagedOthers DEF TypeInv

LEMMA Over ==
    ASSUME TypeInv, NEW r \in Requests, End(r)
    PROVE  /\ req' \in [Requests -> Request]
           /\ \A s \in Requests : Staged(s)'
           /\ Others(r) /\ Ended(r)
BY EndStep, StagedIdle, StagedOthers DEF TypeInv

(* A request that is dropped. *)
LEMMA AbandonStep ==
    ASSUME TypeInv, NEW r \in Requests, Abandon(r)
    PROVE  /\ req' \in [Requests -> Request]
           /\ \A s \in Requests : Staged(s)'
           /\ Others(r)
           /\ Ended(r) \/ Left(r)
<1>1. CASE End(r)
  BY <1>1, Over
<1>2. CASE req[r].pc \notin {"find", "get"} /\ req' = [req EXCEPT ![r].gone = TRUE]
  <2>1. req[r] \in Request /\ ~req[r].gone /\ req[r].pc # "idle"
    BY DEF TypeInv, TypeOK, Abandon
  <2>2. PICK q : q = [req[r] EXCEPT !.gone = TRUE]
    OBVIOUS
  <2>3. /\ q \in Request /\ q.op = req[r].op /\ q.pc = req[r].pc /\ q.id = req[r].id
        /\ q.row = req[r].row /\ q.old = req[r].old /\ q.gone = TRUE /\ q.alone = req[r].alone
    BY <2>1, <2>2 DEF Request
  <2>4. req' = [req EXCEPT ![r] = q]
    BY <1>2, <2>2, Zenon
  <2>5. req' \in [Requests -> Request] /\ req'[r] = q /\ Others(r)
    BY <2>3, <2>4 DEF TypeInv, TypeOK, Others
  <2>6. Staged(r)
    BY DEF TypeInv
  <2>7. Staged(r)' /\ Left(r)
    BY <1>2, <2>1, <2>3, <2>5, <2>6 DEF Staged, Left, Copy, HasGw
  <2> QED BY <2>5, <2>7, StagedOthers DEF TypeInv
<1> QED BY <1>1, <1>2 DEF Abandon

(* What begins a request. *)
LEMMA CreateBegins ==
    ASSUME TypeInv, NEW r \in Requests, BeginCreate(r)
    PROVE  /\ req' \in [Requests -> Request]
           /\ \A s \in Requests : Staged(s)'
           /\ Others(r)
           /\ req'[r].op = "create" /\ req'[r].pc = "find" /\ req'[r].id \in Ids \ used
           /\ req'[r].row.status = "down"
           /\ ~req'[r].gone /\ (req'[r].alone <=> NoCalls)
           /\ \A s \in Requests : req[s].op = "create" => req[s].id # req'[r].id
<1>1. env.gws \subseteq Gateways /\ env.dual \subseteq BOOLEAN
  BY EnvsAssumption DEF TypeInv, TypeOK, Environment
<1>2. PICK i \in Ids \ used, name \in Wgs, gw \in env.gws \cup {NoGw}, v6 \in env.dual :
         /\ \A s \in Requests : req[s].op = "create" => req[s].id # i
         /\ req' = [req EXCEPT ![r] = [op |-> "create", pc |-> "find", id |-> i, old |-> NoGw,
                         gone |-> FALSE, alone |-> NoCalls,
                         row |-> [name |-> name, gw |-> gw, v6 |-> v6, status |-> "down"]]]
  BY DEF BeginCreate
<1>3. PICK row \in Row : row = [name |-> name, gw |-> gw, v6 |-> v6, status |-> "down"]
  BY <1>1, <1>2 DEF Row
<1>a. PICK alone \in BOOLEAN : alone = NoCalls
  BY Zenon DEF NoCalls
<1>4. PICK q \in Request : q = [op |-> "create", pc |-> "find", id |-> i, old |-> NoGw,
                                 gone |-> FALSE, alone |-> alone, row |-> row]
  BY <1>2, <1>3 DEF Request, Pcs
<1>5. req' = [req EXCEPT ![r] = q]
  BY <1>2, <1>3, <1>4, <1>a, Zenon
<1>6. req' \in [Requests -> Request] /\ Others(r) /\ req'[r] = q
  BY <1>4, <1>5 DEF TypeInv, TypeOK, Others
<1>7. Staged(r)'
  BY <1>4, <1>6 DEF Staged, PcsOf
<1>8. \A s \in Requests : Staged(s)'
  BY <1>6, <1>7, StagedOthers DEF TypeInv
<1>9. row.status = "down"
  BY <1>3
<1>10. q.gone = FALSE /\ q.alone = alone
  BY <1>4
<1> QED BY <1>2, <1>4, <1>6, <1>8, <1>9, <1>10, <1>a

LEMMA OtherBegins ==
    ASSUME TypeInv, NEW r \in Requests, NEW op \in {"start", "stop", "update", "delete"}, Begin(r, op)
    PROVE  /\ req' \in [Requests -> Request]
           /\ \A s \in Requests : Staged(s)'
           /\ Others(r)
           /\ req'[r].op = op /\ req'[r].pc = "get" /\ req'[r].id \in used
           /\ ~req'[r].gone /\ (req'[r].alone <=> NoCalls)
<1>1. PICK i \in used : req' = [req EXCEPT ![r] = [Idle EXCEPT !.op = op, !.pc = "get", !.id = i,
                                                                !.alone = NoCalls]]
  BY DEF Begin
<1>a. PICK alone \in BOOLEAN : alone = NoCalls
  BY Zenon DEF NoCalls
<1>2. PICK q : q = [Idle EXCEPT !.op = op, !.pc = "get", !.id = i, !.alone = alone]
  OBVIOUS
<1>3. i \in Ids
  BY <1>1 DEF TypeInv, TypeOK
<1>4. /\ q \in Request /\ q.op = op /\ q.pc = "get" /\ q.id = i
      /\ q.gone = FALSE /\ q.alone = alone
  BY <1>2, <1>3, IdleType DEF Request, Pcs
<1>5. req' = [req EXCEPT ![r] = q]
  BY <1>1, <1>2, <1>a, Zenon
<1>6. req' \in [Requests -> Request] /\ Others(r) /\ req'[r] = q
  BY <1>4, <1>5 DEF TypeInv, TypeOK, Others
<1>7. Staged(r)'
  BY <1>4, <1>6 DEF Staged, PcsOf
<1>8. \A s \in Requests : Staged(s)'
  BY <1>6, <1>7, StagedOthers DEF TypeInv
<1>9. ~req'[r].gone /\ (req'[r].alone <=> NoCalls)
  BY <1>4, <1>6, <1>a
<1> QED BY <1>1, <1>4, <1>6, <1>8, <1>9

(* get copies the row, and update puts the form over the copy. *)
LEMMA GetReads ==
    ASSUME TypeInv, NEW r \in Requests, get(r), rows[req[r].id] # NoRow
    PROVE  LET row == rows[req[r].id]  q == req'[r] IN
           /\ req' \in [Requests -> Request]
           /\ \A s \in Requests : Staged(s)'
           /\ Others(r)
           /\ q.op = req[r].op /\ q.id = req[r].id
           /\ ~req[r].gone /\ ~q.gone /\ q.alone = req[r].alone
           /\ q.row.name = row.name /\ q.row.status = row.status
           /\ q.op # "update" => /\ q.row = row
                                 /\ q.pc = IF q.op = "start" THEN "up"
                                           ELSE IF HasGw(row) THEN "unnat" ELSE "down"
           /\ q.op = "update" => q.pc = "save" /\ q.old = row.gw
<1>1. env.gws \subseteq Gateways /\ env.dual \subseteq BOOLEAN
  BY EnvsAssumption DEF TypeInv, TypeOK, Environment
<1>2. PICK row \in Row : row = rows[req[r].id]
  BY Fields DEF TypeInv, TypeOK
<1>3. /\ row.name \in Wgs /\ row.gw \in Gateways \cup {NoGw} /\ row.v6 \in BOOLEAN
      /\ row.status \in {"up", "down"}
  BY DEF Row
<1>4. /\ req[r] \in Request /\ req[r].op \in {"start", "stop", "update", "delete"} /\ req[r].pc = "get"
      /\ ~req[r].gone
  <2>1. req[r].pc = "get" /\ req[r].pc \in PcsOf[req[r].op] /\ ~req[r].gone
    BY DEF TypeInv, Staged, get
  <2>2. req[r].op # "none" /\ req[r].op # "create"
    BY <2>1 DEF PcsOf
  <2> QED BY <2>1, <2>2, Fields DEF TypeInv
<1>5. row # NoRow
  BY NoRowTypeAssumption
<1>6. CASE req[r].op # "update"
  <2>1. PICK q : q = [req[r] EXCEPT !.row = row, !.pc = AfterGet(req[r].op, row)]
    OBVIOUS
  <2>2. req' = [req EXCEPT ![r] = q]
    <3>1. req' = [req EXCEPT ![r].row = row, ![r].pc = AfterGet(req[r].op, row)]
      BY <1>2, <1>5, <1>6, Zenon DEF get
    <3>2. q = [[req[r] EXCEPT !.row = row] EXCEPT !.pc = AfterGet(req[r].op, row)]
      BY <2>1
    <3> QED BY <3>1, <3>2, <1>4 DEF TypeInv, TypeOK
  <2>3. AfterGet(req[r].op, row) = IF req[r].op = "start" THEN "up"
                                   ELSE IF HasGw(row) THEN "unnat" ELSE "down"
    BY <1>4, <1>6 DEF AfterGet
  <2>4. AfterGet(req[r].op, row) \in Pcs
    BY <2>3 DEF Pcs
  <2>5. /\ q \in Request /\ q.row = row /\ q.pc = AfterGet(req[r].op, row)
        /\ q.op = req[r].op /\ q.id = req[r].id /\ q.gone = req[r].gone /\ q.alone = req[r].alone
    BY <1>4, <2>1, <2>4 DEF Request
  <2>6. req' \in [Requests -> Request] /\ Others(r) /\ req'[r] = q
    BY <2>2, <2>5 DEF TypeInv, TypeOK, Others
  <2>7. Staged(r)'
    BY <1>4, <1>6, <2>3, <2>5, <2>6 DEF Staged, PcsOf, Copy, HasGw
  <2>8. \A s \in Requests : Staged(s)'
    BY <2>6, <2>7, StagedOthers DEF TypeInv
  <2> QED BY <1>2, <1>4, <1>6, <2>3, <2>5, <2>6, <2>8
<1>7. CASE req[r].op = "update"
  <2>1. PICK gw \in env.gws \cup {NoGw}, v6 \in env.dual :
           req' = [req EXCEPT ![r].row = [row EXCEPT !.gw = gw, !.v6 = v6],
                              ![r].old = row.gw,
                              ![r].pc  = AfterGet("update", row)]
    BY <1>2, <1>5, <1>7, Zenon DEF get
  <2>2. PICK form : form = [row EXCEPT !.gw = gw, !.v6 = v6]
    OBVIOUS
  <2>3. form \in Row /\ form.name = row.name /\ form.status = row.status
    BY <1>1, <1>3, <2>1, <2>2 DEF Row
  <2>4. AfterGet("update", row) = "save"
    BY DEF AfterGet
  <2>5. PICK q : q = [req[r] EXCEPT !.row = form, !.old = row.gw, !.pc = "save"]
    OBVIOUS
  <2>6. /\ q \in Request /\ q.row = form /\ q.pc = "save" /\ q.old = row.gw
        /\ q.op = req[r].op /\ q.id = req[r].id /\ q.gone = req[r].gone /\ q.alone = req[r].alone
    BY <1>3, <1>4, <2>3, <2>5 DEF Request, Pcs
  <2>7. req' = [req EXCEPT ![r] = q]
    BY <1>4, <2>1, <2>2, <2>4, <2>5 DEF TypeInv, TypeOK
  <2>8. req' \in [Requests -> Request] /\ Others(r) /\ req'[r] = q
    BY <2>6, <2>7 DEF TypeInv, TypeOK, Others
  <2>9. Staged(r)'
    BY <1>4, <1>7, <2>6, <2>8 DEF Staged, PcsOf
  <2>10. \A s \in Requests : Staged(s)'
    BY <2>8, <2>9, StagedOthers DEF TypeInv
  <2> QED BY <1>2, <1>4, <1>7, <2>3, <2>6, <2>8, <2>10
<1> QED BY <1>6, <1>7


(* The steps of a request that change nothing but its place, and those that use a port. *)
LEMMA FindStep ==
    ASSUME TypeInv, NEW r \in Requests, find_by_name(r)
    PROVE  /\ req' \in [Requests -> Request] /\ \A s \in Requests : Staged(s)'
           /\ Others(r)
           /\ Ended(r) \/ (~NameTaken(Copy(r).name) /\ Moved(r, "insert"))
<1>1. "insert" \in PcsOf[req[r].op]
  BY DEF find_by_name, At, PcsOf
<1> QED BY <1>1, Over, GoOn DEF find_by_name

LEMMA InsertStep ==
    ASSUME TypeInv, NEW r \in Requests, InsertRow(r)
    PROVE  /\ req' \in [Requests -> Request] /\ \A s \in Requests : Staged(s)'
           /\ Others(r)
           /\ \/ Ended(r) /\ UNCHANGED <<rows, used>>
              \/ /\ ~NameTaken(Copy(r).name)
                 /\ Moved(r, "link") \/ (req[r].gone /\ Ended(r))
                 /\ rows' = [rows EXCEPT ![req[r].id] = Copy(r)]
                 /\ used' = used \cup {req[r].id}
<1>1. "link" \in PcsOf[req[r].op]
  BY DEF InsertRow, At, PcsOf
<1> QED BY <1>1, Over, GoOn DEF InsertRow, InsertFails

LEMMA StartUp ==
    ASSUME TypeInv, NEW r \in Requests, interface_up(r)
    PROVE  /\ req' \in [Requests -> Request] /\ \A s \in Requests : Staged(s)'
           /\ Others(r)
           /\ \/ /\ Up(Copy(r).name)
                 /\ \/ Moved(r, IF HasGw(Copy(r)) THEN "nat" ELSE "save")
                    \/ req[r].gone /\ Ended(r)
              \/ Ended(r) /\ link[Copy(r).name] = "absent" /\ UNCHANGED link
<1>1. PICK pc : pc = IF HasGw(Copy(r)) THEN "nat" ELSE "save"
  OBVIOUS
<1>2. pc \in PcsOf[req[r].op]
  BY <1>1 DEF interface_up, At, PcsOf
<1>3. (Up(Copy(r).name) /\ Goto(r, pc)) \/ (link[Copy(r).name] = "absent" /\ End(r) /\ UNCHANGED link)
  BY <1>1, Zenon DEF interface_up
<1> QED BY <1>1, <1>2, <1>3, Over, GoOn

LEMMA NatStep ==
    ASSUME TypeInv, NEW r \in Requests, ApplyNat(r)
    PROVE  /\ req' \in [Requests -> Request] /\ \A s \in Requests : Staged(s)'
           /\ Others(r)
           /\ host' \in Host
           /\ HasGw(Copy(r))
           /\ \/ /\ Moved(r, "save")
                 /\ \E o \in ApplyOutcomes(host, Copy(r).name, Copy(r).gw, Copy(r).v6, env.faults) :
                       o.ok /\ host' = o.host
              \/ req[r].gone /\ Ended(r)
              \/ Moved(r, "rollback") /\ (env.faults # {} \/ "gateway" \in env.mishaps)
<1>1. "save" \in PcsOf[req[r].op] /\ "rollback" \in PcsOf[req[r].op]
  BY DEF ApplyNat, At, PcsOf
<1>2. HasGw(Copy(r)) /\ Copy(r).gw \in Gateways
  BY Fields DEF ApplyNat, At, TypeInv, Staged
<1>3. host \in Host
  BY DEF TypeInv, TypeOK
<1>4. CASE "gateway" \in env.mishaps /\ Goto(r, "rollback") /\ UNCHANGED host
  BY <1>1, <1>2, <1>3, <1>4, GoOn
<1>5. CASE \E o \in ApplyOutcomes(host, Copy(r).name, Copy(r).gw, Copy(r).v6, env.faults) :
             /\ host' = o.host
             /\ Goto(r, IF o.ok THEN "save" ELSE "rollback")
  <2>1. PICK o \in ApplyOutcomes(host, Copy(r).name, Copy(r).gw, Copy(r).v6, env.faults) :
             /\ host' = o.host
             /\ Goto(r, IF o.ok THEN "save" ELSE "rollback")
    BY <1>5
  <2>2. o.host \in Host /\ o.ok \in BOOLEAN /\ (env.faults = {} => o.ok)
    BY <1>2, <1>3, ApplyEffect, Fields DEF TypeInv
  <2>3. CASE o.ok
    <3>1. Goto(r, "save")
      BY <2>1, <2>3, Zenon
    <3> QED BY <1>1, <1>2, <2>1, <2>2, <2>3, <3>1, GoOn
  <2>4. CASE ~o.ok
    <3>1. Goto(r, "rollback")
      BY <2>1, <2>4, Zenon
    <3> QED BY <1>1, <1>2, <2>1, <2>2, <2>4, <3>1, GoOn
  <2> QED BY <2>2, <2>3, <2>4, Zenon
<1> QED BY <1>4, <1>5, Zenon DEF ApplyNat


\* Removed(r, gw): the adapter has removed the rules of the row of r through gw.
Stripped(r, gw) ==
    env.faults = {} => \A rule \in Rule : host'.rules["v4"][rule] =
        IF rule \in Own(Copy(r).name, gw) /\ host.rules["v4"][rule] > 0
        THEN host.rules["v4"][rule] - 1 ELSE host.rules["v4"][rule]

LEMMA RemoveStep ==
    ASSUME TypeInv, NEW r \in Requests, NEW gw \in Gateways, Remove(Copy(r), gw)
    PROVE  host' \in Host /\ Stripped(r, gw)
<1>1. Copy(r).name \in Wgs /\ Copy(r).v6 \in BOOLEAN /\ host \in Host
  BY Fields DEF TypeInv, TypeOK
<1>2. host' \in RemoveOutcomes(host, Copy(r).name, gw, Copy(r).v6, env.faults)
  BY DEF Remove
<1> QED BY <1>1, <1>2, RemoveEffect DEF Stripped

LEMMA UnnatStep ==
    ASSUME TypeInv, NEW r \in Requests, RemoveNat(r)
    PROVE  /\ req' \in [Requests -> Request] /\ \A s \in Requests : Staged(s)'
           /\ Others(r)
           /\ HasGw(Copy(r)) /\ Copy(r).gw \in Gateways
           /\ host' \in Host /\ Stripped(r, Copy(r).gw)
           /\ Moved(r, "down") \/ (req[r].gone /\ Ended(r))
<1>1. "down" \in PcsOf[req[r].op]
  BY DEF RemoveNat, PcsOf
<1>2. HasGw(Copy(r)) /\ Copy(r).gw \in Gateways
  BY Fields DEF RemoveNat, TypeInv, Staged
<1> QED BY <1>1, <1>2, GoOn, RemoveStep DEF RemoveNat

LEMMA StopDown ==
    ASSUME TypeInv, NEW r \in Requests, interface_down(r)
    PROVE  /\ req' \in [Requests -> Request] /\ \A s \in Requests : Staged(s)'
           /\ Others(r)
           /\ \/ Down(Copy(r).name) /\ (Moved(r, "save") \/ (req[r].gone /\ Ended(r)))
              \/ Ended(r) /\ link[Copy(r).name] = "absent" /\ UNCHANGED link
<1>1. "save" \in PcsOf[req[r].op]
  BY DEF interface_down, At, PcsOf
<1> QED BY <1>1, Over, GoOn DEF interface_down

LEMMA FormStep ==
    ASSUME TypeInv, NEW r \in Requests, SaveForm(r)
    PROVE  /\ req' \in [Requests -> Request] /\ \A s \in Requests : Staged(s)'
           /\ Others(r)
           /\ \/ Copy(r).status = "up" /\ (Moved(r, "reup") \/ (req[r].gone /\ Ended(r)))
              \/ Copy(r).status # "up" /\ Ended(r)
<1>1. "reup" \in PcsOf[req[r].op]
  BY DEF SaveForm, At, PcsOf
<1> QED BY <1>1, Over, GoOn DEF SaveForm

LEMMA ReupStep ==
    ASSUME TypeInv, NEW r \in Requests, Reconfigure(r)
    PROVE  /\ req' \in [Requests -> Request] /\ \A s \in Requests : Staged(s)'
           /\ Others(r)
           /\ \/ Moved(r, IF req[r].old # NoGw THEN "reunnat" ELSE "renat")
              \/ req[r].gone /\ Ended(r)
<1>1. PICK pc : pc = IF req[r].old # NoGw THEN "reunnat" ELSE "renat"
  OBVIOUS
<1>2. pc \in PcsOf[req[r].op]
  BY <1>1 DEF Reconfigure, At, PcsOf
<1>3. Goto(r, pc)
  BY <1>1, Zenon DEF Reconfigure, AfterReup
<1> QED BY <1>1, <1>2, <1>3, GoOn

LEMMA ReunnatStep ==
    ASSUME TypeInv, NEW r \in Requests, RemoveOldNat(r)
    PROVE  /\ req' \in [Requests -> Request] /\ \A s \in Requests : Staged(s)'
           /\ Others(r)
           /\ req[r].old \in Gateways
           /\ host' \in Host /\ Stripped(r, req[r].old)
           /\ Moved(r, "renat") \/ (req[r].gone /\ Ended(r))
<1>1. "renat" \in PcsOf[req[r].op]
  BY DEF RemoveOldNat, At, PcsOf
<1>2. req[r].old \in Gateways
  BY Fields DEF RemoveOldNat, At, TypeInv, Staged
<1> QED BY <1>1, <1>2, GoOn, RemoveStep DEF RemoveOldNat

LEMMA RenatStep ==
    ASSUME TypeInv, NEW r \in Requests, ApplyNewNat(r)
    PROVE  /\ req' \in [Requests -> Request] /\ \A s \in Requests : Staged(s)'
           /\ Others(r) /\ Ended(r)
           /\ host' \in Host
           /\ \/ ~HasGw(Copy(r)) /\ UNCHANGED host
              \/ /\ HasGw(Copy(r))
                 /\ \E o \in ApplyOutcomes(host, Copy(r).name, Copy(r).gw, Copy(r).v6, env.faults) :
                       host' = o.host
<1>1. HasGw(Copy(r)) => \A o \in ApplyOutcomes(host, Copy(r).name, Copy(r).gw, Copy(r).v6, env.faults) :
                            o.host \in Host
  BY ApplyEffect, Fields DEF TypeInv, TypeOK
<1>2. host \in Host
  BY DEF TypeInv, TypeOK
<1> QED BY <1>1, <1>2, Over DEF ApplyNewNat

LEMMA TakeDownStep ==
    ASSUME TypeInv, NEW r \in Requests, TakeDown(r)
    PROVE  /\ req' \in [Requests -> Request] /\ \A s \in Requests : Staged(s)'
           /\ Others(r)
           /\ \/ Moved(r, IF req[r].pc = "down" THEN "destroy" ELSE "drop")
              \/ req[r].gone /\ Ended(r)
<1>1. PICK pc : pc = IF req[r].pc = "down" THEN "destroy" ELSE "drop"
  OBVIOUS
<1>2. pc \in PcsOf[req[r].op]
  BY <1>1 DEF TakeDown, PcsOf
<1>3. Goto(r, pc)
  BY <1>1, Zenon DEF TakeDown
<1> QED BY <1>1, <1>2, <1>3, GoOn

(* Every step of a request keeps the types of the other state. *)
LEMMA TypeStep ==
    ASSUME TypeInv, [Next]_vars
    PROVE  TypeInv'
<1> USE DEF TypeInv
<1>0. /\ rows \in [Ids -> Row \cup {NoRow}] /\ used \subseteq Ids /\ link \in [Wgs -> Links]
      /\ host \in Host /\ bootFwd \in [Fams -> BOOLEAN] /\ env \in Envs
      /\ req \in [Requests -> Request]
  BY DEF TypeOK
<1>1. ASSUME NEW r \in Requests, BeginCreate(r) PROVE TypeInv'
  BY <1>0, <1>1, CreateBegins DEF BeginCreate, TypeOK
<1>2. ASSUME NEW r \in Requests, NEW op \in {"start", "stop", "update", "delete"}, Begin(r, op)
      PROVE  TypeInv'
  BY <1>0, <1>2, OtherBegins DEF Begin, TypeOK
<1>3. ASSUME NEW r \in Requests, find_by_name(r) PROVE TypeInv'
  BY <1>0, <1>3, FindStep DEF find_by_name, TypeOK
<1>4. ASSUME NEW r \in Requests, InsertRow(r) PROVE TypeInv'
  <2>1. Copy(r) \in Row /\ req[r].id \in Ids
    BY Fields
  <2>2. rows' \in [Ids -> Row \cup {NoRow}] /\ used' \subseteq Ids
    BY <1>0, <1>4, <2>1, InsertStep
  <2> QED BY <1>0, <1>4, <2>2, InsertStep DEF InsertRow, TypeOK
<1>5. ASSUME NEW r \in Requests, create_interface(r) PROVE TypeInv'
  <2>1. link' \in [Wgs -> Links]
    BY <1>0, <1>5, Fields DEF create_interface, BestEffort, Links
  <2> QED BY <1>0, <1>5, <2>1, Over DEF create_interface, TypeOK
<1>6. ASSUME NEW r \in Requests, get(r) PROVE TypeInv'
  <2>1. req' \in [Requests -> Request] /\ \A s \in Requests : Staged(s)'
    <3>1. CASE rows[req[r].id] = NoRow
      BY <1>6, <3>1, Over DEF get
    <3>2. CASE rows[req[r].id] # NoRow
      BY <1>6, <3>2, GetReads
    <3> QED BY <3>1, <3>2
  <2> QED BY <1>0, <1>6, <2>1 DEF get, TypeOK
<1>7. ASSUME NEW r \in Requests, interface_up(r) PROVE TypeInv'
  <2>1. link' \in [Wgs -> Links]
    BY <1>0, <1>7, StartUp, Fields DEF Up, Links
  <2> QED BY <1>0, <1>7, <2>1, StartUp DEF interface_up, TypeOK
<1>8. ASSUME NEW r \in Requests, ApplyNat(r) PROVE TypeInv'
  BY <1>0, <1>8, NatStep DEF ApplyNat, TypeOK
<1>9. ASSUME NEW r \in Requests, RollBack(r) PROVE TypeInv'
  <2>1. link' \in [Wgs -> Links]
    BY <1>0, <1>9, Fields DEF RollBack, BestEffort, Down, Links
  <2> QED BY <1>0, <1>9, <2>1, Over DEF RollBack, TypeOK
<1>10. ASSUME NEW r \in Requests, MarkUp(r) \/ MarkDown(r) PROVE TypeInv'
  <2>1. PICK st \in {"up", "down"} : Update(req[r].id, [Copy(r) EXCEPT !.status = st])
    BY <1>10 DEF MarkUp, MarkDown
  <2>2. [Copy(r) EXCEPT !.status = st] \in Row
    BY Fields DEF Row
  <2>3. rows' \in [Ids -> Row \cup {NoRow}]
    BY <2>1, <2>2, Fields, UpdateStep
  <2> QED BY <1>0, <1>10, <2>3, Over DEF MarkUp, MarkDown, TypeOK
<1>11. ASSUME NEW r \in Requests, RemoveNat(r) PROVE TypeInv'
  BY <1>0, <1>11, UnnatStep DEF RemoveNat, TypeOK
<1>12. ASSUME NEW r \in Requests, interface_down(r) PROVE TypeInv'
  <2>1. link' \in [Wgs -> Links]
    BY <1>0, <1>12, StopDown, Fields DEF Down, Links
  <2> QED BY <1>0, <1>12, <2>1, StopDown DEF interface_down, TypeOK
<1>13. ASSUME NEW r \in Requests, SaveForm(r) PROVE TypeInv'
  <2>1. rows' \in [Ids -> Row \cup {NoRow}]
    BY <1>13, Fields, UpdateStep DEF SaveForm
  <2> QED BY <1>0, <1>13, <2>1, FormStep DEF SaveForm, TypeOK
<1>14. ASSUME NEW r \in Requests, Reconfigure(r) PROVE TypeInv'
  <2>1. link' \in [Wgs -> Links]
    BY <1>0, <1>14, Fields DEF Reconfigure, BestEffort, Up, Links
  <2> QED BY <1>0, <1>14, <2>1, ReupStep DEF Reconfigure, TypeOK
<1>15. ASSUME NEW r \in Requests, RemoveOldNat(r) PROVE TypeInv'
  BY <1>0, <1>15, ReunnatStep DEF RemoveOldNat, TypeOK
<1>16. ASSUME NEW r \in Requests, ApplyNewNat(r) PROVE TypeInv'
  BY <1>0, <1>16, RenatStep DEF ApplyNewNat, TypeOK
<1>17. ASSUME NEW r \in Requests, TakeDown(r) PROVE TypeInv'
  <2>1. link' \in [Wgs -> Links]
    BY <1>0, <1>17, Fields DEF TakeDown, BestEffort, Down, Links
  <2> QED BY <1>0, <1>17, <2>1, TakeDownStep DEF TakeDown, TypeOK
<1>18. ASSUME NEW r \in Requests, DeleteRow(r) PROVE TypeInv'
  <2>1. rows' \in [Ids -> Row \cup {NoRow}]
    BY <1>0, <1>18, Fields DEF DeleteRow
  <2> QED BY <1>0, <1>18, <2>1, Over DEF DeleteRow, TypeOK
<1>19. ASSUME NEW r \in Requests, Abandon(r) PROVE TypeInv'
  BY <1>0, <1>19, AbandonStep DEF Abandon, TypeOK
<1>20. CASE Restart \/ Reboot
  <2>1. req' \in [Requests -> Request] /\ \A s \in Requests : req'[s] = Idle
    BY <1>20, IdleType DEF Restart, Reboot
  <2>2. \A s \in Requests : Staged(s)'
    BY <2>1, StagedIdle DEF Ended
  <2>3. link' \in [Wgs -> Links] /\ host' \in Host
    BY <1>0, <1>20 DEF Restart, Reboot, Links, Forgotten, FreshHost, Host
  <2> QED BY <1>0, <1>20, <2>1, <2>2, <2>3 DEF Restart, Reboot, TypeOK
<1>21. CASE UNCHANGED vars
  BY <1>21 DEF vars, TypeOK, Staged, Copy, HasGw
<1> QED BY <1>1, <1>2, <1>3, <1>4, <1>5, <1>6, <1>7, <1>8, <1>9, <1>10, <1>11, <1>12, <1>13, <1>14,
           <1>15, <1>16, <1>17, <1>18, <1>19, <1>20, <1>21 DEF Next

LEMMA TypeStart == Init => TypeInv
<1> SUFFICES ASSUME Init PROVE TypeInv
  OBVIOUS
<1>1. FreshHost(bootFwd) \in Host
  BY DEF Init, FreshHost, Host
<1>2. \A r \in Requests : req[r] = Idle
  BY DEF Init
<1>3. \A r \in Requests : Staged(r)
  BY <1>2, IdleType DEF Staged, PcsOf, Copy, HasGw
<1> QED BY <1>1, <1>3, IdleType DEF Init, TypeInv, TypeOK, Links

(* Every state of the service is well formed: rows, links, the host's rule counts and      *)
(* snapshots, and what each request carries.                                               *)
THEOREM InterfaceTypes == Spec => []TypeOK
<1>1. TypeInv /\ [Next]_vars => TypeInv'
  BY TypeStep
<1>2. TypeInv => TypeOK
  BY DEF TypeInv
<1> QED BY <1>1, <1>2, TypeStart, PTL DEF Spec


-----------------------------------------------------------------------------
(* Names, ids, and one request at a time *)

\* The request works on a row that it has read or is to read.
Holds(r) == req[r].op \in {"start", "stop", "update", "delete"}
Past(r) == Holds(r) /\ req[r].pc # "get"

\* Ids are given out once, and a request that has read its row knows its name.
IdsOnce ==
    /\ Live \subseteq used
    /\ \A r \in Requests : Holds(r) => req[r].id \in used
    /\ \A r \in Requests : req[r].op = "create" /\ req[r].pc # "link" => req[r].id \notin used
    /\ \A r, s \in Requests :
          req[r].op = "create" /\ req[s].op = "create" /\ req[r].id = req[s].id => r = s
    /\ \A r \in Requests :
          Past(r) /\ rows[req[r].id] # NoRow => rows[req[r].id].name = Copy(r).name

\* With one place there is one request that somebody waits for; if it found no call of a
\* dropped one it is the only request, and start has brought the link up before NAT.
Waited(r) == req[r].pc # "idle" /\ ~req[r].gone
OneAtATime == env.width = 1 => \A r, s \in Requests : Waited(r) /\ Waited(s) => r = s
Unmixed ==
    env.width = 1 => \A r, s \in Requests :
        Waited(r) /\ req[r].alone /\ req[s].pc # "idle" => r = s
LinkFirst ==
    env.width = 1 => \A r \in Requests :
        At(r, "start", "nat") /\ req[r].alone /\ ~req[r].gone => link[Copy(r).name] = "up"

\* Requests that are not dropped leave no calls behind.
NoneGone ==
    "abandon" \notin env.mishaps =>
        \A r \in Requests : ~req[r].gone /\ (env.width = 1 /\ req[r].pc # "idle" => req[r].alone)

ServiceInv ==
    /\ TypeInv /\ IdsOnce /\ UniqueNames
    /\ OneAtATime /\ Unmixed /\ NoneGone /\ LinkFirst /\ StartedIsServed


\* What no step of a request does to the table, or does only by ending.
Passive(r) ==
    \/ Ended(r) \/ Left(r)
    \/ \E pc \in Pcs : /\ Moved(r, pc)
                       /\ pc # "get" /\ req[r].pc # "get"
                       /\ req[r].op = "create" => req[r].pc # "link" /\ pc # "link"

LEMMA NamesOthers ==
    ASSUME TypeInv, IdsOnce, UniqueNames, NEW r \in Requests, UNCHANGED <<rows, used>>, Others(r), Passive(r)
    PROVE  IdsOnce' /\ UniqueNames'
<1>1. UniqueNames' /\ Live' = Live
  BY DEF UniqueNames, Live
<1>2. CASE Ended(r)
  <2>1. ~Holds(r)' /\ req'[r].op # "create"
    BY <1>2, IdleType DEF Ended, Holds
  <2> QED BY <1>1, <2>1 DEF IdsOnce, Others, Holds, Past, Copy
<1>3. CASE \E pc \in Pcs : /\ Moved(r, pc)
                           /\ pc # "get" /\ req[r].pc # "get"
                           /\ req[r].op = "create" => req[r].pc # "link" /\ pc # "link"
  <2>1. /\ req'[r].op = req[r].op /\ req'[r].id = req[r].id /\ req'[r].row = req[r].row
        /\ req'[r].pc # "get" /\ req[r].pc # "get"
        /\ req[r].op = "create" => req[r].pc # "link" /\ req'[r].pc # "link"
    BY <1>3 DEF Moved
  <2> QED BY <1>1, <2>1 DEF IdsOnce, Others, Holds, Past, Copy
<1>4. CASE Left(r)
  BY <1>1, <1>4 DEF Left, IdsOnce, Others, Holds, Past, Copy
<1> QED BY <1>2, <1>3, <1>4 DEF Passive


(* A request writes its row back only over a row of the same name. *)
LEMMA NamesUpdate ==
    ASSUME TypeInv, IdsOnce, UniqueNames, NEW r \in Requests, Past(r), UNCHANGED used, Others(r), Passive(r),
           NEW row \in Row, row.name = Copy(r).name, Update(req[r].id, row)
    PROVE  IdsOnce' /\ UniqueNames'
<1>1. /\ rows'[req[r].id] = IF rows[req[r].id] = NoRow THEN NoRow ELSE row
      /\ \A j \in Ids \ {req[r].id} : rows'[j] = rows[j]
  BY UpdateStep, Fields DEF TypeInv
<1>2. Live' = Live /\ \A i \in Live : rows'[i].name = rows[i].name
  BY <1>1, NoRowTypeAssumption DEF Live, IdsOnce
<1>3. \A i \in Ids : rows'[i] # NoRow <=> rows[i] # NoRow
  BY <1>2 DEF Live
<1>4. UniqueNames'
  BY <1>2 DEF UniqueNames
<1>5. \A s \in Requests : req[s].id \in Ids
  BY Fields DEF TypeInv
<1>6. CASE Ended(r)
  <2>1. ~Holds(r)' /\ req'[r].op # "create"
    BY <1>6, IdleType DEF Ended, Holds
  <2> QED BY <1>2, <1>3, <1>4, <1>5, <2>1 DEF IdsOnce, Others, Holds, Past, Copy, Live
<1>7. CASE \E pc \in Pcs : /\ Moved(r, pc)
                           /\ pc # "get" /\ req[r].pc # "get"
                           /\ req[r].op = "create" => req[r].pc # "link" /\ pc # "link"
  <2>1. /\ req'[r].op = req[r].op /\ req'[r].id = req[r].id /\ req'[r].row = req[r].row
        /\ req'[r].pc # "get" /\ req[r].pc # "get"
        /\ req[r].op = "create" => req[r].pc # "link" /\ req'[r].pc # "link"
    BY <1>7 DEF Moved
  <2> QED BY <1>2, <1>3, <1>4, <1>5, <2>1 DEF IdsOnce, Others, Holds, Past, Copy, Live
<1>8. CASE Left(r)
  BY <1>2, <1>3, <1>4, <1>5, <1>8 DEF Left, IdsOnce, Others, Holds, Past, Copy, Live
<1> QED BY <1>6, <1>7, <1>8 DEF Passive

(* A request that is at a step of an operation. *)
LEMMA Busiest ==
    ASSUME TypeInv, NEW r \in Requests
    PROVE  /\ req[r].pc \in {"find", "insert", "link"} => req[r].op = "create"
           /\ req[r].pc \in {"get", "up", "nat", "rollback", "unnat", "down", "destroy", "drop", "save",
                             "reup", "reunnat", "renat"} => Holds(r)
           /\ req[r].op # "none" <=> req[r].pc # "idle"
           /\ req[r].op = "create" => req[r].pc \in {"find", "insert", "link"}
<1>1. req[r].pc \in PcsOf[req[r].op]
  BY DEF TypeInv, Staged
<1>2. req[r].op \in {"none", "create", "start", "stop", "update", "delete"}
  BY Fields DEF TypeInv
<1> QED BY <1>1, <1>2 DEF PcsOf, Holds

LEMMA NamesStep ==
    ASSUME TypeInv, IdsOnce, UniqueNames, [Next]_vars
    PROVE  IdsOnce' /\ UniqueNames' /\ (StaysDeleted \/ UNCHANGED vars)
<1> DEFINE Kept == UNCHANGED <<rows, used>>
<1>0. Kept => StaysDeleted
  BY DEF StaysDeleted
<1>1. ASSUME NEW r \in Requests, BeginCreate(r) PROVE IdsOnce' /\ UniqueNames' /\ StaysDeleted
  <2>1. Kept
    BY <1>1 DEF BeginCreate
  <2>2. UniqueNames' /\ Live' = Live
    BY <2>1 DEF UniqueNames, Live
  <2>3. /\ Others(r) /\ req'[r].op = "create" /\ req'[r].id \in Ids \ used
        /\ \A s \in Requests : req[s].op = "create" => req[s].id # req'[r].id
    BY <1>1, CreateBegins
  <2> QED BY <1>0, <2>1, <2>2, <2>3 DEF IdsOnce, Others, Holds, Past, Copy
<1>2. ASSUME NEW r \in Requests, NEW op \in {"start", "stop", "update", "delete"}, Begin(r, op)
      PROVE  IdsOnce' /\ UniqueNames' /\ StaysDeleted
  <2>1. Kept
    BY <1>2 DEF Begin
  <2>2. UniqueNames' /\ Live' = Live
    BY <2>1 DEF UniqueNames, Live
  <2>3. Others(r) /\ req'[r].op = op /\ req'[r].pc = "get" /\ req'[r].id \in used
    BY <1>2, OtherBegins
  <2> QED BY <1>0, <2>1, <2>2, <2>3 DEF IdsOnce, Others, Holds, Past, Copy
<1>3. ASSUME NEW r \in Requests, find_by_name(r) PROVE IdsOnce' /\ UniqueNames' /\ StaysDeleted
  <2>1. Kept /\ req[r].pc = "find"
    BY <1>3 DEF find_by_name, At
  <2>2. Others(r) /\ Passive(r)
    BY <1>3, <2>1, FindStep DEF Passive, Pcs
  <2> QED BY <1>0, <2>1, <2>2, NamesOthers
<1>4. ASSUME NEW r \in Requests, InsertRow(r) PROVE IdsOnce' /\ UniqueNames' /\ StaysDeleted
  <2>1. CASE Ended(r) /\ Kept
    BY <1>0, <1>4, <2>1, InsertStep, NamesOthers DEF Passive
  <2>2. CASE /\ ~NameTaken(Copy(r).name) /\ (Moved(r, "link") \/ Ended(r))
             /\ rows' = [rows EXCEPT ![req[r].id] = Copy(r)]
             /\ used' = used \cup {req[r].id}
    <3>1. req[r].id \notin used /\ req[r].id \in Ids /\ req[r].op = "create"
      BY <1>4, Fields DEF InsertRow, At, IdsOnce, TypeInv
    <3>2. rows \in [Ids -> Row \cup {NoRow}] /\ Copy(r) # NoRow
      BY Fields, NoRowTypeAssumption DEF TypeInv, TypeOK
    <3>3. rows'[req[r].id] = Copy(r) /\ \A i \in Ids \ {req[r].id} : rows'[i] = rows[i]
      BY <2>2, <3>1, <3>2
    <3>4. StaysDeleted
      BY <3>1, <3>3 DEF StaysDeleted, TypeInv, TypeOK
    <3>5. UniqueNames'
      BY <2>2, <3>1, <3>2, <3>3 DEF UniqueNames, Live, NameTaken
    <3>6. Live' = Live \cup {req[r].id}
      BY <3>1, <3>2, <3>3 DEF Live
    <3>7. /\ Others(r)
          /\ \/ req'[r].op = "create" /\ req'[r].pc = "link" /\ req'[r].id = req[r].id
             \/ req'[r].op = "none"
      BY <1>4, <2>2, <3>1, InsertStep, IdleType DEF Moved, Ended
    <3>8. \A s \in Requests : req[s].id \in Ids /\ (s # r /\ Holds(s) => req[s].id # req[r].id)
      BY <3>1, Fields DEF IdsOnce, TypeInv
    <3>9. \A s \in Requests \ {r} : req[s].op = "create" => req[s].id # req[r].id
      BY <3>1 DEF IdsOnce
    <3> QED BY <2>2, <3>3, <3>4, <3>5, <3>6, <3>7, <3>8, <3>9 DEF IdsOnce, Others, Holds, Past, Copy
  <2> QED BY <1>4, <2>1, <2>2, InsertStep
<1>5. ASSUME NEW r \in Requests, create_interface(r) \/ RollBack(r) \/ Abandon(r)
      PROVE  IdsOnce' /\ UniqueNames' /\ StaysDeleted
  <2>1. Kept /\ Others(r) /\ Passive(r)
    BY <1>5, Over, AbandonStep DEF create_interface, RollBack, Abandon, Passive
  <2> QED BY <1>0, <2>1, NamesOthers
<1>6. ASSUME NEW r \in Requests, get(r) PROVE IdsOnce' /\ UniqueNames' /\ StaysDeleted
  <2>1. Kept
    BY <1>6 DEF get
  <2>2. CASE rows[req[r].id] = NoRow
    <3>1. Others(r) /\ Passive(r)
      BY <1>6, <2>2, Over DEF get, Passive
    <3> QED BY <1>0, <2>1, <3>1, NamesOthers
  <2>3. CASE rows[req[r].id] # NoRow
    <3>1. /\ Others(r) /\ req'[r].op = req[r].op /\ req'[r].id = req[r].id
          /\ req'[r].row.name = rows[req[r].id].name
      BY <1>6, <2>3, GetReads
    <3>2. Holds(r) /\ req[r].op # "create"
      BY <1>6, Busiest DEF get, Holds
    <3>3. UniqueNames' /\ Live' = Live
      BY <2>1 DEF UniqueNames, Live
    <3> QED BY <1>0, <2>1, <3>1, <3>2, <3>3 DEF IdsOnce, Others, Holds, Past, Copy
  <2> QED BY <2>2, <2>3
<1>7. ASSUME NEW r \in Requests,
             interface_up(r) \/ ApplyNat(r) \/ RemoveNat(r) \/ interface_down(r) \/ Reconfigure(r)
             \/ RemoveOldNat(r) \/ ApplyNewNat(r) \/ TakeDown(r)
      PROVE  IdsOnce' /\ UniqueNames' /\ StaysDeleted
  <2>1. Kept
    BY <1>7 DEF interface_up, ApplyNat, RemoveNat, interface_down, Reconfigure, RemoveOldNat,
                ApplyNewNat, TakeDown
  <2>2. Others(r) /\ (Ended(r) \/ \E pc \in {"nat", "save", "rollback", "down", "reunnat", "renat",
                                              "destroy", "drop"} : Moved(r, pc))
    BY <1>7, StartUp, NatStep, UnnatStep, StopDown, ReupStep, ReunnatStep, RenatStep, TakeDownStep
  <2>3. req[r].op # "create" /\ req[r].pc # "get"
    BY <1>7 DEF interface_up, ApplyNat, RemoveNat, interface_down, Reconfigure, RemoveOldNat,
                ApplyNewNat, TakeDown, At
  <2>4. Passive(r)
    BY <2>2, <2>3 DEF Passive, Pcs
  <2> QED BY <1>0, <2>1, <2>2, <2>4, NamesOthers
<1>8. ASSUME NEW r \in Requests, MarkUp(r) \/ MarkDown(r) \/ SaveForm(r)
      PROVE  IdsOnce' /\ UniqueNames' /\ StaysDeleted
  <2>1. PICK row \in Row : row.name = Copy(r).name /\ Update(req[r].id, row)
    <3>1. \A st \in {"up", "down"} : /\ [Copy(r) EXCEPT !.status = st] \in Row
                                     /\ [Copy(r) EXCEPT !.status = st].name = Copy(r).name
      BY Fields DEF Row, TypeInv
    <3>2. Copy(r) \in Row
      BY Fields DEF TypeInv
    <3> QED BY <1>8, <3>1, <3>2 DEF MarkUp, MarkDown, SaveForm
  <2>2. Past(r) /\ UNCHANGED used
    BY <1>8 DEF MarkUp, MarkDown, SaveForm, At, Past, Holds
  <2>3. Others(r) /\ (Ended(r) \/ Moved(r, "reup"))
    BY <1>8, Over, FormStep DEF MarkUp, MarkDown
  <2>4. Passive(r)
    BY <2>2, <2>3 DEF Passive, Pcs, Past, Holds
  <2>5. \A i \in Ids : rows[i] = NoRow => rows'[i] = NoRow
    BY <2>1, UpdateStep, Fields DEF TypeInv
  <2> QED BY <2>1, <2>2, <2>3, <2>4, <2>5, NamesUpdate DEF StaysDeleted, TypeInv, TypeOK
<1>9. ASSUME NEW r \in Requests, DeleteRow(r) PROVE IdsOnce' /\ UniqueNames' /\ StaysDeleted
  <2>1. /\ rows'[req[r].id] = NoRow /\ req[r].id \in Ids
        /\ \A i \in Ids \ {req[r].id} : rows'[i] = rows[i]
    BY <1>9, Fields DEF DeleteRow, TypeInv, TypeOK
  <2>2. StaysDeleted
    BY <2>1 DEF StaysDeleted, TypeInv, TypeOK
  <2>3. Live' \subseteq Live /\ \A i \in Live' : rows'[i] = rows[i]
    BY <2>1 DEF Live
  <2>4. UniqueNames'
    BY <2>3 DEF UniqueNames
  <2>5. Others(r) /\ UNCHANGED used /\ ~Holds(r)' /\ req'[r].op # "create"
    BY <1>9, Over, IdleType DEF DeleteRow, Ended, Holds
  <2>6. \A s \in Requests : req[s].id \in Ids
    BY Fields DEF TypeInv
  <2>7. \A i \in Ids : rows'[i] # NoRow => rows'[i] = rows[i]
    BY <2>3 DEF Live
  <2> QED BY <2>2, <2>3, <2>4, <2>5, <2>6, <2>7 DEF IdsOnce, Others, Holds, Past, Copy
<1>10. CASE Restart \/ Reboot
  <2>1. Kept /\ \A s \in Requests : req'[s].op = "none"
    BY <1>10, IdleType DEF Restart, Reboot
  <2>2. UniqueNames' /\ Live' = Live
    BY <2>1 DEF UniqueNames, Live
  <2> QED BY <1>0, <2>1, <2>2 DEF IdsOnce, Holds, Past
<1>11. CASE UNCHANGED vars
  BY <1>11 DEF vars, IdsOnce, UniqueNames, Live, Holds, Past, Copy
<1> QED BY <1>1, <1>2, <1>3, <1>4, <1>5, <1>6, <1>7, <1>8, <1>9, <1>10, <1>11 DEF Next


\* A request is let in while nobody waits for another.
Enters(r) ==
    /\ env.width = 1 => \A s \in Requests : ~Waited(s)
    /\ ~req'[r].gone
    /\ req'[r].alone <=> NoCalls

\* It goes on, for the last time when it is gone already, or is dropped.
GoesOn(r) ==
    /\ req[r].gone => Ended(r)
    /\ ~Ended(r) => req'[r].alone = req[r].alone
    /\ "abandon" \notin env.mishaps => ~req'[r].gone

Acts(r) == Others(r) /\ IF req[r].pc = "idle" THEN Enters(r) ELSE GoesOn(r)

LEMMA AdmittedAlone ==
    ASSUME TypeInv, NEW r \in Requests, Admitted(r), env.width = 1
    PROVE  \A s \in Requests : ~Waited(s)
<1>1. PICK busy : busy = {s \in Requests : req[s].pc # "idle" /\ ~req[s].gone}
  OBVIOUS
<1>2. busy \subseteq Requests /\ IsFiniteSet(Requests)
  BY <1>1, TasksAssumption
<1>3. IsFiniteSet(busy)
  BY <1>2, FS_Subset
<1>4. Cardinality(busy) \in Nat /\ (Cardinality(busy) = 0 <=> busy = {})
  BY <1>3, FS_CardinalityType, FS_EmptySet
<1>5. Cardinality(busy) < 1
  BY <1>1 DEF Admitted
<1>6. busy = {}
  BY <1>4, <1>5
<1> QED BY <1>1, <1>6 DEF Waited

(* Whose step it is. *)
Step(r) ==
    \/ BeginCreate(r) \/ \E op \in {"start", "stop", "update", "delete"} : Begin(r, op)
    \/ find_by_name(r) \/ InsertRow(r) \/ create_interface(r) \/ get(r)
    \/ interface_up(r) \/ ApplyNat(r) \/ RollBack(r) \/ MarkUp(r)
    \/ RemoveNat(r) \/ interface_down(r) \/ MarkDown(r)
    \/ SaveForm(r) \/ Reconfigure(r) \/ RemoveOldNat(r) \/ ApplyNewNat(r)
    \/ TakeDown(r) \/ DeleteRow(r) \/ Abandon(r)

LEMMA StepActs ==
    ASSUME TypeInv, NEW r \in Requests, Step(r)
    PROVE  env' = env /\ Acts(r)
<1>2. ASSUME BeginCreate(r) PROVE env' = env /\ Acts(r)
  <2>1. env' = env /\ req[r].pc = "idle" /\ Admitted(r)
    BY <1>2 DEF BeginCreate, Admitted
  <2> QED BY <1>2, <2>1, CreateBegins, AdmittedAlone DEF Acts, Enters
<1>3. ASSUME NEW op \in {"start", "stop", "update", "delete"}, Begin(r, op)
      PROVE  env' = env /\ Acts(r)
  <2>1. env' = env /\ req[r].pc = "idle" /\ Admitted(r)
    BY <1>3 DEF Begin, Admitted
  <2> QED BY <1>3, <2>1, OtherBegins, AdmittedAlone DEF Acts, Enters
<1>g. (Ended(r) => GoesOn(r)) /\ \A pc : Moved(r, pc) => GoesOn(r)
  BY IdleType DEF Ended, Moved, GoesOn
<1>4. ASSUME find_by_name(r) \/ InsertRow(r) \/ create_interface(r) \/ get(r) \/ interface_up(r)
             \/ ApplyNat(r) \/ RollBack(r)
      PROVE  env' = env /\ Acts(r)
  <2>1. env' = env /\ req[r].pc # "idle"
    BY <1>4 DEF find_by_name, InsertRow, create_interface, get, interface_up, ApplyNat, RollBack, At
  <2>2. get(r) => Others(r) /\ GoesOn(r)
    <3>1. CASE get(r) /\ rows[req[r].id] = NoRow
      BY <1>g, <3>1, Over DEF get
    <3>2. CASE get(r) /\ rows[req[r].id] # NoRow
      BY <3>2, GetReads DEF GoesOn
    <3> QED BY <3>1, <3>2
  <2>3. Others(r) /\ GoesOn(r)
    BY <1>4, <1>g, <2>2, FindStep, InsertStep, StartUp, NatStep, Over DEF create_interface, RollBack
  <2> QED BY <2>1, <2>3 DEF Acts
<1>5. ASSUME MarkUp(r) \/ RemoveNat(r) \/ interface_down(r) \/ MarkDown(r) \/ SaveForm(r) \/ Reconfigure(r)
             \/ RemoveOldNat(r) \/ ApplyNewNat(r) \/ TakeDown(r) \/ DeleteRow(r)
      PROVE  env' = env /\ Acts(r)
  <2>1. env' = env /\ req[r].pc # "idle"
    BY <1>5 DEF MarkUp, RemoveNat, interface_down, MarkDown, SaveForm, Reconfigure, RemoveOldNat,
                ApplyNewNat, TakeDown, DeleteRow, At
  <2>2. Others(r) /\ GoesOn(r)
    BY <1>5, <1>g, UnnatStep, StopDown, FormStep, ReupStep, ReunnatStep, RenatStep, TakeDownStep, Over
       DEF MarkUp, MarkDown, DeleteRow
  <2> QED BY <2>1, <2>2 DEF Acts
<1>6. ASSUME Abandon(r) PROVE env' = env /\ Acts(r)
  <2>1. env' = env /\ req[r].pc # "idle" /\ "abandon" \in env.mishaps
    BY <1>6 DEF Abandon
  <2> QED BY <1>6, <1>g, <2>1, AbandonStep DEF Acts, GoesOn, Left
<1> QED BY <1>2, <1>3, <1>4, <1>5, <1>6 DEF Step

LEMMA WhoActs ==
    ASSUME TypeInv, Next
    PROVE  /\ env' = env
           /\ \/ \E r \in Requests : Step(r) /\ Acts(r)
              \/ (Restart \/ Reboot) /\ \A s \in Requests : req'[s] = Idle
<1>1. (\E r \in Requests : Step(r)) \/ Restart \/ Reboot
  BY Zenon DEF Next, Step
<1>2. CASE Restart \/ Reboot
  BY <1>2 DEF Restart, Reboot
<1> QED BY <1>1, <1>2, StepActs

(* While there is one place, one request at a time is waited for, and one that came when no *)
(* call was left is the only one.                                                            *)
LEMMA AloneStep ==
    ASSUME TypeInv, OneAtATime, Unmixed, NoneGone, [Next]_vars
    PROVE  OneAtATime' /\ Unmixed' /\ NoneGone'
<1>1. CASE UNCHANGED vars
  BY <1>1 DEF vars, OneAtATime, Unmixed, NoneGone, Waited
<1>2. ASSUME NEW r \in Requests, Acts(r), env' = env PROVE OneAtATime' /\ Unmixed' /\ NoneGone'
  <2>1. \A s \in Requests \ {r} : req'[s] = req[s]
    BY <1>2 DEF Acts, Others
  <2>2. CASE req[r].pc = "idle"
    <3>1. Enters(r)
      BY <1>2, <2>2 DEF Acts
    <3>2. OneAtATime'
      BY <1>2, <2>1, <3>1 DEF OneAtATime, Enters, Waited
    <3>3. Unmixed'
      BY <1>2, <2>1, <2>2, <3>1 DEF Unmixed, Enters, Waited, NoCalls
    <3>4. NoneGone'
      BY <1>2, <2>1, <2>2, <3>1 DEF NoneGone, Enters, Waited, NoCalls
    <3> QED BY <3>2, <3>3, <3>4
  <2>3. CASE req[r].pc # "idle"
    <3>1. GoesOn(r)
      BY <1>2, <2>3 DEF Acts
    <3>2. Waited(r)' => Waited(r) /\ req'[r].alone = req[r].alone
      BY <2>3, <3>1, IdleType DEF GoesOn, Waited, Ended
    <3>3. \A s \in Requests : req'[s].pc # "idle" => req[s].pc # "idle"
      BY <2>1, <2>3
    <3>4. OneAtATime'
      BY <1>2, <2>1, <3>2 DEF OneAtATime, Waited
    <3>5. Unmixed'
      BY <1>2, <2>1, <3>2, <3>3 DEF Unmixed, Waited
    <3>6. NoneGone'
      BY <1>2, <2>1, <2>3, <3>1, IdleType DEF NoneGone, GoesOn, Ended
    <3> QED BY <3>4, <3>5, <3>6
  <2> QED BY <2>2, <2>3
<1>3. ASSUME \A s \in Requests : req'[s] = Idle PROVE OneAtATime' /\ Unmixed' /\ NoneGone'
  BY <1>3, IdleType DEF OneAtATime, Unmixed, NoneGone, Waited
<1> QED BY <1>1, <1>2, <1>3, WhoActs

(* start brings the link up before NAT, and reaches its last step only when the gateway, if *)
(* there is one, is masqueraded. *)
LEMMA ServedStep ==
    ASSUME TypeInv, Unmixed, LinkFirst, StartedIsServed, [Next]_vars
    PROVE  LinkFirst' /\ StartedIsServed'
<1> SUFFICES ASSUME env'.width = 1, NEW s \in Requests,
                    req'[s].op = "start", req'[s].pc \in {"nat", "save"}, req'[s].alone, ~req'[s].gone
             PROVE  /\ req'[s].pc = "nat" => (link[Copy(s).name] = "up")'
                    /\ req'[s].pc = "save" => Served(Copy(s))'
  BY DEF LinkFirst, StartedIsServed, At
<1>1. CASE UNCHANGED vars
  BY <1>1 DEF vars, LinkFirst, StartedIsServed, At, Copy, Served, HasGw
<1>2. ASSUME NEW r \in Requests, Acts(r), env.width = 1 PROVE r = s
  <2> SUFFICES ASSUME r # s PROVE FALSE
    OBVIOUS
  <2>1. req'[s] = req[s]
    BY <1>2 DEF Acts, Others
  <2>2. Waited(s) /\ req[s].alone
    BY <2>1 DEF Waited
  <2>3. req[r].pc = "idle"
    BY <1>2, <2>2 DEF Unmixed
  <2> QED BY <1>2, <2>2, <2>3 DEF Acts, Enters
<1>3. CASE Next
  <2>1. env' = env
    BY <1>3, WhoActs
  <2>2. req'[s] # Idle
    BY IdleType
  <2>3. Step(s) /\ Acts(s)
    BY <1>2, <1>3, <2>1, <2>2, WhoActs
  <2>4. Copy(s)' = req'[s].row /\ ~Ended(s)
    BY IdleType DEF Copy, Ended
  <2>5. CASE interface_up(s)
    <3>1. Up(Copy(s).name) /\ Moved(s, IF HasGw(Copy(s)) THEN "nat" ELSE "save")
      BY <2>4, <2>5, StartUp
    <3>2. Copy(s)' = Copy(s) /\ link'[Copy(s).name] = "up"
      BY <2>4, <3>1, Fields DEF Moved, Copy, Up, TypeInv, TypeOK
    <3>3. req'[s].pc = "save" => ~HasGw(Copy(s))
      BY <3>1 DEF Moved
    <3> QED BY <3>2, <3>3 DEF Served, HasGw
  <2>6. CASE ApplyNat(s)
    <3>1. HasGw(Copy(s)) /\ (Moved(s, "rollback") \/
             /\ Moved(s, "save")
             /\ \E o \in ApplyOutcomes(host, Copy(s).name, Copy(s).gw, Copy(s).v6, env.faults) :
                   o.ok /\ host' = o.host)
      BY <2>4, <2>6, NatStep
    <3>2. Moved(s, "save") /\ \E o \in ApplyOutcomes(host, Copy(s).name, Copy(s).gw, Copy(s).v6, env.faults) :
                                  o.ok /\ host' = o.host
      BY <3>1 DEF Moved
    <3>3. link[Copy(s).name] = "up" /\ UNCHANGED link
      BY <2>1, <2>6, <3>2 DEF ApplyNat, LinkFirst, Moved
    <3>4. Masqueraded(host', Copy(s).name, Copy(s).gw, Copy(s).v6)
      BY <3>1, <3>2, Fields, ApplyEffect DEF TypeInv, TypeOK
    <3>5. Copy(s)' = Copy(s)
      BY <3>2 DEF Moved, Copy
    <3> QED BY <3>2, <3>3, <3>4, <3>5 DEF Served, Moved
  <2>7. CASE get(s)
    <3>1. req'[s].pc \in {"up", "unnat", "down", "save"} /\ (req'[s].op = "start" => req'[s].pc = "up")
      BY <2>4, <2>7, GetReads, Over DEF get
    <3> QED BY <3>1
  <2>8. CASE \/ BeginCreate(s) \/ \E op \in {"start", "stop", "update", "delete"} : Begin(s, op)
             \/ find_by_name(s) \/ InsertRow(s) \/ create_interface(s) \/ RollBack(s) \/ MarkUp(s)
    <3>1. \/ req'[s].pc \in {"find", "get", "insert", "link"} \/ Ended(s)
      BY <2>8, CreateBegins, OtherBegins, FindStep, InsertStep, Over
         DEF create_interface, RollBack, MarkUp, Moved
    <3> QED BY <2>4, <3>1
  <2>9. CASE \/ RemoveNat(s) \/ interface_down(s) \/ MarkDown(s) \/ SaveForm(s) \/ Reconfigure(s)
             \/ RemoveOldNat(s) \/ ApplyNewNat(s) \/ TakeDown(s) \/ DeleteRow(s)
    <3>1. req[s].op \in {"stop", "update", "delete"}
      BY <2>9 DEF RemoveNat, interface_down, MarkDown, SaveForm, Reconfigure, RemoveOldNat, ApplyNewNat,
                  TakeDown, DeleteRow, At
    <3>2. Ended(s) \/ req'[s].op = req[s].op
      BY <2>9, UnnatStep, StopDown, FormStep, ReupStep, ReunnatStep, RenatStep, TakeDownStep, Over
         DEF MarkDown, DeleteRow, Moved
    <3> QED BY <2>4, <3>1, <3>2
  <2>10. CASE Abandon(s)
    BY <2>4, <2>10, AbandonStep DEF Left
  <2> QED BY <2>3, <2>5, <2>6, <2>7, <2>8, <2>9, <2>10 DEF Step
<1> QED BY <1>1, <1>3


LEMMA ServiceStart == Init => ServiceInv
<1> SUFFICES ASSUME Init PROVE ServiceInv
  OBVIOUS
<1>1. TypeInv /\ Live = {} /\ \A r \in Requests : req[r].op = "none" /\ req[r].pc = "idle"
  BY TypeStart, IdleType DEF Init, Live
<1>2. \A r \in Requests : ~req[r].gone
  BY IdleType DEF Init
<1> QED BY <1>1, <1>2 DEF ServiceInv, IdsOnce, UniqueNames, OneAtATime, Unmixed, NoneGone, Waited,
                          LinkFirst, StartedIsServed, Holds, Past, At

LEMMA ServiceStep == ServiceInv /\ [Next]_vars => ServiceInv' /\ (StaysDeleted \/ UNCHANGED vars)
BY TypeStep, NamesStep, AloneStep, ServedStep DEF ServiceInv

(* Two racing creates of one name never leave two rows: insert refuses a name that is taken, *)
(* ids are given out once, and the whole row that an earlier reader writes back has the name *)
(* that the row still has.                                                                   *)
THEOREM NamesAreUnique == Spec => []UniqueNames
<1>1. ServiceInv => UniqueNames
  BY DEF ServiceInv
<1> QED BY <1>1, ServiceStart, ServiceStep, PTL DEF Spec

(* A row that start, stop or update read before it was deleted is not written back: an UPDATE *)
(* finds no row, and an insert uses an id that has not been given out.                        *)
THEOREM RowsStayDeleted == Spec => NoResurrection
<1>1. ServiceInv /\ [Next]_vars => [StaysDeleted]_vars
  BY ServiceStep
<1>2. Spec => []ServiceInv
  BY ServiceStart, ServiceStep, PTL DEF Spec
<1> QED BY <1>1, <1>2, PTL DEF Spec, NoResurrection

(* Whatever failed, was dropped or was restarted before, start records "up" only when the link *)
(* is up and the gateway masqueraded, while no other request runs at the same time and no call *)
(* of a dropped one was still to take its effect when it began.                                *)
THEOREM StartServes == Spec => []StartedIsServed
<1>1. ServiceInv => StartedIsServed
  BY DEF ServiceInv
<1> QED BY <1>1, ServiceStart, ServiceStep, PTL DEF Spec


-----------------------------------------------------------------------------
(* What owns a link or a rule while nothing fails *)

UpRow(i) == rows[i] # NoRow /\ rows[i].status = "up"
V4(rule) == host.rules["v4"][rule]

\* What each step of a request knows of its row.
Reads(r) ==
    /\ Past(r) /\ ~At(r, "update", "save") => rows[req[r].id] = Copy(r)
    /\ At(r, "update", "save") =>
          /\ rows[req[r].id] # NoRow
          /\ rows[req[r].id].gw = req[r].old
          /\ rows[req[r].id].name = Copy(r).name
          /\ rows[req[r].id].status = Copy(r).status
    /\ req[r].pc \in {"reup", "reunnat", "renat"} => Copy(r).status = "up"
    /\ req[r].op = "create" => Copy(r).status = "down"
    /\ req[r].pc # "rollback"

\* stop and delete have removed the NAT rules, and the link.
NatGone(r) == req[r].op \in {"stop", "delete"} /\ req[r].pc \in {"down", "save", "destroy", "drop"}
LinkGone(r) == req[r].op \in {"stop", "delete"} /\ req[r].pc \in {"save", "destroy", "drop"}
Removed(r) ==
    /\ NatGone(r) => /\ V4(In(Copy(r).name)) = 0 /\ V4(Out(Copy(r).name)) = 0
                     /\ HasGw(Copy(r)) => V4(Masq(Copy(r).gw)) = 0
    /\ LinkGone(r) => link[Copy(r).name] = "absent"

\* start has brought the link up; update has stored its form and not yet removed the NAT
\* of the old gateway.
Starting(r) == req[r].op = "start" /\ req[r].pc \in {"nat", "save"}
Moving(r) == req[r].op = "update" /\ req[r].pc \in {"reup", "reunnat"} /\ req[r].old # NoGw

\* The row or request that a link, the chain rules of an interface or a masquerade is there for.
LinkOwner(w) ==
    \/ \E i \in Ids : UpRow(i) /\ rows[i].name = w
    \/ \E r \in Requests : Starting(r) /\ Copy(r).name = w
PairOwner(w) ==
    \/ \E i \in Ids : UpRow(i) /\ rows[i].name = w /\ HasGw(rows[i])
    \/ \E r \in Requests : At(r, "start", "save") /\ HasGw(Copy(r)) /\ Copy(r).name = w
    \/ \E r \in Requests : Moving(r) /\ Copy(r).name = w
MasqOwner(g) ==
    \/ \E i \in Ids : UpRow(i) /\ rows[i].gw = g
    \/ \E r \in Requests : At(r, "start", "save") /\ Copy(r).gw = g
    \/ \E r \in Requests : Moving(r) /\ req[r].old = g

Owned ==
    /\ \A w \in Wgs : link[w] = "up" => LinkOwner(w)
    /\ \A w \in Wgs : V4(In(w)) > 0 \/ V4(Out(w)) > 0 => PairOwner(w)
    /\ \A g \in Gateways : V4(Masq(g)) > 0 => MasqOwner(g)

Tidy ==
    /\ \A rule \in Rule : V4(rule) <= 1
    /\ \A r \in Requests : Reads(r) /\ Removed(r)
    /\ Owned

TidyInv == ServiceInv /\ (Peaceful => Tidy)

LEMMA RuleNames ==
    ASSUME NEW w \in Wgs, NEW v \in Wgs, NEW g \in Gateways, NEW k \in Gateways
    PROVE  /\ In(w) \in Rule /\ Out(w) \in Rule /\ Masq(g) \in Rule
           /\ In(w) \in Own(v, k) <=> w = v
           /\ Out(w) \in Own(v, k) <=> w = v
           /\ Masq(g) \in Own(v, k) <=> g = k
BY DEF In, Out, Masq, Own, Rule

LEMMA Counts ==
    ASSUME TypeInv, NEW rule \in Rule
    PROVE  V4(rule) \in Nat
BY DEF TypeInv, TypeOK, Host, Fams, V4

\* r is the only request under way, and its step leaves the environment as it is.
Lone(r) ==
    /\ ServiceInv /\ TypeInv' /\ Peaceful /\ Tidy
    /\ Others(r) /\ env' = env
    /\ ~req[r].gone /\ ~req'[r].gone
    /\ \A s \in Requests \ {r} : req[s].op = "none" /\ req[s].pc = "idle"

LEMMA LoneStep ==
    ASSUME TidyInv, Peaceful, NEW r \in Requests, Step(r)
    PROVE  Lone(r)
<1>1. TypeInv' /\ Others(r) /\ env' = env /\ Acts(r)
  BY TypeStep, StepActs DEF TidyInv, ServiceInv, Next, Step, Acts
<1>2. \A s \in Requests : ~req[s].gone
  BY DEF TidyInv, ServiceInv, Peaceful, NoneGone
<1>3. \A s \in Requests \ {r} : req[s].pc = "idle"
  BY <1>1, <1>2 DEF TidyInv, ServiceInv, Peaceful, OneAtATime, Waited, Acts, Enters
<1>4. ~req'[r].gone
  BY <1>1, <1>2 DEF Acts, Enters, GoesOn, Peaceful
<1> QED BY <1>1, <1>2, <1>3, <1>4, Busiest DEF Lone, TidyInv, ServiceInv

(* What is left to show of a step. *)
LEMMA TidyGoal ==
    ASSUME NEW r \in Requests, Lone(r),
           \A rule \in Rule : V4(rule)' <= 1,
           Reads(r)', Removed(r)', Owned'
    PROVE  Tidy'
<1>1. \A s \in Requests \ {r} : req'[s].op = "none" /\ req'[s].pc = "idle"
  BY DEF Lone, Others
<1>2. \A s \in Requests \ {r} : Reads(s)' /\ Removed(s)'
  BY <1>1 DEF Reads, Removed, Past, Holds, At, NatGone, LinkGone
<1> QED BY <1>2 DEF Tidy

(* A row that is up keeps what it owns when only requests that own nothing move. *)
LEMMA OwnersKept ==
    ASSUME NEW r \in Requests, Lone(r), ~Starting(r), ~Moving(r),
           \A i \in Ids : UpRow(i) => UpRow(i)' /\ rows'[i].name = rows[i].name /\ rows'[i].gw = rows[i].gw
    PROVE  /\ \A w \in Wgs : LinkOwner(w) => LinkOwner(w)'
           /\ \A w \in Wgs : PairOwner(w) => PairOwner(w)'
           /\ \A g \in Gateways : MasqOwner(g) => MasqOwner(g)'
<1>1. \A s \in Requests : ~Starting(s) /\ ~Moving(s) /\ ~At(s, "start", "save")
  BY DEF Lone, Starting, Moving, At
<1> QED BY <1>1 DEF LinkOwner, PairOwner, MasqOwner, HasGw

(* A request that ends knows nothing any more. *)
LEMMA EndKnows ==
    ASSUME NEW r \in Requests, Ended(r)
    PROVE  Reads(r)' /\ Removed(r)'
BY IdleType DEF Ended, Reads, Removed, Past, Holds, At, NatGone, LinkGone


(* Links and rules that no step touches, with their owners, stay owned. *)
LEMMA OwnedKept ==
    ASSUME NEW r \in Requests, Lone(r), ~Starting(r), ~Moving(r), UNCHANGED host,
           \A w \in Wgs : link'[w] = "up" => link[w] = "up",
           \A i \in Ids : UpRow(i) => UpRow(i)' /\ rows'[i].name = rows[i].name /\ rows'[i].gw = rows[i].gw
    PROVE  Owned' /\ \A rule \in Rule : V4(rule)' <= 1
BY OwnersKept DEF Lone, Tidy, Owned, V4

LEMMA BeginTidy ==
    ASSUME NEW r \in Requests, Lone(r),
           BeginCreate(r) \/ \E op \in {"start", "stop", "update", "delete"} : Begin(r, op)
    PROVE  Tidy'
<1> USE DEF Lone, ServiceInv
<1>1. UNCHANGED <<rows, link, host>> /\ req[r].pc = "idle"
  BY DEF BeginCreate, Begin, Admitted
<1>2. ~Starting(r) /\ ~Moving(r)
  BY <1>1 DEF Starting, Moving
<1>3. \/ req'[r].op = "create" /\ req'[r].pc = "find" /\ req'[r].row.status = "down"
      \/ req'[r].op # "create" /\ req'[r].pc = "get"
  BY CreateBegins, OtherBegins
<1>4. Reads(r)' /\ Removed(r)'
  BY <1>3 DEF Reads, Removed, Past, Holds, At, NatGone, LinkGone, Copy
<1>5. \A i \in Ids : UpRow(i) => UpRow(i)' /\ rows'[i].name = rows[i].name /\ rows'[i].gw = rows[i].gw
  BY <1>1 DEF UpRow
<1>6. Owned' /\ \A rule \in Rule : V4(rule)' <= 1
  BY <1>1, <1>2, <1>5, OwnedKept
<1> QED BY <1>4, <1>6, TidyGoal

LEMMA CreateTidy ==
    ASSUME NEW r \in Requests, Lone(r), find_by_name(r) \/ InsertRow(r) \/ create_interface(r)
    PROVE  Tidy'
<1> USE DEF Lone, ServiceInv
<1>1. UNCHANGED host /\ req[r].op = "create" /\ ~Starting(r) /\ ~Moving(r)
  BY DEF find_by_name, InsertRow, create_interface, At, Starting, Moving
<1>2. \A w \in Wgs : link'[w] = "up" => link[w] = "up"
  <2>1. link' = link \/ link' = [link EXCEPT ![Copy(r).name] = IF @ = "absent" THEN "bare" ELSE @]
    BY DEF find_by_name, InsertRow, create_interface, BestEffort
  <2> QED BY <2>1 DEF TypeInv, TypeOK
<1>3. \A i \in Ids : UpRow(i) => UpRow(i)' /\ rows'[i].name = rows[i].name /\ rows'[i].gw = rows[i].gw
  <2>1. CASE UNCHANGED rows
    BY <2>1 DEF UpRow
  <2>2. CASE rows' = [rows EXCEPT ![req[r].id] = Copy(r)] /\ InsertRow(r)
    <3>1. rows[req[r].id] = NoRow
      BY <2>2, Fields DEF InsertRow, At, IdsOnce, Live, TypeInv
    <3> QED BY <2>2, <3>1 DEF UpRow, TypeInv, TypeOK
  <2> QED BY <2>1, <2>2, InsertStep DEF find_by_name, create_interface
<1>4. Reads(r)' /\ Removed(r)'
  <2>1. CASE Ended(r)
    BY <2>1, EndKnows
  <2>2. CASE Moved(r, "insert") \/ Moved(r, "link")
    BY <1>1, <2>2 DEF Moved, Reads, Removed, Past, Holds, At, NatGone, LinkGone, Copy, Tidy
  <2> QED BY <2>1, <2>2, FindStep, InsertStep, Over DEF create_interface
<1>5. Owned' /\ \A rule \in Rule : V4(rule)' <= 1
  BY <1>1, <1>2, <1>3, OwnedKept
<1> QED BY <1>4, <1>5, TidyGoal

(* The row that a request has read is the only row of its name. *)
LEMMA OwnRow ==
    ASSUME ServiceInv, NEW r \in Requests, NEW i \in Ids,
           rows[i] # NoRow, rows[req[r].id] # NoRow, rows[i].name = rows[req[r].id].name
    PROVE  i = req[r].id
BY Fields DEF ServiceInv, UniqueNames, Live, TypeInv

LEMMA GetTidy ==
    ASSUME NEW r \in Requests, Lone(r), get(r)
    PROVE  Tidy'
<1> USE DEF Lone, ServiceInv
<1>1. UNCHANGED <<rows, link, host>> /\ req[r].pc = "get" /\ Holds(r)
  BY Busiest DEF get
<1>2. ~Starting(r) /\ ~Moving(r)
  BY <1>1 DEF Starting, Moving
<1>3. \A i \in Ids : UpRow(i) => UpRow(i)' /\ rows'[i].name = rows[i].name /\ rows'[i].gw = rows[i].gw
  BY <1>1 DEF UpRow
<1>4. Owned' /\ \A rule \in Rule : V4(rule)' <= 1
  BY <1>1, <1>2, <1>3, OwnedKept
<1>5. CASE rows[req[r].id] = NoRow
  <2>1. Ended(r)
    BY <1>5, Over DEF get
  <2> QED BY <1>4, <2>1, EndKnows, TidyGoal
<1>6. CASE rows[req[r].id] # NoRow
  <2>1. PICK row \in Row : row = rows[req[r].id]
    BY <1>6, Fields DEF TypeInv, TypeOK
  <2>2. /\ req'[r].op = req[r].op /\ req'[r].id = req[r].id
        /\ req'[r].row.name = row.name /\ req'[r].row.status = row.status
        /\ req'[r].op # "update" =>
              /\ req'[r].row = row
              /\ req'[r].pc = IF req'[r].op = "start" THEN "up" ELSE IF HasGw(row) THEN "unnat" ELSE "down"
        /\ req'[r].op = "update" => req'[r].pc = "save" /\ req'[r].old = row.gw
    BY <1>6, <2>1, GetReads
  <2>3. Reads(r)'
    BY <1>1, <1>6, <2>1, <2>2 DEF Reads, Past, Holds, At, Copy
  <2>4. Removed(r)'
    <3>1. CASE ~NatGone(r)'
      <4>1. ~LinkGone(r)'
        BY <3>1 DEF NatGone, LinkGone
      <4> QED BY <3>1, <4>1 DEF Removed
    <3>2. CASE NatGone(r)'
      <4>1. ~HasGw(row) /\ req'[r].row = row /\ req'[r].pc = "down"
        BY <2>2, <3>2 DEF NatGone
      <4>2. row.name \in Wgs
        BY DEF Row
      <4>3. ~PairOwner(row.name)
        <5>1. \A i \in Ids : UpRow(i) /\ rows[i].name = row.name => ~HasGw(rows[i])
          BY <1>6, <2>1, <4>1, OwnRow DEF UpRow
        <5>2. \A s \in Requests : ~At(s, "start", "save") /\ ~Moving(s)
          BY <1>1, <1>2 DEF At, Moving
        <5> QED BY <5>1, <5>2 DEF PairOwner
      <4>4. ~(V4(In(row.name)) > 0) /\ ~(V4(Out(row.name)) > 0)
        BY <4>2, <4>3 DEF Tidy, Owned
      <4>5. V4(In(row.name)) \in Nat /\ V4(Out(row.name)) \in Nat
        BY <4>2, Counts, RuleNames, NamesAssumption
      <4>6. V4(In(row.name)) = 0 /\ V4(Out(row.name)) = 0
        BY <4>4, <4>5
      <4> QED BY <1>1, <4>1, <4>6 DEF Removed, LinkGone, Copy, V4
    <3> QED BY <3>1, <3>2
  <2> QED BY <1>4, <2>3, <2>4, TidyGoal
<1> QED BY <1>5, <1>6


(* What a call of the adapter does to the rules while nothing fails. *)
LEMMA AppliedRules ==
    ASSUME NEW r \in Requests, Lone(r), HasGw(Copy(r)),
           NEW o \in ApplyOutcomes(host, Copy(r).name, Copy(r).gw, Copy(r).v6, env.faults),
           host' = o.host
    PROVE  /\ Copy(r).gw \in Gateways /\ Copy(r).name \in Wgs
           /\ Masqueraded(host', Copy(r).name, Copy(r).gw, Copy(r).v6)
           /\ \A rule \in Rule : /\ V4(rule)' <= 1
                                 /\ rule \notin Own(Copy(r).name, Copy(r).gw) => V4(rule)' = V4(rule)
<1>1. /\ Copy(r).name \in Wgs /\ Copy(r).gw \in Gateways /\ Copy(r).v6 \in BOOLEAN
      /\ host \in Host /\ env.faults = {}
  BY Fields DEF Lone, ServiceInv, TypeInv, TypeOK, Peaceful
<1>2. /\ o.ok => Masqueraded(o.host, Copy(r).name, Copy(r).gw, Copy(r).v6)
      /\ o.ok
      /\ \A rule \in Rule : o.host.rules["v4"][rule] =
             IF rule \in Own(Copy(r).name, Copy(r).gw) /\ host.rules["v4"][rule] = 0 THEN 1
             ELSE host.rules["v4"][rule]
  BY <1>1, ApplyEffect
<1>3. \A rule \in Rule : V4(rule) <= 1
  BY DEF Lone, Tidy
<1> QED BY <1>1, <1>2, <1>3 DEF V4

LEMMA StrippedRules ==
    ASSUME NEW r \in Requests, NEW gw \in Gateways, Lone(r), Stripped(r, gw)
    PROVE  \A rule \in Rule : /\ V4(rule)' <= 1
                              /\ rule \in Own(Copy(r).name, gw) => V4(rule)' = 0
                              /\ rule \notin Own(Copy(r).name, gw) => V4(rule)' = V4(rule)
<1> SUFFICES ASSUME NEW rule \in Rule
             PROVE  /\ V4(rule)' <= 1
                    /\ rule \in Own(Copy(r).name, gw) => V4(rule)' = 0
                    /\ rule \notin Own(Copy(r).name, gw) => V4(rule)' = V4(rule)
  OBVIOUS
<1>1. V4(rule) \in Nat /\ V4(rule) <= 1
  BY Counts DEF Lone, ServiceInv, Tidy
<1>2. V4(rule)' = IF rule \in Own(Copy(r).name, gw) /\ V4(rule) > 0 THEN V4(rule) - 1 ELSE V4(rule)
  BY DEF Stripped, Lone, Peaceful, V4
<1> QED BY <1>1, <1>2

LEMMA StartTidy ==
    ASSUME NEW r \in Requests, Lone(r), interface_up(r)
    PROVE  Tidy'
<1> USE DEF Lone, ServiceInv
<1>1. UNCHANGED <<rows, host>> /\ At(r, "start", "up") /\ ~Starting(r) /\ ~Moving(r)
  BY DEF interface_up, At, Starting, Moving
<1>2. \A i \in Ids : UpRow(i) => UpRow(i)' /\ rows'[i].name = rows[i].name /\ rows'[i].gw = rows[i].gw
  BY <1>1 DEF UpRow
<1>3. CASE Ended(r) /\ UNCHANGED link
  <2>1. Owned' /\ \A rule \in Rule : V4(rule)' <= 1
    BY <1>1, <1>2, <1>3, OwnedKept
  <2> QED BY <1>3, <2>1, EndKnows, TidyGoal
<1>4. CASE Up(Copy(r).name) /\ Moved(r, IF HasGw(Copy(r)) THEN "nat" ELSE "save")
  <2>1. /\ req'[r].op = "start" /\ req'[r].pc \in {"nat", "save"} /\ Copy(r)' = Copy(r)
        /\ req'[r].id = req[r].id
    BY <1>1, <1>4 DEF Moved, At, Copy
  <2>2. Reads(r)' /\ Removed(r)'
    BY <1>1, <2>1 DEF Tidy, Reads, Removed, Past, Holds, At, NatGone, LinkGone
  <2>3. \A w \in Wgs : link'[w] = "up" => LinkOwner(w)'
    <3> SUFFICES ASSUME NEW w \in Wgs, link'[w] = "up" PROVE LinkOwner(w)'
      OBVIOUS
    <3>1. CASE w = Copy(r).name
      BY <2>1, <3>1 DEF LinkOwner, Starting
    <3>2. CASE w # Copy(r).name
      <4>1. link[w] = "up"
        BY <1>4, <3>2 DEF Up, TypeInv, TypeOK
      <4> QED BY <1>1, <1>2, <4>1, OwnersKept DEF Tidy, Owned
    <3> QED BY <3>1, <3>2
  <2>4. Owned' /\ \A rule \in Rule : V4(rule)' <= 1
    BY <1>1, <1>2, <2>3, OwnersKept DEF Tidy, Owned, V4
  <2> QED BY <2>2, <2>4, TidyGoal
<1> QED BY <1>3, <1>4, StartUp

LEMMA NatTidy ==
    ASSUME NEW r \in Requests, Lone(r), ApplyNat(r)
    PROVE  Tidy'
<1> USE DEF Lone, ServiceInv
<1>1. UNCHANGED <<rows, link>> /\ At(r, "start", "nat") /\ HasGw(Copy(r))
  BY NatStep DEF ApplyNat
<1>2. Moved(r, "save") /\ \E o \in ApplyOutcomes(host, Copy(r).name, Copy(r).gw, Copy(r).v6, env.faults) :
                              host' = o.host
  BY NatStep DEF Peaceful
<1>3. /\ req'[r].op = "start" /\ req'[r].pc = "save" /\ Copy(r)' = Copy(r) /\ req'[r].id = req[r].id
      /\ HasGw(Copy(r))'
  BY <1>1, <1>2 DEF Moved, At, Copy, HasGw
<1>4. /\ Copy(r).gw \in Gateways /\ Copy(r).name \in Wgs
      /\ \A rule \in Rule : /\ V4(rule)' <= 1
                            /\ rule \notin Own(Copy(r).name, Copy(r).gw) => V4(rule)' = V4(rule)
  BY <1>1, <1>2, AppliedRules
<1>5. Reads(r)' /\ Removed(r)'
  BY <1>1, <1>3 DEF Tidy, Reads, Removed, Past, Holds, At, NatGone, LinkGone
<1>6. \A s \in Requests \ {r} : ~Starting(s) /\ ~At(s, "start", "save") /\ ~Moving(s)
  BY DEF Starting, At, Moving
<1>7. ~Moving(r) /\ ~At(r, "start", "save")
  BY <1>1 DEF Moving, At
<1>8. \A w \in Wgs : link'[w] = "up" => LinkOwner(w)'
  <2> SUFFICES ASSUME NEW w \in Wgs, link[w] = "up" PROVE LinkOwner(w)'
    BY <1>1
  <2>1. LinkOwner(w)
    BY DEF Tidy, Owned
  <2>2. CASE \E i \in Ids : UpRow(i) /\ rows[i].name = w
    BY <1>1, <2>2 DEF LinkOwner, UpRow
  <2>3. CASE Copy(r).name = w
    BY <1>3, <2>3 DEF LinkOwner, Starting
  <2> QED BY <1>6, <2>1, <2>2, <2>3 DEF LinkOwner
<1>9. \A w \in Wgs : PairOwner(w) => PairOwner(w)'
  BY <1>1, <1>6, <1>7 DEF PairOwner, UpRow
<1>10. \A g \in Gateways : MasqOwner(g) => MasqOwner(g)'
  BY <1>1, <1>6, <1>7 DEF MasqOwner, UpRow
<1>11. /\ \A w \in Wgs : w = Copy(r).name => PairOwner(w)'
       /\ \A g \in Gateways : g = Copy(r).gw => MasqOwner(g)'
  BY <1>3 DEF PairOwner, MasqOwner, At
<1>12. \A w \in Wgs : V4(In(w))' > 0 \/ V4(Out(w))' > 0 => PairOwner(w)'
  <2> SUFFICES ASSUME NEW w \in Wgs, w # Copy(r).name, V4(In(w))' > 0 \/ V4(Out(w))' > 0
               PROVE  PairOwner(w)'
    BY <1>11
  <2>1. V4(In(w))' = V4(In(w)) /\ V4(Out(w))' = V4(Out(w))
    BY <1>4, RuleNames
  <2> QED BY <1>9, <2>1 DEF Tidy, Owned
<1>13. \A g \in Gateways : V4(Masq(g))' > 0 => MasqOwner(g)'
  <2> SUFFICES ASSUME NEW g \in Gateways, g # Copy(r).gw, V4(Masq(g))' > 0 PROVE MasqOwner(g)'
    BY <1>11
  <2>1. V4(Masq(g))' = V4(Masq(g))
    BY <1>4, RuleNames
  <2> QED BY <1>10, <2>1 DEF Tidy, Owned
<1> QED BY <1>4, <1>5, <1>8, <1>12, <1>13, TidyGoal DEF Owned

(* Requests that write the row back and end. *)
LEMMA MarkUpTidy ==
    ASSUME NEW r \in Requests, Lone(r), MarkUp(r)
    PROVE  Tidy'
<1> USE DEF Lone, ServiceInv
<1>1. UNCHANGED <<link, host>> /\ At(r, "start", "save") /\ Ended(r)
  BY Over DEF MarkUp
<1>2. PICK k \in Ids : k = req[r].id /\ rows[k] = Copy(r) /\ Copy(r) \in Row
  BY <1>1, Fields DEF Tidy, Reads, Past, Holds, At, TypeInv
<1>3. PICK row \in Row : row = [Copy(r) EXCEPT !.status = "up"]
  BY <1>2 DEF Row
<1>4. row.name = Copy(r).name /\ row.gw = Copy(r).gw /\ row.status = "up"
  BY <1>2, <1>3 DEF Row
<1>5. rows'[k] = row /\ \A j \in Ids \ {k} : rows'[j] = rows[j]
  <2>1. Update(k, row)
    BY <1>2, <1>3, Zenon DEF MarkUp
  <2> QED BY <1>2, <2>1, NoRowTypeAssumption, UpdateStep DEF TypeInv
<1>6. UpRow(k)' /\ rows'[k].name = Copy(r).name /\ rows'[k].gw = Copy(r).gw
  BY <1>4, <1>5, NoRowTypeAssumption DEF UpRow
<1>7. \A i \in Ids : UpRow(i) => UpRow(i)' /\ rows'[i].name = rows[i].name /\ rows'[i].gw = rows[i].gw
  BY <1>2, <1>5, <1>6 DEF UpRow
<1>8. \A s \in Requests : /\ Starting(s) => s = r
                          /\ At(s, "start", "save") => s = r
                          /\ ~Moving(s)
  BY <1>1 DEF Starting, At, Moving
<1>9. \A w \in Wgs : LinkOwner(w) => LinkOwner(w)'
  BY <1>2, <1>6, <1>7, <1>8 DEF LinkOwner
<1>10. \A w \in Wgs : PairOwner(w) => PairOwner(w)'
  BY <1>2, <1>6, <1>7, <1>8 DEF PairOwner, HasGw
<1>11. \A g \in Gateways : MasqOwner(g) => MasqOwner(g)'
  BY <1>2, <1>6, <1>7, <1>8 DEF MasqOwner
<1>12. Owned' /\ \A rule \in Rule : V4(rule)' <= 1
  BY <1>1, <1>9, <1>10, <1>11 DEF Tidy, Owned, V4
<1> QED BY <1>1, <1>12, EndKnows, TidyGoal


(* stop and delete take the rules away first. *)
LEMMA UnnatTidy ==
    ASSUME NEW r \in Requests, Lone(r), RemoveNat(r)
    PROVE  Tidy'
<1> USE DEF Lone, ServiceInv
<1>1. /\ UNCHANGED <<rows, link>> /\ req[r].op \in {"stop", "delete"} /\ req[r].pc = "unnat"
      /\ ~Starting(r) /\ ~Moving(r)
  BY DEF RemoveNat, Starting, Moving
<1>2. HasGw(Copy(r)) /\ Copy(r).gw \in Gateways /\ Copy(r).name \in Wgs /\ Stripped(r, Copy(r).gw)
  BY UnnatStep, Fields DEF TypeInv
<1>3. /\ req'[r].op = req[r].op /\ req'[r].pc = "down" /\ Copy(r)' = Copy(r) /\ req'[r].id = req[r].id
  BY UnnatStep DEF Moved, Copy
<1>4. \A rule \in Rule : /\ V4(rule)' <= 1
                         /\ rule \in Own(Copy(r).name, Copy(r).gw) => V4(rule)' = 0
                         /\ rule \notin Own(Copy(r).name, Copy(r).gw) => V4(rule)' = V4(rule)
  BY <1>2, StrippedRules
<1>5. Reads(r)'
  BY <1>1, <1>3 DEF Tidy, Reads, Past, Holds, At
<1>6. Removed(r)'
  <2>1. V4(In(Copy(r).name))' = 0 /\ V4(Out(Copy(r).name))' = 0 /\ V4(Masq(Copy(r).gw))' = 0
    BY <1>2, <1>3, <1>4, RuleNames
  <2> QED BY <1>3, <2>1 DEF Removed, LinkGone
<1>7. \A i \in Ids : UpRow(i) => UpRow(i)' /\ rows'[i].name = rows[i].name /\ rows'[i].gw = rows[i].gw
  BY <1>1 DEF UpRow
<1>8. \A w \in Wgs : V4(In(w))' > 0 \/ V4(Out(w))' > 0 => V4(In(w)) > 0 \/ V4(Out(w)) > 0
  <2> SUFFICES ASSUME NEW w \in Wgs
               PROVE  /\ V4(In(w))' = 0 \/ V4(In(w))' = V4(In(w))
                      /\ V4(Out(w))' = 0 \/ V4(Out(w))' = V4(Out(w))
    OBVIOUS
  <2> QED BY <1>2, <1>4, RuleNames
<1>9. \A g \in Gateways : V4(Masq(g))' > 0 => V4(Masq(g)) > 0
  <2> SUFFICES ASSUME NEW g \in Gateways
               PROVE  V4(Masq(g))' = 0 \/ V4(Masq(g))' = V4(Masq(g))
    OBVIOUS
  <2> QED BY <1>2, <1>4, RuleNames
<1>10. Owned'
  BY <1>1, <1>7, <1>8, <1>9, OwnersKept DEF Tidy, Owned
<1> QED BY <1>4, <1>5, <1>6, <1>10, TidyGoal

(* ... and then the link. *)
LEMMA DownTidy ==
    ASSUME NEW r \in Requests, Lone(r), interface_down(r) \/ TakeDown(r)
    PROVE  Tidy'
<1> USE DEF Lone, ServiceInv
<1>1. /\ UNCHANGED <<rows, host>> /\ req[r].op \in {"stop", "delete"} /\ req[r].pc \in {"down", "destroy"}
      /\ ~Starting(r) /\ ~Moving(r)
  BY DEF interface_down, TakeDown, At, Starting, Moving
<1>2. \A i \in Ids : UpRow(i) => UpRow(i)' /\ rows'[i].name = rows[i].name /\ rows'[i].gw = rows[i].gw
  BY <1>1 DEF UpRow
<1>3. CASE Ended(r) /\ UNCHANGED link
  <2>1. Owned' /\ \A rule \in Rule : V4(rule)' <= 1
    BY <1>1, <1>2, <1>3, OwnedKept
  <2> QED BY <1>3, <2>1, EndKnows, TidyGoal
<1>4. CASE Down(Copy(r).name) /\ \E pc \in {"save", "destroy", "drop"} : Moved(r, pc)
  <2>1. /\ req'[r].op = req[r].op /\ req'[r].pc \in {"save", "destroy", "drop"} /\ Copy(r)' = Copy(r)
        /\ req'[r].id = req[r].id
    BY <1>4 DEF Moved, Copy
  <2>2. Copy(r).name \in Wgs /\ link \in [Wgs -> Links]
    BY Fields DEF TypeInv, TypeOK
  <2>3. link'[Copy(r).name] = "absent" /\ \A w \in Wgs : link'[w] = "up" => link[w] = "up"
    BY <1>4, <2>2 DEF Down
  <2>4. Owned' /\ \A rule \in Rule : V4(rule)' <= 1
    BY <1>1, <1>2, <2>3, OwnedKept
  <2>5. Reads(r)'
    BY <1>1, <2>1 DEF Tidy, Reads, Past, Holds, At
  <2>6. Removed(r)'
    <3>1. NatGone(r)
      BY <1>1 DEF NatGone
    <3>2. /\ V4(In(Copy(r).name)) = 0 /\ V4(Out(Copy(r).name)) = 0
          /\ HasGw(Copy(r)) => V4(Masq(Copy(r).gw)) = 0
      BY <3>1 DEF Tidy, Removed
    <3>3. \A rule : V4(rule)' = V4(rule)
      BY <1>1 DEF V4
    <3> QED BY <2>1, <2>3, <3>2, <3>3 DEF Removed, HasGw
  <2> QED BY <2>4, <2>5, <2>6, TidyGoal
<1>5. ASSUME interface_down(r)
      PROVE  \/ Ended(r) /\ UNCHANGED link
             \/ Down(Copy(r).name) /\ \E pc \in {"save", "destroy", "drop"} : Moved(r, pc)
  BY <1>5, StopDown
<1>6. ASSUME TakeDown(r)
      PROVE  Down(Copy(r).name) /\ \E pc \in {"save", "destroy", "drop"} : Moved(r, pc)
  BY <1>6, TakeDownStep DEF TakeDown, BestEffort, Peaceful
<1> QED BY <1>3, <1>4, <1>5, <1>6

(* The row that is marked down or deleted leaves nothing behind that another row does not own. *)
LEMMA GoneTidy ==
    ASSUME NEW r \in Requests, Lone(r), MarkDown(r) \/ DeleteRow(r)
    PROVE  Tidy'
<1> USE DEF Lone, ServiceInv
<1>1. UNCHANGED <<link, host>> /\ Ended(r) /\ NatGone(r) /\ LinkGone(r) /\ Holds(r) /\ req[r].pc # "get"
      /\ req[r].op # "update"
  BY Over DEF MarkDown, DeleteRow, At, NatGone, LinkGone, Holds
<1>2. PICK k \in Ids : k = req[r].id /\ rows[k] = Copy(r) /\ Copy(r) \in Row
  BY <1>1, Fields DEF Tidy, Reads, Past, At, TypeInv
<1>3. \A j \in Ids \ {k} : rows'[j] = rows[j]
  <2>1. CASE DeleteRow(r)
    BY <1>2, <2>1 DEF DeleteRow, TypeInv, TypeOK
  <2>2. CASE MarkDown(r)
    <3>1. PICK row \in Row : row = [Copy(r) EXCEPT !.status = "down"]
      BY <1>2 DEF Row
    <3>2. Update(k, row)
      BY <1>2, <2>2, <3>1, Zenon DEF MarkDown
    <3> QED BY <3>2, UpdateStep DEF TypeInv
  <2> QED BY <2>1, <2>2
<1>4. /\ V4(In(Copy(r).name)) = 0 /\ V4(Out(Copy(r).name)) = 0
      /\ HasGw(Copy(r)) => V4(Masq(Copy(r).gw)) = 0
      /\ link[Copy(r).name] = "absent"
  BY <1>1 DEF Tidy, Removed
<1>5. \A s \in Requests : ~Starting(s) /\ ~At(s, "start", "save") /\ ~Moving(s)
  BY <1>1 DEF Starting, At, Moving, NatGone
<1>6. \A i \in Ids \ {k} : UpRow(i) => UpRow(i)' /\ rows'[i].name = rows[i].name /\ rows'[i].gw = rows[i].gw
  BY <1>3 DEF UpRow
<1>7. ASSUME NEW w \in Wgs, link[w] = "up" PROVE LinkOwner(w)'
  <2>1. PICK i \in Ids : UpRow(i) /\ rows[i].name = w
    BY <1>5, <1>7 DEF Tidy, Owned, LinkOwner
  <2>2. i # k
    BY <1>2, <1>4, <1>7, <2>1
  <2> QED BY <1>6, <2>1, <2>2 DEF LinkOwner
<1>8. ASSUME NEW w \in Wgs, V4(In(w)) > 0 \/ V4(Out(w)) > 0 PROVE PairOwner(w)'
  <2>1. PICK i \in Ids : UpRow(i) /\ rows[i].name = w /\ HasGw(rows[i])
    BY <1>5, <1>8 DEF Tidy, Owned, PairOwner
  <2>2. i # k
    BY <1>2, <1>4, <1>8, <2>1
  <2> QED BY <1>6, <2>1, <2>2 DEF PairOwner, HasGw
<1>9. ASSUME NEW g \in Gateways, V4(Masq(g)) > 0 PROVE MasqOwner(g)'
  <2>1. PICK i \in Ids : UpRow(i) /\ rows[i].gw = g
    BY <1>5, <1>9 DEF Tidy, Owned, MasqOwner
  <2>2. i # k
    <3>1. g # NoGw
      BY NoRowAssumption
    <3> QED BY <1>2, <1>4, <1>9, <2>1, <3>1 DEF HasGw
  <2> QED BY <1>6, <2>1, <2>2 DEF MasqOwner
<1>10. Owned' /\ \A rule \in Rule : V4(rule)' <= 1
  BY <1>1, <1>7, <1>8, <1>9 DEF Tidy, Owned, V4
<1> QED BY <1>1, <1>10, EndKnows, TidyGoal


(* update stores the form: what belonged to the row through its old gateway now belongs to the *)
(* request, which removes it. *)
LEMMA FormTidy ==
    ASSUME NEW r \in Requests, Lone(r), SaveForm(r)
    PROVE  Tidy'
<1> USE DEF Lone, ServiceInv
<1>1. UNCHANGED <<link, host>> /\ At(r, "update", "save") /\ ~Starting(r) /\ ~Moving(r)
  BY DEF SaveForm, At, Starting, Moving
<1>2. PICK k \in Ids : /\ k = req[r].id /\ rows[k] # NoRow /\ rows[k].gw = req[r].old
                       /\ rows[k].name = Copy(r).name /\ rows[k].status = Copy(r).status
                       /\ Copy(r) \in Row /\ Copy(r).status \in {"up", "down"}
  BY <1>1, Fields DEF Tidy, Reads, TypeInv
<1>3. rows'[k] = Copy(r) /\ \A j \in Ids \ {k} : rows'[j] = rows[j]
  BY <1>2, UpdateStep DEF SaveForm, TypeInv
<1>4. Copy(r) # NoRow
  BY <1>2, NoRowTypeAssumption
<1>5. \A s \in Requests : ~Starting(s) /\ ~At(s, "start", "save") /\ ~Moving(s)
  BY <1>1 DEF Starting, At, Moving
<1>6. \A i \in Ids : UpRow(i) => UpRow(i)' /\ rows'[i].name = rows[i].name
  BY <1>2, <1>3, <1>4 DEF UpRow
<1>7. \A w \in Wgs : LinkOwner(w) => LinkOwner(w)'
  BY <1>5, <1>6 DEF LinkOwner
<1>8. UpRow(k) => /\ req'[r].op = "update" /\ req'[r].pc = "reup" /\ Copy(r)' = Copy(r)
                  /\ req'[r].old = rows[k].gw /\ req'[r].id = k /\ Copy(r).status = "up"
  BY <1>1, <1>2, FormStep DEF UpRow, Moved, At, Copy
<1>9. ASSUME NEW w \in Wgs, PairOwner(w) PROVE PairOwner(w)'
  <2>1. PICK i \in Ids : UpRow(i) /\ rows[i].name = w /\ HasGw(rows[i])
    BY <1>5, <1>9 DEF PairOwner
  <2>2. CASE i # k
    BY <1>3, <1>6, <2>1, <2>2 DEF PairOwner
  <2>3. CASE i = k
    <3>1. Moving(r)' /\ Copy(r)'.name = w
      BY <1>2, <1>8, <2>1, <2>3 DEF Moving, HasGw
    <3> QED BY <3>1 DEF PairOwner
  <2> QED BY <2>2, <2>3
<1>10. ASSUME NEW g \in Gateways, MasqOwner(g) PROVE MasqOwner(g)'
  <2>1. PICK i \in Ids : UpRow(i) /\ rows[i].gw = g
    BY <1>5, <1>10 DEF MasqOwner
  <2>2. CASE i # k
    BY <1>3, <1>6, <2>1, <2>2 DEF MasqOwner
  <2>3. CASE i = k
    <3>1. Moving(r)' /\ req'[r].old = g
      BY <1>8, <2>1, <2>3, NoRowAssumption DEF Moving
    <3> QED BY <3>1 DEF MasqOwner
  <2> QED BY <2>2, <2>3
<1>11. Owned' /\ \A rule \in Rule : V4(rule)' <= 1
  BY <1>1, <1>7, <1>9, <1>10 DEF Tidy, Owned, V4
<1>12. Reads(r)' /\ Removed(r)'
  <2>1. CASE Ended(r)
    BY <2>1, EndKnows
  <2>2. CASE Copy(r).status = "up" /\ Moved(r, "reup")
    <3>1. UpRow(k)
      BY <1>2, <2>2 DEF UpRow
    <3> QED BY <1>3, <1>8, <3>1 DEF Reads, Removed, Past, Holds, At, NatGone, LinkGone
  <2> QED BY <2>1, <2>2, FormStep
<1> QED BY <1>11, <1>12, TidyGoal

(* The row of an update that goes on after its save is up. *)
LEMMA UpdatedRow ==
    ASSUME NEW r \in Requests, Lone(r), req[r].op = "update", req[r].pc \in {"reup", "reunnat", "renat"}
    PROVE  /\ req[r].id \in Ids /\ UpRow(req[r].id) /\ rows[req[r].id] = Copy(r)
           /\ Copy(r).name \in Wgs
BY Fields, NoRowTypeAssumption DEF Lone, Tidy, Reads, Past, Holds, At, UpRow, ServiceInv, TypeInv

LEMMA ReupTidy ==
    ASSUME NEW r \in Requests, Lone(r), Reconfigure(r)
    PROVE  Tidy'
<1> USE DEF Lone, ServiceInv
<1>1. UNCHANGED <<rows, host>> /\ At(r, "update", "reup")
  BY DEF Reconfigure
<1>2. PICK k \in Ids : k = req[r].id /\ UpRow(k) /\ rows[k] = Copy(r) /\ Copy(r).name \in Wgs
  BY <1>1, UpdatedRow DEF At
<1>3. /\ req'[r].op = "update" /\ Copy(r)' = Copy(r) /\ req'[r].id = req[r].id /\ req'[r].old = req[r].old
      /\ req'[r].pc = IF req[r].old # NoGw THEN "reunnat" ELSE "renat"
  BY <1>1, ReupStep DEF At, Moved, Copy
<1>4. \A w \in Wgs : link'[w] = "up" => link[w] = "up" \/ w = Copy(r).name
  BY <1>2 DEF Reconfigure, BestEffort, Up, TypeInv, TypeOK
<1>5. \A s \in Requests : ~Starting(s) /\ ~At(s, "start", "save") /\ (Moving(s) => s = r)
  BY <1>1 DEF Starting, At, Moving
<1>6. Moving(r) => Moving(r)'
  BY <1>3 DEF Moving
<1>7. \A i \in Ids : UpRow(i) => UpRow(i)'
  BY <1>1 DEF UpRow
<1>8. \A w \in Wgs : LinkOwner(w) => LinkOwner(w)'
  BY <1>1, <1>5, <1>7 DEF LinkOwner
<1>9. \A w \in Wgs : w = Copy(r).name => LinkOwner(w)'
  BY <1>1, <1>2, <1>7 DEF LinkOwner
<1>10. \A w \in Wgs : PairOwner(w) => PairOwner(w)'
  BY <1>1, <1>3, <1>5, <1>6, <1>7 DEF PairOwner
<1>11. \A g \in Gateways : MasqOwner(g) => MasqOwner(g)'
  BY <1>1, <1>3, <1>5, <1>6, <1>7 DEF MasqOwner
<1>12. Owned' /\ \A rule \in Rule : V4(rule)' <= 1
  BY <1>1, <1>4, <1>8, <1>9, <1>10, <1>11 DEF Tidy, Owned, V4
<1>13. Copy(r).status = "up"
  BY <1>1 DEF Tidy, Reads, At
<1>14. Reads(r)' /\ Removed(r)'
  BY <1>1, <1>2, <1>3, <1>13 DEF Reads, Removed, Past, Holds, At, NatGone, LinkGone
<1> QED BY <1>12, <1>14, TidyGoal

LEMMA ReunnatTidy ==
    ASSUME NEW r \in Requests, Lone(r), RemoveOldNat(r)
    PROVE  Tidy'
<1> USE DEF Lone, ServiceInv
<1>1. UNCHANGED <<rows, link>> /\ At(r, "update", "reunnat")
  BY DEF RemoveOldNat
<1>2. PICK k \in Ids : k = req[r].id /\ UpRow(k) /\ rows[k] = Copy(r) /\ Copy(r).name \in Wgs
  BY <1>1, UpdatedRow DEF At
<1>3. /\ req'[r].op = "update" /\ Copy(r)' = Copy(r) /\ req'[r].id = req[r].id
      /\ req'[r].pc = "renat" /\ req[r].old \in Gateways /\ Stripped(r, req[r].old)
  BY <1>1, ReunnatStep DEF At, Moved, Copy
<1>4. \A rule \in Rule : /\ V4(rule)' <= 1
                         /\ rule \in Own(Copy(r).name, req[r].old) => V4(rule)' = 0
                         /\ rule \notin Own(Copy(r).name, req[r].old) => V4(rule)' = V4(rule)
  BY <1>3, StrippedRules
<1>5. \A s \in Requests : ~Starting(s) /\ ~At(s, "start", "save") /\ (Moving(s) => s = r)
  BY <1>1 DEF Starting, At, Moving
<1>6. \A w \in Wgs : link[w] = "up" => LinkOwner(w)'
  BY <1>1, <1>5 DEF Tidy, Owned, LinkOwner, UpRow
<1>7. ASSUME NEW w \in Wgs, V4(In(w))' > 0 \/ V4(Out(w))' > 0 PROVE PairOwner(w)'
  <2>1. /\ w = Copy(r).name => V4(In(w))' = 0 /\ V4(Out(w))' = 0
        /\ w # Copy(r).name => V4(In(w))' = V4(In(w)) /\ V4(Out(w))' = V4(Out(w))
    BY <1>2, <1>3, <1>4, RuleNames
  <2>2. w # Copy(r).name /\ (V4(In(w)) > 0 \/ V4(Out(w)) > 0)
    BY <1>7, <2>1
  <2>3. PairOwner(w)
    BY <2>2 DEF Tidy, Owned
  <2> QED BY <1>1, <1>5, <2>2, <2>3 DEF PairOwner, UpRow
<1>8. ASSUME NEW g \in Gateways, V4(Masq(g))' > 0 PROVE MasqOwner(g)'
  <2>1. /\ g = req[r].old => V4(Masq(g))' = 0
        /\ g # req[r].old => V4(Masq(g))' = V4(Masq(g))
    BY <1>2, <1>3, <1>4, RuleNames
  <2>2. g # req[r].old /\ V4(Masq(g)) > 0
    BY <1>8, <2>1
  <2>3. MasqOwner(g)
    BY <2>2 DEF Tidy, Owned
  <2> QED BY <1>1, <1>5, <2>2, <2>3 DEF MasqOwner, UpRow
<1>9. Copy(r).status = "up"
  BY <1>1 DEF Tidy, Reads, At
<1>10. Reads(r)' /\ Removed(r)'
  BY <1>1, <1>2, <1>3, <1>9 DEF Reads, Removed, Past, Holds, At, NatGone, LinkGone
<1>11. Owned'
  BY <1>1, <1>6, <1>7, <1>8 DEF Owned
<1> QED BY <1>4, <1>10, <1>11, TidyGoal

LEMMA RenatTidy ==
    ASSUME NEW r \in Requests, Lone(r), ApplyNewNat(r)
    PROVE  Tidy'
<1> USE DEF Lone, ServiceInv
<1>1. UNCHANGED <<rows, link>> /\ At(r, "update", "renat") /\ Ended(r) /\ ~Starting(r) /\ ~Moving(r)
  BY RenatStep DEF ApplyNewNat, At, Starting, Moving
<1>2. \A i \in Ids : UpRow(i) => UpRow(i)' /\ rows'[i].name = rows[i].name /\ rows'[i].gw = rows[i].gw
  BY <1>1 DEF UpRow
<1>3. CASE UNCHANGED host
  <2>1. Owned' /\ \A rule \in Rule : V4(rule)' <= 1
    BY <1>1, <1>2, <1>3, OwnedKept
  <2> QED BY <1>1, <2>1, EndKnows, TidyGoal
<1>4. CASE /\ HasGw(Copy(r))
           /\ \E o \in ApplyOutcomes(host, Copy(r).name, Copy(r).gw, Copy(r).v6, env.faults) :
                 host' = o.host
  <2>1. PICK k \in Ids : k = req[r].id /\ UpRow(k) /\ rows[k] = Copy(r) /\ Copy(r).name \in Wgs
    BY <1>1, UpdatedRow DEF At
  <2>2. /\ Copy(r).gw \in Gateways /\ Copy(r).name \in Wgs
        /\ \A rule \in Rule : /\ V4(rule)' <= 1
                              /\ rule \notin Own(Copy(r).name, Copy(r).gw) => V4(rule)' = V4(rule)
    BY <1>4, AppliedRules
  <2>3. /\ \A w \in Wgs : w = Copy(r).name => PairOwner(w)'
        /\ \A g \in Gateways : g = Copy(r).gw => MasqOwner(g)'
    BY <1>1, <1>2, <1>4, <2>1 DEF PairOwner, MasqOwner
  <2>4. ASSUME NEW w \in Wgs, V4(In(w))' > 0 \/ V4(Out(w))' > 0 PROVE PairOwner(w)'
    <3>1. w # Copy(r).name => V4(In(w))' = V4(In(w)) /\ V4(Out(w))' = V4(Out(w))
      BY <2>2, RuleNames
    <3> QED BY <1>1, <1>2, <2>3, <2>4, <3>1, OwnersKept DEF Tidy, Owned
  <2>5. ASSUME NEW g \in Gateways, V4(Masq(g))' > 0 PROVE MasqOwner(g)'
    <3>1. g # Copy(r).gw => V4(Masq(g))' = V4(Masq(g))
      BY <2>2, RuleNames
    <3> QED BY <1>1, <1>2, <2>3, <2>5, <3>1, OwnersKept DEF Tidy, Owned
  <2>6. Owned'
    BY <1>1, <1>2, <2>4, <2>5, OwnersKept DEF Tidy, Owned
  <2> QED BY <1>1, <2>2, <2>6, EndKnows, TidyGoal
<1> QED BY <1>3, <1>4, RenatStep


LEMMA TidyStart == Init => TidyInv
<1> SUFFICES ASSUME Init PROVE TidyInv
  OBVIOUS
<1>1. ServiceInv
  BY ServiceStart
<1>2. /\ \A rule \in Rule : V4(rule) = 0
      /\ \A w \in Wgs : link[w] = "absent"
  BY DEF Init, FreshHost, V4, Fams
<1>3. \A w \in Wgs, g \in Gateways : V4(In(w)) = 0 /\ V4(Out(w)) = 0 /\ V4(Masq(g)) = 0
  BY <1>2, RuleNames
<1>4. Owned
  BY <1>2, <1>3, NamesAssumption DEF Owned
<1>5. \A r \in Requests : Reads(r) /\ Removed(r)
  <2>1. \A r \in Requests : req[r].op = "none" /\ req[r].pc = "idle"
    BY IdleType DEF Init
  <2> QED BY <2>1 DEF Reads, Removed, Past, Holds, At, NatGone, LinkGone
<1> QED BY <1>1, <1>2, <1>4, <1>5 DEF TidyInv, Tidy

LEMMA TidyStep == TidyInv /\ [Next]_vars => TidyInv'
<1> SUFFICES ASSUME TidyInv, [Next]_vars, Peaceful' PROVE Tidy'
  BY ServiceStep DEF TidyInv
<1>1. env' = env
  BY WhoActs DEF vars, TidyInv, ServiceInv
<1>2. Peaceful /\ Tidy
  BY <1>1 DEF Peaceful, TidyInv
<1>3. CASE UNCHANGED vars
  BY <1>2, <1>3 DEF vars, Tidy, Owned, LinkOwner, PairOwner, MasqOwner, Reads, Removed, Past, Holds, At,
                    NatGone, LinkGone, Starting, Moving, UpRow, V4, Copy, HasGw
<1>4. ~Restart /\ ~Reboot
  BY <1>2 DEF Restart, Reboot, Peaceful
<1>5. ASSUME NEW r \in Requests, Step(r) PROVE Tidy'
  <2>1. Lone(r)
    BY <1>2, <1>5, LoneStep
  <2>2. ~RollBack(r) /\ ~Abandon(r)
    BY <1>2 DEF RollBack, Abandon, Peaceful, Tidy, Reads, At
  <2>3. CASE BeginCreate(r) \/ \E op \in {"start", "stop", "update", "delete"} : Begin(r, op)
    BY <2>1, <2>3, BeginTidy
  <2>4. CASE find_by_name(r) \/ InsertRow(r) \/ create_interface(r)
    BY <2>1, <2>4, CreateTidy
  <2>5. CASE get(r)
    BY <2>1, <2>5, GetTidy
  <2>6. CASE interface_up(r)
    BY <2>1, <2>6, StartTidy
  <2>7. CASE ApplyNat(r)
    BY <2>1, <2>7, NatTidy
  <2>8. CASE MarkUp(r)
    BY <2>1, <2>8, MarkUpTidy
  <2>9. CASE RemoveNat(r)
    BY <2>1, <2>9, UnnatTidy
  <2>10. CASE interface_down(r) \/ TakeDown(r)
    BY <2>1, <2>10, DownTidy
  <2>11. CASE MarkDown(r) \/ DeleteRow(r)
    BY <2>1, <2>11, GoneTidy
  <2>12. CASE SaveForm(r)
    BY <2>1, <2>12, FormTidy
  <2>13. CASE Reconfigure(r)
    BY <2>1, <2>13, ReupTidy
  <2>14. CASE RemoveOldNat(r)
    BY <2>1, <2>14, ReunnatTidy
  <2>15. CASE ApplyNewNat(r)
    BY <2>1, <2>15, RenatTidy
  <2> QED BY <1>5, <2>2, <2>3, <2>4, <2>5, <2>6, <2>7, <2>8, <2>9, <2>10, <2>11, <2>12, <2>13, <2>14, <2>15
          DEF Step
<1> QED BY <1>3, <1>4, <1>5, WhoActs DEF TidyInv, ServiceInv

(* While nothing fails and requests come one after the other, every tunnel that is up, every *)
(* chain rule and every masquerade of IPv4 has a row that is up to belong to, for any number  *)
(* of interfaces and gateways: what stop, delete and update take away is what they put there. *)
THEOREM NothingLeftOver == Spec => []NoLeftoversV4
<1>1. TidyInv => NoLeftoversV4
  <2> SUFFICES ASSUME TidyInv, Peaceful, Quiet, Leftovers("v4") PROVE FALSE
    BY DEF NoLeftoversV4
  <2>1. TypeInv /\ Owned
    BY DEF TidyInv, ServiceInv, Tidy
  <2>2. \A r \in Requests : ~Starting(r) /\ ~Moving(r) /\ ~At(r, "start", "save")
    BY DEF Quiet, Starting, Moving, At
  <2>3. ASSUME NEW w \in Wgs, \A i \in Live : rows[i].name = w => rows[i].status = "down"
        PROVE  link[w] # "up" /\ V4(In(w)) = 0 /\ V4(Out(w)) = 0
    <3>1. ~LinkOwner(w) /\ ~PairOwner(w)
      BY <2>2, <2>3 DEF LinkOwner, PairOwner, UpRow, Live
    <3>2. V4(In(w)) \in Nat /\ V4(Out(w)) \in Nat
      BY <2>1, Counts, RuleNames, NamesAssumption
    <3> QED BY <2>1, <3>1, <3>2 DEF Owned
  <2>4. ASSUME NEW g \in Gateways, \A i \in Live : rows[i].gw = g => rows[i].status = "down"
        PROVE  V4(Masq(g)) = 0
    <3>1. ~MasqOwner(g)
      BY <2>2, <2>4 DEF MasqOwner, UpRow, Live
    <3>2. V4(Masq(g)) \in Nat
      BY <2>1, Counts, RuleNames, NamesAssumption
    <3> QED BY <2>1, <3>1, <3>2 DEF Owned
  <2>5. CASE \E w \in Wgs :
               /\ \A i \in Live : rows[i].name = w => rows[i].status = "down"
               /\ \/ link[w] = "up"
                  \/ \E chain \in {"in", "out"} : host.rules["v4"][[chain |-> chain, dev |-> w]] > 0
    <3>1. PICK w \in Wgs :
               /\ \A i \in Live : rows[i].name = w => rows[i].status = "down"
               /\ \/ link[w] = "up"
                  \/ \E chain \in {"in", "out"} : host.rules["v4"][[chain |-> chain, dev |-> w]] > 0
      BY <2>5
    <3>2. link[w] # "up" /\ V4(In(w)) = 0 /\ V4(Out(w)) = 0
      BY <2>3, <3>1
    <3> QED BY <3>1, <3>2 DEF V4, In, Out
  <2>6. CASE \E g \in Gateways :
               /\ \A i \in Live : rows[i].gw = g => rows[i].status = "down"
               /\ host.rules["v4"][[chain |-> "masq", dev |-> g]] > 0
    <3>1. PICK g \in Gateways :
               /\ \A i \in Live : rows[i].gw = g => rows[i].status = "down"
               /\ host.rules["v4"][[chain |-> "masq", dev |-> g]] > 0
      BY <2>6
    <3>2. V4(Masq(g)) = 0
      BY <2>4, <3>1
    <3> QED BY <3>1, <3>2 DEF V4, Masq
  <2> QED BY <2>5, <2>6, Zenon DEF Leftovers
<1> QED BY <1>1, TidyStart, TidyStep, PTL DEF Spec


-----------------------------------------------------------------------------
(* A single tunnel stays served *)

\* There is one name for interfaces.
Solo == \A v, w \in Wgs : v = w

\* start, stop, delete and update are between two steps that leave the row unserved.
Busy(r) ==
    \/ Starting(r) \/ NatGone(r)
    \/ req[r].op = "update" /\ req[r].pc \in {"reup", "reunnat", "renat"}

LinkUp(i) == link[rows[i].name] = "up"
Relinked(r) == req[r].op = "update" /\ req[r].pc \in {"reunnat", "renat"} => link[Copy(r).name] = "up"

Lit ==
    /\ \A i \in Ids : UpRow(i) => /\ LinkUp(i) \/ \E r \in Requests : LinkGone(r) /\ req[r].id = i
                                  /\ Served(rows[i]) \/ \E r \in Requests : Busy(r) /\ req[r].id = i
    /\ \A r \in Requests : Relinked(r)

LitInv == TidyInv /\ (Peaceful /\ Solo => Lit)

(* With one name there is one row. *)
LEMMA OneRow ==
    ASSUME TypeInv, UniqueNames, Solo, NEW i \in Ids, NEW j \in Ids, rows[i] # NoRow, rows[j] # NoRow
    PROVE  i = j
<1>1. rows[i].name \in Wgs /\ rows[j].name \in Wgs
  BY DEF TypeInv, TypeOK, Row
<1> QED BY <1>1 DEF Solo, UniqueNames, Live

LEMMA LitGoal ==
    ASSUME NEW r \in Requests, Lone(r), Relinked(r)',
           \A i \in Ids : UpRow(i)' => /\ LinkUp(i)' \/ (LinkGone(r)' /\ req'[r].id = i)
                                       /\ Served(rows[i])' \/ (Busy(r)' /\ req'[r].id = i)
    PROVE  Lit'
<1>1. \A s \in Requests \ {r} : req'[s].op = "none" /\ req'[s].pc = "idle"
  BY DEF Lone, Others
<1>2. \A s \in Requests \ {r} : Relinked(s)'
  BY <1>1 DEF Relinked
<1> QED BY <1>2 DEF Lit

LEMMA LitBefore ==
    ASSUME NEW r \in Requests, Lone(r), Lit, NEW i \in Ids, UpRow(i)
    PROVE  /\ LinkUp(i) \/ (LinkGone(r) /\ req[r].id = i)
           /\ Served(rows[i]) \/ (Busy(r) /\ req[r].id = i)
<1>1. \A s \in Requests \ {r} : ~LinkGone(s) /\ ~Busy(s)
  BY DEF Lone, LinkGone, Busy, Starting, NatGone
<1> QED BY <1>1 DEF Lit

(* Steps before the request touches a row that is up. *)
LEMMA LitKept ==
    ASSUME NEW r \in Requests, Lone(r), Lit, ~LinkGone(r), ~Busy(r), Relinked(r)', UNCHANGED host,
           \A w \in Wgs : link[w] = "up" => link'[w] = "up",
           \A i \in Ids : UpRow(i)' => UpRow(i) /\ rows'[i] = rows[i]
    PROVE  Lit'
<1>1. ASSUME NEW i \in Ids, UpRow(i)' PROVE LinkUp(i)' /\ Served(rows[i])'
  <2>1. UpRow(i) /\ rows'[i] = rows[i] /\ LinkUp(i) /\ Served(rows[i])
    BY <1>1, LitBefore
  <2>2. rows[i].name \in Wgs
    BY <2>1 DEF Lone, ServiceInv, TypeInv, TypeOK, UpRow, Row
  <2> QED BY <2>1, <2>2 DEF LinkUp, Served, HasGw
<1> QED BY <1>1, LitGoal

LEMMA EarlyLit ==
    ASSUME NEW r \in Requests, Lone(r), Lit,
           \/ BeginCreate(r) \/ \E op \in {"start", "stop", "update", "delete"} : Begin(r, op)
           \/ find_by_name(r) \/ InsertRow(r) \/ create_interface(r) \/ get(r) \/ interface_up(r)
    PROVE  Lit'
<1> USE DEF Lone, ServiceInv
<1>1. /\ UNCHANGED host /\ ~LinkGone(r) /\ ~Busy(r)
  BY DEF BeginCreate, Begin, find_by_name, InsertRow, create_interface, get, interface_up, At, Admitted,
         LinkGone, Busy, Starting, NatGone
<1>2. \A w \in Wgs : link[w] = "up" => link'[w] = "up"
  <2>1. \/ link' = link
        \/ link' = [link EXCEPT ![Copy(r).name] = IF @ = "absent" THEN "bare" ELSE @]
        \/ link' = [link EXCEPT ![Copy(r).name] = "up"]
    BY DEF BeginCreate, Begin, find_by_name, InsertRow, create_interface, get, interface_up, BestEffort, Up
  <2> QED BY <2>1 DEF TypeInv, TypeOK
<1>3. \A i \in Ids : UpRow(i)' => UpRow(i) /\ rows'[i] = rows[i]
  <2>1. CASE UNCHANGED rows
    BY <2>1 DEF UpRow
  <2>2. CASE InsertRow(r) /\ rows' = [rows EXCEPT ![req[r].id] = Copy(r)]
    <3>1. Copy(r).status = "down"
      BY <2>2 DEF InsertRow, At, Tidy, Reads
    <3> QED BY <2>2, <3>1 DEF UpRow, TypeInv, TypeOK
  <2> QED BY <2>1, <2>2, InsertStep DEF BeginCreate, Begin, find_by_name, create_interface, get, interface_up
<1>4. Relinked(r)'
  <2>1. CASE get(r) /\ rows[req[r].id] # NoRow
    <3>1. req'[r].op = "update" => req'[r].pc = "save"
      BY <2>1, GetReads
    <3> QED BY <3>1 DEF Relinked
  <2>2. CASE ~(get(r) /\ rows[req[r].id] # NoRow)
    <3>1. Ended(r) \/ req'[r].pc \in {"find", "get", "insert", "link", "nat", "save"}
      BY <2>2, CreateBegins, OtherBegins, FindStep, InsertStep, StartUp, Over
         DEF create_interface, get, Moved
    <3> QED BY <3>1, IdleType DEF Relinked, Ended
  <2> QED BY <2>1, <2>2
<1> QED BY <1>1, <1>2, <1>3, <1>4, LitKept


(* The row of a request that goes on is the only one there can be. *)
LEMMA OnlyOwn ==
    ASSUME NEW r \in Requests, Lone(r), Solo, Past(r), NEW i \in Ids, rows[i] # NoRow
    PROVE  i = req[r].id /\ (~At(r, "update", "save") => rows[i] = Copy(r))
<1>1. req[r].id \in Ids /\ Copy(r) \in Row /\ Copy(r) # NoRow
  BY Fields, NoRowTypeAssumption DEF Lone, ServiceInv, TypeInv
<1>2. rows[req[r].id] # NoRow
  BY <1>1 DEF Lone, Tidy, Reads, At
<1>3. i = req[r].id
  BY <1>1, <1>2, OneRow DEF Lone, ServiceInv
<1> QED BY <1>3 DEF Lone, Tidy, Reads

LEMMA NatLit ==
    ASSUME NEW r \in Requests, Lone(r), Solo, Lit, ApplyNat(r) \/ RemoveNat(r) \/ RemoveOldNat(r)
    PROVE  Lit'
<1> USE DEF Lone, ServiceInv
<1>1. /\ UNCHANGED <<rows, link>> /\ Past(r) /\ ~At(r, "update", "save") /\ ~LinkGone(r)
  BY DEF ApplyNat, RemoveNat, RemoveOldNat, At, Past, Holds, LinkGone
<1>2. /\ Busy(r)' /\ req'[r].id = req[r].id /\ Copy(r)' = Copy(r)
      /\ req'[r].op = "update" => req[r].op = "update" /\ req[r].pc = "reunnat"
  <2>1. CASE ApplyNat(r)
    BY <2>1, NatStep DEF Peaceful, Moved, ApplyNat, At, Busy, Starting, Copy
  <2>2. CASE RemoveNat(r)
    BY <2>2, UnnatStep DEF Moved, RemoveNat, Busy, NatGone, Copy
  <2>3. CASE RemoveOldNat(r)
    BY <2>3, ReunnatStep DEF Moved, RemoveOldNat, At, Busy, Copy
  <2> QED BY <2>1, <2>2, <2>3
<1>3. \A i \in Ids : UpRow(i)' => LinkUp(i)' /\ req'[r].id = i
  BY <1>1, <1>2, LitBefore, OnlyOwn DEF UpRow, LinkUp
<1>4. Relinked(r)'
  BY <1>1, <1>2 DEF Relinked, Lit
<1> QED BY <1>2, <1>3, <1>4, LitGoal

LEMMA MarkUpLit ==
    ASSUME NEW r \in Requests, Lone(r), Solo, Lit, MarkUp(r)
    PROVE  Lit'
<1> USE DEF Lone, ServiceInv
<1>1. UNCHANGED <<link, host>> /\ At(r, "start", "save") /\ Ended(r) /\ Past(r) /\ ~At(r, "update", "save")
  BY Over DEF MarkUp, At, Past, Holds
<1>2. Served(Copy(r))
  BY <1>1 DEF StartedIsServed, Peaceful, NoneGone, At
<1>3. PICK k \in Ids : k = req[r].id /\ Copy(r) \in Row
  BY Fields DEF TypeInv
<1>4. PICK row \in Row : row = [Copy(r) EXCEPT !.status = "up"]
  BY <1>3 DEF Row
<1>5. row.name = Copy(r).name /\ row.gw = Copy(r).gw /\ row.v6 = Copy(r).v6
  BY <1>3, <1>4 DEF Row
<1>6. Served(row)' /\ (link[row.name] = "up")'
  BY <1>1, <1>2, <1>5 DEF Served, HasGw
<1>7. /\ rows'[k] = IF rows[k] = NoRow THEN NoRow ELSE row
      /\ \A j \in Ids \ {k} : rows'[j] = rows[j]
  <2>1. Update(k, row)
    BY <1>3, <1>4, Zenon DEF MarkUp
  <2> QED BY <2>1, UpdateStep DEF TypeInv
<1>8. ASSUME NEW i \in Ids, UpRow(i)' PROVE rows'[i] = row
  <2>1. rows[i] # NoRow
    BY <1>7, <1>8 DEF UpRow
  <2>2. i = k
    BY <1>1, <1>3, <2>1, OnlyOwn
  <2> QED BY <1>7, <2>1, <2>2
<1>9. \A i \in Ids : UpRow(i)' => LinkUp(i)' /\ Served(rows[i])'
  BY <1>6, <1>8 DEF LinkUp, Served
<1>10. Relinked(r)'
  BY <1>1, IdleType DEF Relinked, Ended
<1> QED BY <1>9, <1>10, LitGoal

LEMMA DownLit ==
    ASSUME NEW r \in Requests, Lone(r), Solo, Lit, interface_down(r) \/ TakeDown(r)
    PROVE  Lit'
<1> USE DEF Lone, ServiceInv
<1>1. /\ UNCHANGED <<rows, host>> /\ Past(r) /\ ~At(r, "update", "save")
      /\ req[r].op \in {"stop", "delete"} /\ req[r].pc \in {"down", "destroy"}
  BY DEF interface_down, TakeDown, At, Past, Holds
<1>2. CASE Ended(r) /\ link[Copy(r).name] = "absent" /\ interface_down(r)
  <2>1. ~LinkGone(r)
    BY <1>2 DEF interface_down, At, LinkGone
  <2>2. \A i \in Ids : ~UpRow(i)
    BY <1>1, <1>2, <2>1, LitBefore, OnlyOwn DEF UpRow, LinkUp
  <2>3. \A i \in Ids : ~UpRow(i)'
    BY <1>1, <2>2 DEF UpRow
  <2> QED BY <1>2, <2>3, LitGoal, IdleType DEF Relinked, Ended
<1>3. CASE \E pc \in {"save", "destroy", "drop"} : Moved(r, pc)
  <2>1. /\ req'[r].op = req[r].op /\ req'[r].pc \in {"save", "destroy", "drop"} /\ req'[r].id = req[r].id
    BY <1>3 DEF Moved
  <2>2. LinkGone(r)' /\ Busy(r)' /\ Relinked(r)'
    BY <1>1, <2>1 DEF LinkGone, Busy, NatGone, Relinked
  <2>3. \A i \in Ids : UpRow(i)' => req'[r].id = i
    BY <1>1, <2>1, OnlyOwn DEF UpRow
  <2> QED BY <2>2, <2>3, LitGoal
<1>4. interface_down(r) => \/ Ended(r) /\ link[Copy(r).name] = "absent"
                           \/ \E pc \in {"save", "destroy", "drop"} : Moved(r, pc)
  BY StopDown
<1>5. TakeDown(r) => \E pc \in {"save", "destroy", "drop"} : Moved(r, pc)
  BY TakeDownStep
<1> QED BY <1>2, <1>3, <1>4, <1>5

LEMMA GoneLit ==
    ASSUME NEW r \in Requests, Lone(r), Solo, Lit, MarkDown(r) \/ DeleteRow(r)
    PROVE  Lit'
<1> USE DEF Lone, ServiceInv
<1>1. Ended(r) /\ Past(r)
  BY Over DEF MarkDown, DeleteRow, At, Past, Holds
<1>2. PICK k \in Ids : k = req[r].id /\ Copy(r) \in Row
  BY Fields DEF TypeInv
<1>3. /\ rows'[k] # NoRow => rows'[k].status = "down"
      /\ \A j \in Ids \ {k} : rows'[j] = rows[j]
  <2>1. CASE DeleteRow(r)
    BY <1>2, <2>1 DEF DeleteRow, TypeInv, TypeOK
  <2>2. CASE MarkDown(r)
    <3>1. PICK row \in Row : row = [Copy(r) EXCEPT !.status = "down"]
      BY <1>2 DEF Row
    <3>2. Update(k, row)
      BY <1>2, <2>2, <3>1, Zenon DEF MarkDown
    <3>3. row.status = "down"
      BY <1>2, <3>1 DEF Row
    <3> QED BY <3>2, <3>3, UpdateStep DEF TypeInv
  <2> QED BY <2>1, <2>2
<1>4. \A i \in Ids : ~UpRow(i)'
  BY <1>1, <1>2, <1>3, OnlyOwn DEF UpRow
<1> QED BY <1>1, <1>4, LitGoal, IdleType DEF Relinked, Ended

LEMMA FormLit ==
    ASSUME NEW r \in Requests, Lone(r), Solo, Lit, SaveForm(r)
    PROVE  Lit'
<1> USE DEF Lone, ServiceInv
<1>1. UNCHANGED <<link, host>> /\ At(r, "update", "save") /\ Past(r) /\ ~LinkGone(r)
  BY DEF SaveForm, At, Past, Holds, LinkGone
<1>2. PICK k \in Ids : /\ k = req[r].id /\ rows[k] # NoRow
                       /\ rows[k].name = Copy(r).name /\ rows[k].status = Copy(r).status
                       /\ Copy(r) \in Row
  BY <1>1, Fields DEF Tidy, Reads, TypeInv
<1>3. rows'[k] = Copy(r) /\ \A j \in Ids \ {k} : rows'[j] = rows[j]
  BY <1>2, UpdateStep DEF SaveForm, TypeInv
<1>4. ASSUME NEW i \in Ids, UpRow(i)' PROVE i = k /\ Copy(r).status = "up" /\ LinkUp(i)'
  <2>1. i = k
    BY <1>1, <1>2, <1>3, <1>4, OnlyOwn DEF UpRow
  <2>2. Copy(r).status = "up" /\ UpRow(k)
    BY <1>2, <1>3, <1>4, <2>1 DEF UpRow
  <2>3. LinkUp(k)
    BY <1>1, <2>2, LitBefore
  <2> QED BY <1>1, <1>2, <1>3, <2>1, <2>2, <2>3 DEF LinkUp
<1>5. Copy(r).status = "up" => Busy(r)' /\ req'[r].id = k
  BY <1>1, <1>2, FormStep DEF Busy, Moved, At
<1>6. Relinked(r)'
  BY FormStep, IdleType DEF Relinked, Ended, Moved
<1> QED BY <1>4, <1>5, <1>6, LitGoal

LEMMA ReupLit ==
    ASSUME NEW r \in Requests, Lone(r), Solo, Lit, Reconfigure(r)
    PROVE  Lit'
<1> USE DEF Lone, ServiceInv
<1>1. UNCHANGED <<rows, host>> /\ At(r, "update", "reup") /\ Past(r) /\ ~At(r, "update", "save")
  BY DEF Reconfigure, At, Past, Holds
<1>2. /\ req'[r].op = "update" /\ Copy(r)' = Copy(r) /\ req'[r].id = req[r].id
      /\ req'[r].pc = IF req[r].old # NoGw THEN "reunnat" ELSE "renat"
  BY <1>1, ReupStep DEF At, Moved, Copy
<1>3. link'[Copy(r).name] = "up"
  BY Fields DEF Reconfigure, BestEffort, Up, Peaceful, TypeInv, TypeOK
<1>4. \A i \in Ids : UpRow(i)' => LinkUp(i)' /\ req'[r].id = i
  BY <1>1, <1>2, <1>3, OnlyOwn DEF UpRow, LinkUp
<1> QED BY <1>2, <1>3, <1>4, LitGoal DEF Busy, Relinked

LEMMA RenatLit ==
    ASSUME NEW r \in Requests, Lone(r), Solo, Lit, ApplyNewNat(r)
    PROVE  Lit'
<1> USE DEF Lone, ServiceInv
<1>1. UNCHANGED <<rows, link>> /\ At(r, "update", "renat") /\ Past(r) /\ ~At(r, "update", "save") /\ Ended(r)
  BY RenatStep DEF ApplyNewNat, At, Past, Holds
<1>2. link[Copy(r).name] = "up"
  BY <1>1 DEF Lit, Relinked, At
<1>3. HasGw(Copy(r)) => Masqueraded(host', Copy(r).name, Copy(r).gw, Copy(r).v6)
  BY RenatStep, AppliedRules
<1>4. PICK row : row = Copy(r)
  OBVIOUS
<1>5. Served(row)' /\ (link[row.name] = "up")'
  BY <1>1, <1>2, <1>3, <1>4 DEF Served, HasGw
<1>6. \A i \in Ids : UpRow(i)' => rows'[i] = row
  BY <1>1, <1>4, OnlyOwn DEF UpRow
<1>7. \A i \in Ids : UpRow(i)' => LinkUp(i)' /\ Served(rows[i])'
  BY <1>5, <1>6 DEF LinkUp, Served
<1> QED BY <1>1, <1>7, LitGoal, IdleType DEF Relinked, Ended

LEMMA LitStep == LitInv /\ [Next]_vars => LitInv'
<1> SUFFICES ASSUME LitInv, [Next]_vars, Peaceful', Solo PROVE Lit'
  BY TidyStep DEF LitInv
<1>1. env' = env
  BY WhoActs DEF vars, LitInv, TidyInv, ServiceInv
<1>2. Peaceful /\ Tidy /\ Lit
  BY <1>1 DEF Peaceful, LitInv, TidyInv
<1>3. CASE UNCHANGED vars
  BY <1>2, <1>3 DEF vars, Lit, Relinked, LinkUp, LinkGone, Busy, Starting, NatGone, UpRow, Served, Copy, HasGw
<1>4. ~Restart /\ ~Reboot
  BY <1>2 DEF Restart, Reboot, Peaceful
<1>5. ASSUME NEW r \in Requests, Step(r) PROVE Lit'
  <2>1. Lone(r)
    BY <1>2, <1>5, LoneStep DEF LitInv
  <2>2. ~RollBack(r) /\ ~Abandon(r)
    BY <1>2 DEF RollBack, Abandon, Peaceful, Tidy, Reads, At
  <2>3. CASE \/ BeginCreate(r) \/ \E op \in {"start", "stop", "update", "delete"} : Begin(r, op)
             \/ find_by_name(r) \/ InsertRow(r) \/ create_interface(r) \/ get(r) \/ interface_up(r)
    BY <1>2, <2>1, <2>3, EarlyLit
  <2>4. CASE ApplyNat(r) \/ RemoveNat(r) \/ RemoveOldNat(r)
    BY <1>2, <2>1, <2>4, NatLit
  <2>5. CASE MarkUp(r)
    BY <1>2, <2>1, <2>5, MarkUpLit
  <2>6. CASE interface_down(r) \/ TakeDown(r)
    BY <1>2, <2>1, <2>6, DownLit
  <2>7. CASE MarkDown(r) \/ DeleteRow(r)
    BY <1>2, <2>1, <2>7, GoneLit
  <2>8. CASE SaveForm(r)
    BY <1>2, <2>1, <2>8, FormLit
  <2>9. CASE Reconfigure(r)
    BY <1>2, <2>1, <2>9, ReupLit
  <2>10. CASE ApplyNewNat(r)
    BY <1>2, <2>1, <2>10, RenatLit
  <2> QED BY <1>5, <2>2, <2>3, <2>4, <2>5, <2>6, <2>7, <2>8, <2>9, <2>10 DEF Step
<1> QED BY <1>3, <1>4, <1>5, WhoActs DEF LitInv, TidyInv, ServiceInv

(* While nothing fails, an installation with one tunnel serves it whenever the table calls it up, *)
(* through any sequence of requests and any number of gateways. With two tunnels this is false:   *)
(* they share the masquerade of a gateway and the sysctls, which the first to stop removes.       *)
THEOREM OneTunnelServed == ASSUME Solo PROVE Spec => []UpIsServed
<1>1. Init => LitInv
  <2> SUFFICES ASSUME Init PROVE Lit
    BY TidyStart DEF LitInv
  <2>1. \A i \in Ids : ~UpRow(i)
    BY DEF Init, UpRow
  <2>2. \A r \in Requests : req[r].op = "none"
    BY IdleType DEF Init
  <2> QED BY <2>1, <2>2 DEF Lit, Relinked
<1>2. LitInv => UpIsServed
  <2> SUFFICES ASSUME LitInv, Peaceful, Quiet, NEW i \in Live, rows[i].status = "up"
               PROVE  Served(rows[i])
    BY DEF UpIsServed
  <2>1. Lit /\ i \in Ids /\ UpRow(i)
    BY DEF LitInv, Live, UpRow
  <2>2. \A r \in Requests : ~Busy(r)
    BY DEF Quiet, Busy, Starting, NatGone
  <2> QED BY <2>1, <2>2 DEF Lit
<1> QED BY <1>1, <1>2, LitStep, PTL DEF Spec
=============================================================================
