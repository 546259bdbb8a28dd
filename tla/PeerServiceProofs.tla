------------------------- MODULE PeerServiceProofs -------------------------
(***************************************************************************)
(* Proofs about PeerService for any number of interfaces, peers, keys,     *)
(* addresses and workers, in any environment.                              *)
(***************************************************************************)
EXTENDS PeerService, FiniteSetTheorems, WellFoundedInduction, TLAPS

-----------------------------------------------------------------------------
(* Least and greatest numbers *)

Below == OpToRel(<, Nat)

LEMMA BelowWellFounded == IsWellFoundedOn(Below, Nat)
BY NatLessThanWellFounded, Zenon DEF Below

LEMMA LeastNat ==
    ASSUME NEW S, S \subseteq Nat, S # {}
    PROVE  \E x \in S : \A y \in S : x <= y
<1>1. PICK x \in S : \A y \in S : ~ (<<y, x>> \in Below)
  BY BelowWellFounded, WFMin
<1>2. \A y \in S : <<y, x>> \in Below <=> y < x
  BY DEF Below, OpToRel
<1>3. \A y \in S : y \in Nat /\ x \in Nat /\ ~(y < x)
  BY <1>1, <1>2
<1> QED BY <1>3

LEMMA MinProps ==
    ASSUME NEW S, S \subseteq Nat, S # {}
    PROVE  Min(S) \in S /\ \A y \in S : Min(S) <= y
BY LeastNat DEF Min

(* The values of a finite sequence of numbers have a bound: of the lengths for which this   *)
(* fails, take the least.                                                                  *)
Unbounded(m) == \E g \in [1..m -> Nat] : \A b \in Nat : \E i \in 1..m : ~(g[i] <= b)

LEMMA Bounded ==
    ASSUME NEW n \in Nat, NEW f \in [1..n -> Nat]
    PROVE  \E b \in Nat : \A i \in 1..n : f[i] <= b
<1>1. PICK bad : bad = {m \in Nat : Unbounded(m)}
  OBVIOUS
<1>2. CASE bad = {}
  BY <1>1, <1>2 DEF Unbounded
<1>3. CASE bad # {}
  <2>1. PICK m \in Nat : Unbounded(m) /\ \A k \in bad : m <= k
    <3>1. bad \subseteq Nat
      BY <1>1
    <3>2. \E m \in bad : \A k \in bad : m <= k
      BY <3>1, <1>3, LeastNat
    <3> QED BY <3>2, <1>1
  <2>2. m # 0
    BY <2>1 DEF Unbounded
  <2>3. PICK k \in Nat : m = k + 1
    <3>1. m - 1 \in Nat /\ m = (m - 1) + 1
      BY <2>2
    <3> QED BY <3>1
  <2>4. ~Unbounded(k)
    <3>1. ~(m <= k)
      BY <2>3
    <3> QED BY <3>1, <2>1, <1>1
  <2>5. PICK g \in [1..k + 1 -> Nat] : \A b \in Nat : \E i \in 1..k + 1 : ~(g[i] <= b)
    BY <2>1, <2>3 DEF Unbounded
  <2>6. \A i \in 1..k : i \in 1..k + 1 /\ g[i] \in Nat
    <3>1. \A i \in 1..k : i \in 1..k + 1
      BY <2>3
    <3> QED BY <3>1, <2>5, Zenon
  <2>7. [i \in 1..k |-> g[i]] \in [1..k -> Nat]
    BY <2>6
  <2>8. PICK b \in Nat : \A i \in 1..k : g[i] <= b
    BY <2>4, <2>7 DEF Unbounded
  <2>9. PICK x \in Nat : x = g[k + 1]
    BY <2>5
  <2>10. b + x \in Nat /\ \A i \in 1..k + 1 : g[i] <= b + x
    <3>1. \A i \in 1..k + 1 : i \in 1..k \/ i = k + 1
      OBVIOUS
    <3>2. \A i \in 1..k : g[i] <= b + x
      BY <2>6, <2>8
    <3> QED BY <3>1, <3>2, <2>9
  <2> QED BY <2>5, <2>10
<1> QED BY <1>2, <1>3

LEMMA MaxProps ==
    ASSUME NEW S, S \subseteq Nat, S # {}, IsFiniteSet(S)
    PROVE  Max(S) \in S /\ \A y \in S : Max(S) >= y
<1>1. PICK n \in Nat : ExistsSurjection(1..n, S)
  BY FS_NatSurjection
<1>f. PICK f \in Surjection(1..n, S) : TRUE
  BY <1>1 DEF ExistsSurjection
<1>2. f \in [1..n -> Nat] /\ \A y \in S : \E i \in 1..n : f[i] = y
  BY <1>1 DEF Surjection
<1>3. PICK b \in Nat : \A i \in 1..n : f[i] <= b
  BY <1>2, Bounded
<1>4. PICK bounds : bounds = {c \in Nat : \A y \in S : y <= c}
  OBVIOUS
<1>b. b \in bounds
  BY <1>2, <1>3, <1>4
<1>5. PICK c \in Nat : c \in bounds /\ \A d \in bounds : c <= d
  <2>1. bounds \subseteq Nat
    BY <1>4
  <2> QED BY <2>1, <1>b, LeastNat
<1>6. c \in S
  <2> SUFFICES ASSUME c \notin S PROVE FALSE
    OBVIOUS
  <2>1. c \in Nat /\ \A y \in S : y \in Nat /\ y <= c /\ y # c
    BY <1>4, <1>5
  <2>2. c # 0
    <3>1. PICK y \in Nat : y \in S
      OBVIOUS
    <3> QED BY <2>1, <3>1
  <2>3. PICK d \in Nat : c = d + 1
    <3>1. c - 1 \in Nat /\ c = (c - 1) + 1
      BY <2>1, <2>2
    <3> QED BY <3>1
  <2>4. \A y \in S : y <= d
    BY <2>1, <2>3
  <2>5. d \in bounds /\ ~(c <= d)
    BY <1>4, <2>3, <2>4
  <2> QED BY <1>5, <2>5
<1>7. \E x \in S : \A y \in S : x >= y
  BY <1>4, <1>5, <1>6
<1> QED BY <1>7 DEF Max

-----------------------------------------------------------------------------
(* Types *)

LEMMA Constants ==
    /\ SomeIface \in Ifaces /\ SomeKey \in Keys /\ Min(Hosts) \in Hosts /\ Min(PeerIds) \in PeerIds
    /\ SomeRow \in Peer /\ SomeRow.sealed = Blank
    /\ Nobody \in Entries /\ Nothing \in [PeerIds -> Peer \cup {NoPeer}]
    /\ Idle \in Request /\ Asleep \in Enforcer
<1>1. Min(Hosts) \in Hosts
  BY HostsAssumption, SomeAssumption, MinProps
<1>2. Min(PeerIds) \in PeerIds
  <2>1. PeerIds \subseteq Nat
    BY HostsAssumption
  <2> QED BY <2>1, SomeAssumption, MinProps
<1>3. SomeIface \in Ifaces /\ SomeKey \in Keys
  BY SomeAssumption DEF SomeIface, SomeKey
<1>4. SomeRow \in Peer /\ SomeRow.sealed = Blank
  BY <1>1, <1>3 DEF SomeRow, Peer
<1>5. Nobody \in Entries /\ Nothing \in [PeerIds -> Peer \cup {NoPeer}]
  BY DEF Nobody, Nothing, Entries
<1>6. Idle \in Request /\ Asleep \in Enforcer
  BY <1>2, <1>3, <1>4, <1>5 DEF Idle, Asleep, Request, Enforcer
<1> QED BY <1>1, <1>2, <1>3, <1>4, <1>5, <1>6

\* A round that goes on has a peer left.
RoundHasPeer == tick.pc # "idle" => \E p \in PeerIds : tick.todo[p] # NoPeer

\* There is an id for every create that has yet to insert its row.
Inserting == {w \in Workers : req[w].op = "create" /\ req[w].pc \in {"plan", "save"}}
IdsLeft == Cardinality(Inserting) <= Cardinality(env.peers \ used)

TypeInv == TypeOK /\ RoundHasPeer /\ IdsLeft

LEMMA EnvFacts ==
    ASSUME TypeOK
    PROVE  /\ env \in Environment /\ env.peers \subseteq PeerIds /\ env.hosts \subseteq Hosts
           /\ env.typed \subseteq Keys /\ env.hosts # {}
BY EnvsAssumption DEF TypeOK, Environment

LEMMA DueProps ==
    ASSUME TypeOK, RoundHasPeer, tick.pc # "idle"
    PROVE  Due \in PeerIds /\ tick.todo[Due] # NoPeer /\ tick.todo[Due] \in Peer
<1>1. PICK S : S = {p \in PeerIds : tick.todo[p] # NoPeer}
  OBVIOUS
<1>2. S \subseteq Nat /\ S # {}
  BY <1>1, HostsAssumption DEF RoundHasPeer
<1>3. Due = Min(S)
  BY <1>1 DEF Due
<1>4. Due \in S
  BY <1>2, <1>3, MinProps
<1> QED BY <1>1, <1>4 DEF TypeOK, Enforcer

LEMMA ConfiguredType ==
    ASSUME TypeOK, NEW i \in Ifaces
    PROVE  /\ Configured(i) \in Entries
           /\ \A k \in Keys : Configured(i)[k] # NoPeer =>
                 \E p \in OnIface(i) : peers[p].enabled /\ peers[p].key = k /\ peers[p].ip = Configured(i)[k]
           /\ \A p \in OnIface(i) : peers[p].enabled => Configured(i)[peers[p].key] # NoPeer
<1>1. ASSUME NEW k \in Keys
      PROVE  \/ /\ Configured(i)[k] = NoPeer
                /\ \A p \in OnIface(i) : ~(peers[p].enabled /\ peers[p].key = k)
             \/ \E p \in OnIface(i) : peers[p].enabled /\ peers[p].key = k /\ Configured(i)[k] = peers[p].ip
  <2>1. PICK same : same = {q \in OnIface(i) : peers[q].enabled /\ peers[q].key = k}
    OBVIOUS
  <2>2. Configured(i)[k] = IF same = {} THEN NoPeer ELSE peers[Max(same)].ip
    BY <2>1 DEF Configured
  <2>3. same \subseteq PeerIds /\ same \subseteq Nat /\ IsFiniteSet(same)
    <3>1. same \subseteq PeerIds
      BY <2>1 DEF OnIface, Live
    <3> QED BY <3>1, HostsAssumption, FiniteAssumption, FS_Subset
  <2>4. same # {} => Max(same) \in same
    BY <2>3, MaxProps
  <2> QED BY <2>1, <2>2, <2>4
<1>2. \A p \in OnIface(i) : peers[p] \in Peer /\ peers[p].ip \in Hosts /\ peers[p].key \in Keys
  BY DEF OnIface, Live, TypeOK, Peer
<1>3. Configured(i) = [k \in Keys |-> Configured(i)[k]]
  BY DEF Configured
<1>4. \A k \in Keys : Configured(i)[k] \in Hosts \cup {NoPeer}
  BY <1>1, <1>2
<1> QED BY <1>1, <1>2, <1>3, <1>4, BlankAssumption DEF Entries

-----------------------------------------------------------------------------
(* What each step leaves its request with *)

Becomes(w, q) == q \in Request /\ req' = [req EXCEPT ![w] = q]

LEMMA BecomesFacts ==
    ASSUME TypeOK, NEW w \in Workers, NEW q, Becomes(w, q)
    PROVE  /\ req' \in [Workers -> Request] /\ req'[w] = q /\ q \in Request
           /\ \A v \in Workers \ {w} : req'[v] = req[v]
BY DEF TypeOK, Becomes

LEMMA EndBecomes == ASSUME NEW w, End(w) PROVE Becomes(w, Idle)
BY Constants DEF End, Becomes

LEMMA GotoBecomes ==
    ASSUME TypeOK, NEW w \in Workers, NEW pc \in {"push", "clean", "drop", "mark"}, Goto(w, pc)
    PROVE  \E q : /\ Becomes(w, q) /\ q.pc = pc /\ q.op = req[w].op /\ q.id = req[w].id
                  /\ q.iface = req[w].iface /\ q.row = req[w].row /\ q.old = req[w].old
<1>1. PICK r \in Request : r = req[w]
  BY DEF TypeOK
<1>2. PICK q : q = [r EXCEPT !.pc = pc]
  OBVIOUS
<1>3. /\ q \in Request /\ q.pc = pc /\ q.op = r.op /\ q.id = r.id
      /\ q.iface = r.iface /\ q.row = r.row /\ q.old = r.old
  BY <1>2 DEF Request
<1>4. req' = [req EXCEPT ![w] = q]
  BY <1>1, <1>2 DEF Goto, TypeOK
<1> QED BY <1>1, <1>3, <1>4 DEF Becomes

LEMMA BeginCreateBecomes ==
    ASSUME TypeOK, NEW w \in Workers, BeginCreate(w)
    PROVE  \E q : Becomes(w, q) /\ q.op = "create" /\ q.pc = "plan" /\ q.row = SomeRow
<1>1. PICK i \in Ifaces : req' = [req EXCEPT ![w] = [Idle EXCEPT !.op = "create", !.pc = "plan", !.iface = i]]
  BY DEF BeginCreate
<1>2. PICK q : q = [Idle EXCEPT !.op = "create", !.pc = "plan", !.iface = i]
  OBVIOUS
<1>3. q \in Request
  BY <1>2, Constants DEF Request, WorkerOps
<1>4. q.op = "create" /\ q.pc = "plan" /\ q.row = SomeRow
  BY <1>2 DEF Idle
<1> QED BY <1>1, <1>2, <1>3, <1>4 DEF Becomes

LEMMA BeginBecomes ==
    ASSUME TypeOK, NEW w \in Workers, NEW op \in {"update", "toggle", "delete"}, Begin(w, op)
    PROVE  \E q : Becomes(w, q) /\ q.op = op /\ q.pc = "get" /\ q.row = SomeRow
<1>1. PICK p \in PeerIds : req' = [req EXCEPT ![w] = [Idle EXCEPT !.op = op, !.pc = "get", !.id = p]]
  BY DEF Begin, TypeOK
<1>2. PICK q : q = [Idle EXCEPT !.op = op, !.pc = "get", !.id = p]
  OBVIOUS
<1>3. q \in Request
  BY <1>2, Constants DEF Request, WorkerOps
<1>4. q.op = op /\ q.pc = "get" /\ q.row = SomeRow
  BY <1>2 DEF Idle
<1> QED BY <1>1, <1>2, <1>3, <1>4 DEF Becomes

LEMMA BeginIfaceBecomes ==
    ASSUME TypeOK, NEW w \in Workers, NEW op \in {"start", "stop", "drop"}, NEW pc \in {"list", "push"},
           BeginIface(w, op, pc)
    PROVE  \E q : Becomes(w, q) /\ q.op = op /\ q.pc = pc /\ q.row = SomeRow
<1>1. PICK i \in Ifaces : req' = [req EXCEPT ![w] = [Idle EXCEPT !.op = op, !.pc = pc, !.iface = i]]
  BY DEF BeginIface, TypeOK
<1>2. PICK q : q = [Idle EXCEPT !.op = op, !.pc = pc, !.iface = i]
  OBVIOUS
<1>3. q \in Request
  BY <1>2, Constants DEF Request, WorkerOps
<1>4. q.op = op /\ q.pc = pc /\ q.row = SomeRow
  BY <1>2 DEF Idle
<1> QED BY <1>1, <1>2, <1>3, <1>4 DEF Becomes

LEMMA FreeProps ==
    ASSUME TypeOK, NEW i \in Ifaces, Free(i) # {}
    PROVE  /\ next_free_ipv4(i) \in Hosts
           /\ \A q \in OnIface(i) : peers[q].ip # next_free_ipv4(i)
<1>1. Free(i) \subseteq Hosts /\ Free(i) \subseteq Nat
  BY EnvFacts, HostsAssumption DEF Free
<1>2. next_free_ipv4(i) \in Free(i)
  BY <1>1, MinProps DEF next_free_ipv4
<1>3. Free(i) = env.hosts \ {peers[q].ip : q \in OnIface(i)}
  BY DEF Free
<1> QED BY <1>1, <1>2, <1>3

(* The row that create plans *)
LEMMA PlanCreateBecomes ==
    ASSUME TypeOK, NEW w \in Workers, PlanCreate(w)
    PROVE  \/ End(w)
           \/ \E q : /\ Becomes(w, q) /\ q.op = "create" /\ q.pc = "save"
                     /\ q.row.iface \in ifaces /\ q.row.enabled
                     /\ \A p \in OnIface(q.row.iface) : peers[p].ip # q.row.ip
                     /\ \E prv, pub \in Field(0) : NewKeys(prv, pub, [key |-> q.row.key, sealed |-> q.row.sealed])
<1> SUFFICES ASSUME ~End(w)
             PROVE  \E q : /\ Becomes(w, q) /\ q.op = "create" /\ q.pc = "save"
                           /\ q.row.iface \in ifaces /\ q.row.enabled
                           /\ \A p \in OnIface(q.row.iface) : peers[p].ip # q.row.ip
                           /\ \E prv, pub \in Field(0) :
                                 NewKeys(prv, pub, [key |-> q.row.key, sealed |-> q.row.sealed])
  OBVIOUS
<1>1. PICK r \in Request : r = req[w] /\ r.op = "create"
  BY DEF TypeOK, PlanCreate, At
<1>2. PICK i \in Ifaces : i = r.iface
  BY <1>1 DEF Request
<1>3. PICK want \in env.hosts \cup {Blank} :
         /\ ~Refused(i, want)
         /\ \E prv, pub \in Field(0), k \in [key : Keys, sealed : Keys \cup {Blank}] :
               /\ NewKeys(prv, pub, k)
               /\ req' = [req EXCEPT ![w].pc = "save",
                     ![w].row = [iface |-> i, key |-> k.key, sealed |-> k.sealed,
                                 ip |-> Allocation(i, want), enabled |-> TRUE, sched |-> FALSE,
                                 quota |-> FALSE]]
  BY <1>1, <1>2, Zenon DEF PlanCreate
<1>4. PICK prv \in Field(0), pub \in Field(0), k \in [key : Keys, sealed : Keys \cup {Blank}] :
         /\ NewKeys(prv, pub, k)
         /\ req' = [req EXCEPT ![w].pc = "save",
               ![w].row = [iface |-> i, key |-> k.key, sealed |-> k.sealed,
                           ip |-> Allocation(i, want), enabled |-> TRUE, sched |-> FALSE,
                           quota |-> FALSE]]
  BY <1>3, Zenon
<1>5. PICK ip : ip = Allocation(i, want)
  OBVIOUS
<1>6. i \in ifaces /\ ip \in Hosts /\ \A p \in OnIface(i) : peers[p].ip # ip
  <2>1. CASE want = Blank
    BY <2>1, <1>3, <1>5, FreeProps DEF Refused, Allocation
  <2>2. CASE want # Blank
    <3>1. i \in ifaces /\ ensure_no_conflict(want, i, 0) /\ want \in Hosts /\ ip = want
      BY <2>2, <1>3, <1>5, EnvFacts DEF Refused, Allocation
    <3>2. 0 \notin PeerIds
      BY HostsAssumption
    <3> QED BY <3>1, <3>2 DEF ensure_no_conflict, OnIface, Live
  <2> QED BY <2>1, <2>2
<1>7. PICK row : row = [iface |-> i, key |-> k.key, sealed |-> k.sealed, ip |-> ip, enabled |-> TRUE,
                        sched |-> FALSE, quota |-> FALSE]
  OBVIOUS
<1>8. /\ row \in Peer /\ row.iface = i /\ row.enabled /\ row.ip = ip
      /\ [key |-> row.key, sealed |-> row.sealed] = k
  BY <1>6, <1>7 DEF Peer
<1>9. PICK q : q = [r EXCEPT !.pc = "save", !.row = row]
  OBVIOUS
<1>10. q \in Request /\ q.op = "create" /\ q.pc = "save" /\ q.row = row
  BY <1>1, <1>8, <1>9 DEF Request
<1>11. req' = [req EXCEPT ![w] = q]
  BY <1>1, <1>4, <1>5, <1>7, <1>9 DEF TypeOK
<1> QED BY <1>4, <1>6, <1>8, <1>10, <1>11 DEF Becomes

(* Sizes of the sets that IdsLeft compares *)
LEMMA IdSets ==
    ASSUME TypeOK
    PROVE  /\ IsFiniteSet(Inserting) /\ IsFiniteSet(env.peers \ used)
           /\ Cardinality(Inserting) \in Nat /\ Cardinality(env.peers \ used) \in Nat
<1>1. Inserting \subseteq Workers /\ env.peers \ used \subseteq PeerIds
  BY EnvFacts DEF Inserting
<1>2. IsFiniteSet(Inserting) /\ IsFiniteSet(env.peers \ used)
  BY <1>1, FiniteAssumption, FS_Subset
<1> QED BY <1>2, FS_CardinalityType

(* A create that has yet to insert its row finds an id. *)
LEMMA NextId ==
    ASSUME TypeInv, NEW w \in Inserting
    PROVE  Min(env.peers \ used) \in (env.peers \ used) /\ Min(env.peers \ used) \in PeerIds
<1>1. Cardinality(Inserting) # 0
  BY IdSets, FS_EmptySet DEF TypeInv
<1>2. env.peers \ used # {}
  BY <1>1, IdSets, FS_EmptySet DEF TypeInv, IdsLeft
<1>3. env.peers \ used \subseteq Nat /\ env.peers \ used \subseteq PeerIds
  BY EnvFacts, HostsAssumption DEF TypeInv
<1> QED BY <1>2, <1>3, MinProps

LEMMA InsertBecomes ==
    ASSUME TypeInv, NEW w \in Workers, InsertPeer(w)
    PROVE  \/ req[w].row.iface \notin ifaces /\ End(w) /\ UNCHANGED <<peers, used>>
           \/ /\ req[w].row.iface \in ifaces
              /\ \E p \in env.peers \ used : /\ p \in PeerIds
                    /\ peers' = [peers EXCEPT ![p] = req[w].row] /\ used' = used \cup {p}
                    /\ \E q : /\ Becomes(w, q) /\ q.op = "create" /\ q.pc = "push" /\ q.id = p
                              /\ q.row = req[w].row
<1> SUFFICES ASSUME req[w].row.iface \in ifaces
             PROVE  \E p \in env.peers \ used : /\ p \in PeerIds
                      /\ peers' = [peers EXCEPT ![p] = req[w].row] /\ used' = used \cup {p}
                      /\ \E q : /\ Becomes(w, q) /\ q.op = "create" /\ q.pc = "push" /\ q.id = p
                                /\ q.row = req[w].row
  BY DEF InsertPeer, Copy
<1>1. w \in Inserting
  BY DEF InsertPeer, At, Inserting
<1>2. PICK p \in env.peers \ used : p = Min(env.peers \ used) /\ p \in PeerIds
  BY <1>1, NextId
<1>3. /\ peers' = [peers EXCEPT ![p] = req[w].row] /\ used' = used \cup {p}
      /\ req' = [req EXCEPT ![w].id = p, ![w].pc = "push"]
  BY <1>2, Zenon DEF InsertPeer, Copy
<1>4. PICK r \in Request : r = req[w] /\ r.op = "create"
  BY DEF TypeInv, TypeOK, InsertPeer, At
<1>5. PICK q : q = [r EXCEPT !.id = p, !.pc = "push"]
  OBVIOUS
<1>6. q \in Request /\ q.op = "create" /\ q.pc = "push" /\ q.id = p /\ q.row = r.row
  BY <1>2, <1>4, <1>5 DEF Request
<1>7. req' = [req EXCEPT ![w] = q]
  BY <1>3, <1>4, <1>5 DEF TypeInv, TypeOK
<1> QED BY <1>2, <1>3, <1>4, <1>6, <1>7 DEF Becomes

(* The copy of the row that get takes *)
LEMMA GetBecomes ==
    ASSUME TypeOK, NEW w \in Workers, get(w)
    PROVE  \/ End(w)
           \/ \E q : \E row \in Peer :
                 /\ Becomes(w, q) /\ row = peers[req[w].id] /\ q.op = req[w].op /\ q.id = req[w].id
                 /\ q.row \in Peer /\ q.row.iface = row.iface /\ q.row.key = row.key
                 /\ q.row.sealed = row.sealed /\ q.row.ip = row.ip
                 /\ \/ q.op = "update" /\ q.pc = "plan" /\ q.row = row
                       /\ q.old = [iface |-> row.iface, key |-> row.key]
                    \/ q.op = "toggle" /\ q.pc = "save"
                    \/ q.op = "delete" /\ q.pc = "push" /\ ~q.row.enabled
<1>1. PICK r \in Request : r = req[w] /\ r.id \in PeerIds
  BY DEF TypeOK, Request
<1>2. CASE peers[r.id] = NoPeer
  BY <1>1, <1>2 DEF get
<1>3. CASE peers[r.id] # NoPeer
  <2>1. PICK row \in Peer : row = peers[r.id] /\ row # NoPeer
    BY <1>1, <1>3 DEF TypeOK
  <2>2. PICK old \in [iface : Ifaces, key : Keys] : old = [iface |-> row.iface, key |-> row.key]
    BY DEF Peer
  <2>3. CASE r.op = "update"
    <3>1. PICK q : q = [r EXCEPT !.row = row, !.old = old, !.pc = "plan"]
      OBVIOUS
    <3>2. q \in Request /\ q.op = "update" /\ q.id = r.id /\ q.pc = "plan" /\ q.row = row /\ q.old = old
      BY <2>3, <3>1 DEF Request
    <3>3. req' = [req EXCEPT ![w].row = row, ![w].old = old, ![w].pc = "plan"]
      BY <1>1, <2>1, <2>2, <2>3 DEF get
    <3>4. req' = [req EXCEPT ![w] = q]
      BY <1>1, <3>1, <3>3 DEF TypeOK
    <3> QED BY <1>1, <2>1, <2>2, <2>3, <3>2, <3>4 DEF Becomes
  <2>4. CASE r.op = "toggle"
    <3>1. PICK enabled \in BOOLEAN :
             req' = [req EXCEPT ![w].row = [row EXCEPT !.enabled = enabled], ![w].pc = "save"]
      BY <1>1, <2>1, <2>4 DEF get
    <3>2. PICK new : new = [row EXCEPT !.enabled = enabled]
      OBVIOUS
    <3>3. new \in Peer /\ new.iface = row.iface /\ new.key = row.key /\ new.sealed = row.sealed /\ new.ip = row.ip
      BY <3>2 DEF Peer
    <3>4. PICK q : q = [r EXCEPT !.row = new, !.pc = "save"]
      OBVIOUS
    <3>5. q \in Request /\ q.op = "toggle" /\ q.id = r.id /\ q.pc = "save" /\ q.row = new
      BY <2>4, <3>3, <3>4 DEF Request
    <3>6. req' = [req EXCEPT ![w] = q]
      BY <1>1, <3>1, <3>2, <3>4 DEF TypeOK
    <3> QED BY <1>1, <2>1, <2>4, <3>3, <3>5, <3>6 DEF Becomes
  <2>5. CASE r.op = "delete"
    <3>1. req' = [req EXCEPT ![w].row = [row EXCEPT !.enabled = FALSE], ![w].pc = "push"]
      BY <1>1, <2>1, <2>5 DEF get
    <3>2. PICK new : new = [row EXCEPT !.enabled = FALSE]
      OBVIOUS
    <3>3. /\ new \in Peer /\ new.iface = row.iface /\ new.key = row.key /\ new.sealed = row.sealed
          /\ new.ip = row.ip /\ ~new.enabled
      BY <3>2 DEF Peer
    <3>4. PICK q : q = [r EXCEPT !.row = new, !.pc = "push"]
      OBVIOUS
    <3>5. q \in Request /\ q.op = "delete" /\ q.id = r.id /\ q.pc = "push" /\ q.row = new
      BY <2>5, <3>3, <3>4 DEF Request
    <3>6. req' = [req EXCEPT ![w] = q]
      BY <1>1, <3>1, <3>2, <3>4 DEF TypeOK
    <3> QED BY <1>1, <2>1, <2>5, <3>3, <3>5, <3>6 DEF Becomes
  <2> QED BY <1>1, <2>3, <2>4, <2>5 DEF get, At
<1> QED BY <1>2, <1>3

(* The row that update plans: the address is nobody else's, the keys go together. *)
LEMMA PlanUpdateBecomes ==
    ASSUME TypeOK, NEW w \in Workers, PlanUpdate(w)
    PROVE  \/ End(w)
           \/ \E q : /\ Becomes(w, q) /\ q.op = "update" /\ q.pc = "save" /\ q.id = req[w].id /\ q.old = req[w].old
                     /\ q.row.iface \in ifaces
                     /\ \A p \in OnIface(q.row.iface) \ {q.id} : peers[p].ip # q.row.ip
                     /\ \E prv, pub \in Field(req[w].id) :
                           [key |-> q.row.key, sealed |-> q.row.sealed] = ChangedKeys(req[w].row, prv, pub)
<1> SUFFICES ASSUME ~End(w)
             PROVE  \E q : /\ Becomes(w, q) /\ q.op = "update" /\ q.pc = "save" /\ q.id = req[w].id
                           /\ q.old = req[w].old /\ q.row.iface \in ifaces
                           /\ \A p \in OnIface(q.row.iface) \ {q.id} : peers[p].ip # q.row.ip
                           /\ \E prv, pub \in Field(req[w].id) :
                                 [key |-> q.row.key, sealed |-> q.row.sealed] = ChangedKeys(req[w].row, prv, pub)
  OBVIOUS
<1>1. PICK r \in Request : r = req[w] /\ r.op = "update"
  BY DEF TypeOK, PlanUpdate, At
<1>2. PICK i \in Ifaces, ip \in env.hosts, enabled \in env.flags, prv \in Field(req[w].id), pub \in Field(req[w].id) :
         IF i \notin ifaces \/ ~ensure_no_conflict(ip, i, req[w].id) THEN End(w)
         ELSE req' = [req EXCEPT ![w].pc = "save",
                        ![w].row = [@ EXCEPT !.iface = i, !.ip = ip, !.enabled = enabled,
                                    !.key = ChangedKeys(Copy(w), prv, pub).key,
                                    !.sealed = ChangedKeys(Copy(w), prv, pub).sealed]]
  BY DEF PlanUpdate
<1>a. /\ i \in ifaces /\ ensure_no_conflict(ip, i, req[w].id)
      /\ req' = [req EXCEPT ![w].pc = "save",
                   ![w].row = [@ EXCEPT !.iface = i, !.ip = ip, !.enabled = enabled,
                               !.key = ChangedKeys(Copy(w), prv, pub).key,
                               !.sealed = ChangedKeys(Copy(w), prv, pub).sealed]]
  BY <1>2
<1>3. PICK k : k = ChangedKeys(r.row, prv, pub)
  OBVIOUS
<1>4. k \in [key : Keys, sealed : Keys \cup {Blank}]
  <2>1. r.row.key \in Keys /\ r.row.sealed \in Keys \cup {Blank}
    BY <1>1 DEF Request, Peer
  <2>2. prv \in Keys \cup {Blank} /\ pub \in Keys \cup {Blank}
    BY <1>2, EnvFacts DEF Field
  <2> QED BY <1>3, <2>1, <2>2 DEF ChangedKeys
<1>5. ip \in Hosts /\ enabled \in BOOLEAN
  BY EnvFacts DEF Environment
<1>6. PICK old \in Peer : old = r.row
  BY <1>1 DEF Request
<1>7. PICK row : row = [old EXCEPT !.iface = i, !.ip = ip, !.enabled = enabled, !.key = k.key, !.sealed = k.sealed]
  OBVIOUS
<1>8. /\ row \in Peer /\ row.iface = i /\ row.ip = ip
      /\ [key |-> row.key, sealed |-> row.sealed] = k
  <2>1. row \in Peer /\ row.iface = i /\ row.ip = ip /\ row.key = k.key /\ row.sealed = k.sealed
    BY <1>4, <1>5, <1>7 DEF Peer
  <2> QED BY <1>4, <2>1
<1>9. PICK q : q = [r EXCEPT !.pc = "save", !.row = row]
  OBVIOUS
<1>10. q \in Request /\ q.op = "update" /\ q.pc = "save" /\ q.row = row /\ q.id = r.id /\ q.old = r.old
  BY <1>1, <1>8, <1>9 DEF Request
<1>11. req' = [req EXCEPT ![w] = q]
  BY <1>1, <1>a, <1>3, <1>6, <1>7, <1>9 DEF TypeOK, Copy
<1>12. i \in ifaces /\ \A p \in OnIface(i) \ {r.id} : peers[p].ip # ip
  BY <1>1, <1>a DEF ensure_no_conflict
<1>13. \E a, b \in Field(req[w].id) : [key |-> q.row.key, sealed |-> q.row.sealed] = ChangedKeys(req[w].row, a, b)
  BY <1>1, <1>2, <1>3, <1>8, <1>10, Zenon
<1>14. Becomes(w, q)
  BY <1>10, <1>11 DEF Becomes
<1> QED BY <1>1, <1>8, <1>10, <1>12, <1>13, <1>14

LEMMA ListBecomes ==
    ASSUME TypeOK, NEW w \in Workers, ListPeers(w)
    PROVE  \E q : /\ Becomes(w, q) /\ q.op = "start" /\ q.pc = "push" /\ q.iface = req[w].iface
                  /\ q.row = req[w].row /\ q.list = Configured(q.iface)
<1>1. PICK r \in Request : r = req[w] /\ r.op = "start"
  BY DEF TypeOK, ListPeers, At
<1>2. PICK list \in Entries : list = Configured(r.iface)
  BY <1>1, ConfiguredType DEF Request
<1>3. PICK q : q = [r EXCEPT !.list = list, !.pc = "push"]
  OBVIOUS
<1>4. q \in Request /\ q.op = "start" /\ q.pc = "push" /\ q.iface = r.iface /\ q.row = r.row /\ q.list = list
  BY <1>1, <1>3 DEF Request
<1>5. req' = [req EXCEPT ![w] = q]
  BY <1>1, <1>2, <1>3 DEF ListPeers, TypeOK
<1> QED BY <1>1, <1>2, <1>4, <1>5 DEF Becomes

-----------------------------------------------------------------------------
(* Every step keeps the types *)

(* A call sets one entry, or none and is remembered as missed. *)
LEMMA SetType ==
    ASSUME TypeOK, NEW i \in Ifaces, NEW k \in Keys, NEW entry \in Hosts \cup {NoPeer},
           SetEntry(i, k, entry) \/ EntryFails(i, k)
    PROVE  kern' \in [Ifaces -> Entries \cup {NoLink}] /\ missed' \subseteq Ifaces \X Keys
<1>1. missed' \subseteq Ifaces \X Keys
  BY DEF TypeOK, SetEntry, EntryFails
<1>2. kern' \in [Ifaces -> Entries \cup {NoLink}]
  BY DEF TypeOK, SetEntry, EntryFails, Entries
<1> QED BY <1>1, <1>2

LEMMA ApplyType ==
    ASSUME TypeOK, NEW row \in Peer, Push(row)
    PROVE  kern' \in [Ifaces -> Entries \cup {NoLink}] /\ missed' \subseteq Ifaces \X Keys
BY SetType DEF Push, apply_peer, remove_peer, Peer

LEMMA RemoveType ==
    ASSUME TypeOK, NEW i \in Ifaces, NEW k \in Keys, remove_peer(i, k)
    PROVE  kern' \in [Ifaces -> Entries \cup {NoLink}] /\ missed' \subseteq Ifaces \X Keys
BY SetType DEF remove_peer

LEMMA UpdateType ==
    ASSUME TypeOK, NEW p \in PeerIds, NEW row \in Peer, Update(p, row)
    PROVE  peers' \in [PeerIds -> Peer \cup {NoPeer}]
BY DEF TypeOK, Update

(* A step of a request that leaves the ids and the enforcer alone. *)
LEMMA TypeStep ==
    ASSUME TypeInv, NEW w \in Workers, NEW q, Becomes(w, q), UNCHANGED <<used, env, tick, open>>,
           (q.op = "create" /\ q.pc \in {"plan", "save"}) => w \in Inserting,
           ifaces' \subseteq Ifaces, up' \subseteq ifaces',
           peers' \in [PeerIds -> Peer \cup {NoPeer}], kern' \in [Ifaces -> Entries \cup {NoLink}],
           missed' \subseteq Ifaces \X Keys
    PROVE  TypeInv'
<1>1. /\ req' \in [Workers -> Request] /\ req'[w] = q
      /\ \A v \in Workers \ {w} : req'[v] = req[v]
  BY BecomesFacts DEF TypeInv
<1>2. TypeOK' /\ RoundHasPeer'
  BY <1>1 DEF TypeInv, TypeOK, RoundHasPeer
<1>3. Inserting' \subseteq Inserting
  BY <1>1 DEF Inserting
<1>4. Cardinality(Inserting') <= Cardinality(Inserting)
  BY <1>3, IdSets, FS_Subset DEF TypeInv
<1>5. Cardinality(Inserting') \in Nat
  BY <1>3, IdSets, FS_Subset, FS_CardinalityType DEF TypeInv
<1>6. IdsLeft'
  BY <1>4, <1>5, IdSets DEF TypeInv, IdsLeft
<1> QED BY <1>2, <1>6 DEF TypeInv

LEMMA TypeEnds ==
    ASSUME TypeInv, NEW w \in Workers, End(w),
           UNCHANGED <<ifaces, up, peers, used, kern, missed, tick, open, env>>
    PROVE  TypeInv'
<1>1. Becomes(w, Idle) /\ Idle.op = "none"
  BY EndBecomes DEF Idle
<1> QED BY <1>1, TypeStep DEF TypeInv, TypeOK

(* A create is one more that needs an id, and one is left. *)
LEMMA BeginCreateTypes == ASSUME TypeInv, NEW w \in Workers, BeginCreate(w) PROVE TypeInv'
<1>1. PICK q : Becomes(w, q) /\ q.op = "create" /\ q.pc = "plan" /\ q.row = SomeRow
  BY BeginCreateBecomes DEF TypeInv
<1>2. /\ req' \in [Workers -> Request] /\ req'[w] = q
      /\ \A v \in Workers \ {w} : req'[v] = req[v]
  BY <1>1, BecomesFacts DEF TypeInv
<1>3. TypeOK' /\ RoundHasPeer'
  BY <1>2 DEF TypeInv, TypeOK, RoundHasPeer, BeginCreate
<1>4. PICK C : C = {v \in Workers : req[v].op = "create"}
  OBVIOUS
<1>5. Inserting \subseteq C /\ IsFiniteSet(C) /\ Cardinality(C) < Cardinality(env.peers \ used)
  <2>1. C \subseteq Workers
    BY <1>4
  <2> QED BY <2>1, <1>4, FiniteAssumption, FS_Subset DEF Inserting, BeginCreate
<1>6. Cardinality(Inserting) <= Cardinality(C) /\ Cardinality(C) \in Nat
  BY <1>5, FS_Subset, FS_CardinalityType
<1>7. Inserting' = Inserting \cup {w} /\ w \notin Inserting
  BY <1>1, <1>2 DEF Inserting, BeginCreate
<1>8. Cardinality(Inserting') = Cardinality(Inserting) + 1
  BY <1>7, IdSets, FS_AddElement DEF TypeInv
<1>9. IdsLeft'
  BY <1>5, <1>6, <1>8, IdSets DEF IdsLeft, BeginCreate, TypeInv
<1> QED BY <1>3, <1>9 DEF TypeInv

(* An insert takes an id and needs none any more. *)
LEMMA InsertTypes == ASSUME TypeInv, NEW w \in Workers, InsertPeer(w) PROVE TypeInv'
<1>1. CASE req[w].row.iface \notin ifaces /\ End(w) /\ UNCHANGED <<peers, used>>
  BY <1>1, TypeEnds DEF InsertPeer
<1>2. CASE req[w].row.iface \in ifaces
  <2>1. PICK p \in env.peers \ used :
           /\ p \in PeerIds /\ peers' = [peers EXCEPT ![p] = req[w].row] /\ used' = used \cup {p}
           /\ \E q : Becomes(w, q) /\ q.op = "create" /\ q.pc = "push" /\ q.id = p /\ q.row = req[w].row
    BY <1>2, InsertBecomes
  <2>2. PICK q : Becomes(w, q) /\ q.op = "create" /\ q.pc = "push" /\ q.id = p /\ q.row = req[w].row
    BY <2>1
  <2>3. /\ req' \in [Workers -> Request] /\ req'[w] = q
        /\ \A v \in Workers \ {w} : req'[v] = req[v]
    BY <2>2, BecomesFacts DEF TypeInv
  <2>4. req[w].row \in Peer
    BY DEF TypeInv, TypeOK, Request
  <2>5. TypeOK' /\ RoundHasPeer'
    BY <2>1, <2>3, <2>4 DEF TypeInv, TypeOK, RoundHasPeer, InsertPeer
  <2>6. Inserting' = Inserting \ {w} /\ w \in Inserting
    BY <2>2, <2>3 DEF Inserting, InsertPeer, At
  <2>7. (env.peers \ used)' = (env.peers \ used) \ {p}
    BY <2>1 DEF InsertPeer
  <2>8. /\ Cardinality(Inserting') = Cardinality(Inserting) - 1
        /\ Cardinality((env.peers \ used)') = Cardinality(env.peers \ used) - 1
    <3>1. IsFiniteSet(Inserting) /\ IsFiniteSet(env.peers \ used)
      BY IdSets DEF TypeInv
    <3>2. Cardinality(Inserting') = Cardinality(Inserting) - 1
      BY <3>1, <2>6, FS_RemoveElement
    <3>3. Cardinality((env.peers \ used)') = Cardinality(env.peers \ used) - 1
      <4>1. PICK A : A = env.peers \ used
        OBVIOUS
      <4>2. IsFiniteSet(A) /\ p \in A /\ (env.peers \ used)' = A \ {p}
        BY <3>1, <2>1, <2>7, <4>1
      <4>3. Cardinality(A \ {p}) = Cardinality(A) - 1
        BY <4>2, FS_RemoveElement
      <4> QED BY <4>1, <4>2, <4>3, Zenon
    <3> QED BY <3>2, <3>3
  <2>9. IdsLeft'
    BY <2>8, IdSets DEF TypeInv, IdsLeft
  <2> QED BY <2>5, <2>9 DEF TypeInv
<1> QED BY <1>1, <1>2, InsertBecomes

LEMMA HandleTypes == ASSUME TypeInv, NEW w \in Workers, Handle(w) \/ interface_up(w) PROVE TypeInv'
<1>1. CASE BeginCreate(w) \/ InsertPeer(w)
  BY <1>1, BeginCreateTypes, InsertTypes
<1>2. CASE \E op \in {"update", "toggle", "delete"} : Begin(w, op)
  <2>1. PICK q : Becomes(w, q) /\ q.pc = "get"
    BY <1>2, BeginBecomes DEF TypeInv
  <2> QED BY <1>2, <2>1, TypeStep DEF Begin, TypeInv, TypeOK
<1>3. CASE BeginIface(w, "start", "list") \/ BeginIface(w, "stop", "push") \/ BeginIface(w, "drop", "push")
  <2>1. PICK q : Becomes(w, q) /\ q.pc \in {"list", "push"}
    BY <1>3, BeginIfaceBecomes DEF TypeInv
  <2> QED BY <1>3, <2>1, TypeStep DEF BeginIface, TypeInv, TypeOK
<1>4. CASE PlanCreate(w)
  <2>1. CASE End(w)
    BY <1>4, <2>1, TypeEnds DEF PlanCreate
  <2>2. CASE ~End(w)
    <3>1. PICK q : Becomes(w, q) /\ w \in Inserting
      BY <1>4, <2>2, PlanCreateBecomes DEF TypeInv, PlanCreate, Inserting, At
    <3> QED BY <1>4, <3>1, TypeStep DEF PlanCreate, TypeInv, TypeOK
  <2> QED BY <2>1, <2>2
<1>5. CASE get(w)
  <2>1. CASE End(w)
    BY <1>5, <2>1, TypeEnds DEF get
  <2>2. CASE ~End(w)
    <3>1. PICK q : Becomes(w, q) /\ q.op \in {"update", "toggle", "delete"}
      BY <1>5, <2>2, GetBecomes DEF TypeInv
    <3> QED BY <1>5, <3>1, TypeStep DEF get, TypeInv, TypeOK
  <2> QED BY <2>1, <2>2
<1>6. CASE PlanUpdate(w)
  <2>1. CASE End(w)
    BY <1>6, <2>1, TypeEnds DEF PlanUpdate
  <2>2. CASE ~End(w)
    <3>1. PICK q : Becomes(w, q) /\ q.op = "update"
      BY <1>6, <2>2, PlanUpdateBecomes DEF TypeInv
    <3> QED BY <1>6, <3>1, TypeStep DEF PlanUpdate, TypeInv, TypeOK
  <2> QED BY <2>1, <2>2
<1>7. CASE SavePeer(w)
  <2>1. CASE Dangling(req[w].id, Copy(w))
    BY <1>7, <2>1, TypeEnds DEF SavePeer
  <2>2. CASE ~Dangling(req[w].id, Copy(w))
    <3>1. Update(req[w].id, Copy(w)) /\ (Goto(w, "clean") \/ Goto(w, "push"))
      BY <1>7, <2>2 DEF SavePeer
    <3>2. PICK q : Becomes(w, q) /\ q.pc \in {"clean", "push"}
      BY <3>1, GotoBecomes DEF TypeInv
    <3>3. req[w].id \in PeerIds /\ Copy(w) \in Peer
      BY DEF TypeInv, TypeOK, Request, Copy
    <3>4. peers' \in [PeerIds -> Peer \cup {NoPeer}]
      BY <3>1, <3>3, UpdateType DEF TypeInv
    <3> QED BY <1>7, <3>2, <3>4, TypeStep DEF SavePeer, TypeInv, TypeOK
  <2> QED BY <2>1, <2>2
<1>8. CASE RemoveStale(w)
  <2>1. PICK q : Becomes(w, q) /\ q.pc = "push"
    BY <1>8, GotoBecomes DEF TypeInv, RemoveStale
  <2>2. req[w].old.iface \in Ifaces /\ req[w].old.key \in Keys
    BY DEF TypeInv, TypeOK, Request
  <2>3. kern' \in [Ifaces -> Entries \cup {NoLink}] /\ missed' \subseteq Ifaces \X Keys
    BY <1>8, <2>2, RemoveType DEF TypeInv, TypeOK, RemoveStale
  <2> QED BY <1>8, <2>1, <2>3, TypeStep DEF RemoveStale, TypeInv, TypeOK
<1>9. CASE PushPeer(w)
  <2>1. req[w].row \in Peer
    BY DEF TypeInv, TypeOK, Request
  <2>2. kern' \in [Ifaces -> Entries \cup {NoLink}] /\ missed' \subseteq Ifaces \X Keys
    BY <1>9, <2>1, ApplyType DEF TypeInv, TypeOK, PushPeer, Copy
  <2>3. PICK q : Becomes(w, q) /\ q.pc \in {"idle", "drop"}
    <3>1. End(w) \/ Goto(w, "drop")
      BY <1>9 DEF PushPeer
    <3>2. Idle.pc = "idle"
      BY DEF Idle
    <3> QED BY <3>1, <3>2, EndBecomes, GotoBecomes DEF TypeInv
  <2> QED BY <1>9, <2>2, <2>3, TypeStep DEF PushPeer, TypeInv, TypeOK
<1>10. CASE DeletePeer(w)
  <2>1. Becomes(w, Idle) /\ Idle.pc = "idle"
    BY <1>10, EndBecomes DEF DeletePeer, Idle
  <2>2. peers' \in [PeerIds -> Peer \cup {NoPeer}]
    BY <1>10 DEF DeletePeer, TypeInv, TypeOK
  <2> QED BY <1>10, <2>1, <2>2, TypeStep DEF DeletePeer, TypeInv, TypeOK
<1>11. CASE ListPeers(w)
  <2>1. PICK q : Becomes(w, q) /\ q.pc = "push"
    BY <1>11, ListBecomes DEF TypeInv
  <2> QED BY <1>11, <2>1, TypeStep DEF ListPeers, TypeInv, TypeOK
<1>12. CASE interface_up(w)
  <2>1. PICK q : Becomes(w, q) /\ q.pc \in {"idle", "mark"}
    <3>1. Idle.pc = "idle"
      BY DEF Idle
    <3> QED BY <1>12, <3>1, EndBecomes, GotoBecomes DEF TypeInv, interface_up
  <2>2. kern' \in [Ifaces -> Entries \cup {NoLink}] /\ missed' \subseteq Ifaces \X Keys
    BY <1>12 DEF interface_up, TypeInv, TypeOK, Request
  <2> QED BY <1>12, <2>1, <2>2, TypeStep DEF interface_up, TypeInv, TypeOK
<1>13. CASE interface_down(w)
  <2>1. PICK q : Becomes(w, q) /\ q.pc \in {"drop", "mark"}
    BY <1>13, GotoBecomes DEF TypeInv, interface_down
  <2>2. kern' \in [Ifaces -> Entries \cup {NoLink}]
    BY <1>13 DEF interface_down, TypeInv, TypeOK, Request
  <2> QED BY <1>13, <2>1, <2>2, TypeStep DEF interface_down, TypeInv, TypeOK
<1>14. CASE MarkStatus(w)
  <2>1. Becomes(w, Idle) /\ Idle.pc = "idle"
    BY <1>14, EndBecomes DEF MarkStatus, Idle
  <2> QED BY <1>14, <2>1, TypeStep DEF MarkStatus, TypeInv, TypeOK
<1>15. CASE DeleteIface(w)
  <2>1. Becomes(w, Idle) /\ Idle.pc = "idle"
    BY <1>15, EndBecomes DEF DeleteIface, Idle
  <2> QED BY <1>15, <2>1, TypeStep DEF DeleteIface, TypeInv, TypeOK
<1>16. CASE Abandon(w)
  BY <1>16, TypeEnds DEF Abandon
<1>17. CASE UpFails(w)
  <2>1. Becomes(w, Idle) /\ Idle.pc = "idle"
    BY <1>17, EndBecomes DEF UpFails, Idle
  <2>2. kern' \in [Ifaces -> Entries \cup {NoLink}] /\ missed' \subseteq Ifaces \X Keys
    BY <1>17 DEF UpFails, TypeInv, TypeOK, Request, Entries, Nobody
  <2> QED BY <1>17, <2>1, <2>2, TypeStep DEF UpFails, TypeInv, TypeOK
<1>18. CASE DownFails(w)
  <2>1. PICK q : Becomes(w, q) /\ q.pc \in {"idle", "drop"}
    <3>1. Idle.pc = "idle"
      BY DEF Idle
    <3> QED BY <1>18, <3>1, EndBecomes, GotoBecomes DEF TypeInv, DownFails
  <2> QED BY <1>18, <2>1, TypeStep DEF DownFails, TypeInv, TypeOK
<1> QED BY <1>1, <1>2, <1>3, <1>4, <1>5, <1>6, <1>7, <1>8, <1>9, <1>10, <1>11, <1>12, <1>13, <1>14,
           <1>15, <1>16, <1>17, <1>18 DEF Handle

(* A step of the enforcer or of the clock. *)
LEMMA TypeAside ==
    ASSUME TypeInv, UNCHANGED <<ifaces, up, used, req, env>>, tick' \in Enforcer, RoundHasPeer', open' \in BOOLEAN,
           peers' \in [PeerIds -> Peer \cup {NoPeer}], kern' \in [Ifaces -> Entries \cup {NoLink}],
           missed' \subseteq Ifaces \X Keys
    PROVE  TypeInv'
BY DEF TypeInv, TypeOK, IdsLeft, Inserting

LEMMA RunOnceFacts ==
    ASSUME TypeOK, run_once
    PROVE  /\ tick' \in Enforcer /\ tick'.pc = "save" /\ \E p \in PeerIds : tick'.todo[p] # NoPeer
           /\ \A p \in PeerIds : tick'.todo[p] # NoPeer =>
                 /\ p \in Live /\ tick'.todo[p].iface = peers[p].iface /\ tick'.todo[p].key = peers[p].key
                 /\ tick'.todo[p].sealed = peers[p].sealed /\ tick'.todo[p].ip = peers[p].ip
<1>1. PICK due : /\ due = {p \in Live : peers[p].sched /\ peers[p].enabled # open} /\ due # {}
                /\ tick' = [pc |-> "save", todo |-> [p \in PeerIds |->
                       IF p \in due THEN [peers[p] EXCEPT !.enabled = open] ELSE NoPeer]]
  BY DEF run_once
<1>2. \A p \in due : p \in PeerIds /\ p \in Live /\ peers[p] \in Peer
  BY <1>1 DEF Live, TypeOK
<1>3. open \in BOOLEAN
  BY DEF TypeOK
<1>4. ASSUME NEW p \in due
      PROVE  /\ tick'.todo[p] \in Peer /\ tick'.todo[p] # NoPeer
             /\ tick'.todo[p].iface = peers[p].iface /\ tick'.todo[p].key = peers[p].key
             /\ tick'.todo[p].sealed = peers[p].sealed /\ tick'.todo[p].ip = peers[p].ip
  <2>1. PICK row \in Peer : row = peers[p] /\ p \in PeerIds
    BY <1>2
  <2>2. PICK new : new = [row EXCEPT !.enabled = open]
    OBVIOUS
  <2>3. new \in Peer /\ new.iface = row.iface /\ new.key = row.key /\ new.sealed = row.sealed /\ new.ip = row.ip
    BY <1>3, <2>2 DEF Peer
  <2>4. tick'.todo[p] = new
    BY <1>1, <2>1, <2>2
  <2> QED BY <2>1, <2>3, <2>4, NoneAssumption
<1>5. \A p \in PeerIds \ due : tick'.todo[p] = NoPeer
  BY <1>1
<1>6. tick'.pc = "save" /\ tick'.todo = [p \in PeerIds |-> tick'.todo[p]]
      /\ tick' = [pc |-> tick'.pc, todo |-> tick'.todo]
  BY <1>1
<1>7. \A p \in PeerIds : tick'.todo[p] \in Peer \cup {NoPeer}
  BY <1>4, <1>5
<1>8. tick'.todo \in [PeerIds -> Peer \cup {NoPeer}]
  BY <1>6, <1>7
<1>9. tick' \in Enforcer
  BY <1>6, <1>8 DEF Enforcer
<1> QED BY <1>1, <1>2, <1>4, <1>5, <1>6, <1>9

LEMMA NextDueFacts ==
    ASSUME TypeOK, RoundHasPeer, tick.pc # "idle", NextDue
    PROVE  /\ tick' \in Enforcer /\ RoundHasPeer' /\ tick'.pc \in {"idle", "save"}
           /\ \A p \in PeerIds : tick'.todo[p] # NoPeer => tick'.todo[p] = tick.todo[p]
<1>1. PICK rest : rest = [tick.todo EXCEPT ![Due] = NoPeer]
  OBVIOUS
<1>2. rest \in [PeerIds -> Peer \cup {NoPeer}] /\ \A p \in PeerIds : rest[p] # NoPeer => rest[p] = tick.todo[p]
  BY <1>1, DueProps DEF TypeOK, Enforcer
<1>3. CASE rest = Nothing
  <2>1. tick' = Asleep
    BY <1>1, <1>3 DEF NextDue
  <2> QED BY <2>1, Constants DEF Asleep, Nothing, RoundHasPeer
<1>4. CASE rest # Nothing
  <2>1. tick' = [pc |-> "save", todo |-> rest]
    BY <1>1, <1>4 DEF NextDue
  <2>2. \E p \in PeerIds : rest[p] # NoPeer
    BY <1>2, <1>4 DEF Nothing
  <2> QED BY <1>2, <2>1, <2>2 DEF Enforcer, RoundHasPeer
<1> QED BY <1>3, <1>4

LEMMA EnforceTypes == ASSUME TypeInv, Enforce PROVE TypeInv'
<1>1. CASE run_once
  <2>1. tick' \in Enforcer /\ RoundHasPeer'
    BY <1>1, RunOnceFacts DEF TypeInv, RoundHasPeer
  <2> QED BY <1>1, <2>1, TypeAside DEF run_once, TypeInv, TypeOK
<1>2. CASE SaveDue
  <2>1. Due \in PeerIds /\ tick.todo[Due] \in Peer
    BY <1>2, DueProps DEF SaveDue, TypeInv
  <2>2. CASE Dangling(Due, tick.todo[Due])
    <3>1. tick' = Asleep /\ UNCHANGED peers
      BY <1>2, <2>2 DEF SaveDue
    <3> QED BY <1>2, <3>1, Constants, TypeAside DEF SaveDue, TypeInv, TypeOK, Asleep, RoundHasPeer
  <2>3. CASE ~Dangling(Due, tick.todo[Due])
    <3>1. Update(Due, tick.todo[Due]) /\ tick' = [tick EXCEPT !.pc = "push"]
      BY <1>2, <2>3 DEF SaveDue
    <3>2. tick' \in Enforcer /\ RoundHasPeer'
      BY <1>2, <3>1 DEF TypeInv, TypeOK, Enforcer, RoundHasPeer, SaveDue
    <3>3. peers' \in [PeerIds -> Peer \cup {NoPeer}]
      BY <2>1, <3>1, UpdateType DEF TypeInv
    <3> QED BY <1>2, <3>2, <3>3, TypeAside DEF SaveDue, TypeInv, TypeOK
  <2> QED BY <2>2, <2>3
<1>3. CASE PushDue
  <2>1. Due \in PeerIds /\ tick.todo[Due] \in Peer
    BY <1>3, DueProps DEF PushDue, TypeInv
  <2>2. kern' \in [Ifaces -> Entries \cup {NoLink}] /\ missed' \subseteq Ifaces \X Keys
    BY <1>3, <2>1, ApplyType DEF PushDue, TypeInv, TypeOK
  <2>3. tick' \in Enforcer /\ RoundHasPeer'
    <3>1. CASE NextDue
      BY <1>3, <3>1, NextDueFacts DEF PushDue, TypeInv
    <3>2. CASE tick' = Asleep
      BY <3>2, Constants DEF Asleep, RoundHasPeer
    <3> QED BY <1>3, <3>1, <3>2 DEF PushDue
  <2> QED BY <1>3, <2>2, <2>3, TypeAside DEF PushDue, TypeInv, TypeOK
<1> QED BY <1>1, <1>2, <1>3 DEF Enforce

LEMMA TendTypes == ASSUME TypeInv, Tend PROVE TypeInv'
<1>1. CASE \E w \in Workers : Handle(w)
  BY <1>1, HandleTypes
<1>2. CASE Enforce
  BY <1>2, EnforceTypes
<1>3. CASE SetSchedule
  <2>1. PICK p \in Live : peers' = [peers EXCEPT ![p].sched = TRUE]
    BY <1>3 DEF SetSchedule
  <2>2. PICK row \in Peer : row = peers[p] /\ p \in PeerIds
    BY <2>1 DEF Live, TypeInv, TypeOK
  <2>3. [row EXCEPT !.sched = TRUE] \in Peer
    BY DEF Peer
  <2>4. peers' \in [PeerIds -> Peer \cup {NoPeer}]
    BY <2>1, <2>2, <2>3 DEF TypeInv, TypeOK
  <2> QED BY <1>3, <2>4, TypeAside DEF SetSchedule, TypeInv, TypeOK, RoundHasPeer
<1>4. CASE ClockTurns
  BY <1>4, TypeAside DEF ClockTurns, TypeInv, TypeOK, RoundHasPeer
<1> QED BY <1>1, <1>2, <1>3, <1>4 DEF Tend

LEMMA TypeInit == Init => TypeInv
<1> SUFFICES ASSUME Init PROVE TypeInv
  OBVIOUS
<1>1. TypeOK /\ RoundHasPeer
  BY Constants DEF Init, TypeOK, Entries, Nobody, RoundHasPeer, Asleep
<1>2. Inserting = {}
  BY DEF Init, Inserting, Idle
<1>3. IdsLeft
  BY <1>1, <1>2, IdSets, FS_EmptySet DEF IdsLeft
<1> QED BY <1>1, <1>3 DEF TypeInv

LEMMA TypeNext == TypeInv /\ [Next]_vars => TypeInv'
<1> SUFFICES ASSUME TypeInv, [Next]_vars PROVE TypeInv'
  OBVIOUS
<1>1. CASE Next
  BY <1>1, TendTypes, HandleTypes DEF Next
<1>2. CASE UNCHANGED vars
  BY <1>2 DEF vars, TypeInv, TypeOK, RoundHasPeer, IdsLeft, Inserting
<1> QED BY <1>1, <1>2

LEMMA TypeInvariant == Spec => []TypeInv
BY TypeInit, TypeNext, PTL DEF Spec

-----------------------------------------------------------------------------
(* Rows, requests, kernel entries and the enforcer's copies have their types, an id is left   *)
(* for every create that has begun, and a round of the enforcer that goes on has a peer left. *)
THEOREM PeerTypes == Spec => []TypeOK
<1>1. TypeInv => TypeOK
  BY DEF TypeInv
<1> QED BY <1>1, TypeInvariant, PTL

-----------------------------------------------------------------------------
(* What a step does to a row of the table *)

\* A create inserts its row under an id that was never given out.
Inserted(p) == \E w \in Inserting : /\ p \notin used /\ p \in used' /\ peers'[p] = req[w].row
                                    /\ req[w].row.iface \in ifaces

\* An edit or the enforcer writes its copy over a row.
Overwritten(p) ==
    /\ peers[p] # NoPeer /\ peers'[p] # NoPeer /\ peers'[p].iface \in ifaces
    /\ \/ \E w \in Workers : /\ At(w, {"update", "toggle"}, "save") /\ p = req[w].id
                             /\ peers'[p] = req[w].row
       \/ tick.pc = "save" /\ p = Due /\ peers'[p] = tick.todo[p]

\* The schedule column was set.
Scheduled(p) == \E row \in Peer : row = peers[p] /\ peers'[p] = [row EXCEPT !.sched = TRUE]

RowStep(p) ==
    \/ peers'[p] = peers[p]
    \/ peers'[p] = NoPeer
    \/ ifaces' = ifaces /\ (Inserted(p) \/ Overwritten(p) \/ Scheduled(p))

\* Ids stay given out, and the interfaces that go take their peers along.
Cascades ==
    /\ used \subseteq used' /\ ifaces' \subseteq ifaces
    /\ \A p \in PeerIds : peers'[p] # NoPeer =>
          \/ ifaces' = ifaces
          \/ peers'[p] = peers[p] /\ (peers[p].iface \in ifaces => peers[p].iface \in ifaces')

LEMMA HandleRows ==
    ASSUME TypeInv, NEW w \in Workers, Handle(w) \/ interface_up(w)
    PROVE  Cascades /\ \A p \in PeerIds : RowStep(p)
<1>1. CASE InsertPeer(w)
  <2>1. ifaces' = ifaces
    BY <1>1 DEF InsertPeer
  <2>2. CASE UNCHANGED <<peers, used>>
    BY <2>1, <2>2 DEF Cascades, RowStep
  <2>3. CASE req[w].row.iface \in ifaces
    <3>1. PICK p \in env.peers \ used : /\ p \in PeerIds /\ peers' = [peers EXCEPT ![p] = req[w].row]
                                        /\ used' = used \cup {p}
      BY <1>1, <2>3, InsertBecomes
    <3>2. w \in Inserting
      BY <1>1 DEF InsertPeer, Inserting, At
    <3>3. peers'[p] = req[w].row /\ p \notin used /\ \A x \in PeerIds \ {p} : peers'[x] = peers[x]
      BY <3>1 DEF TypeInv, TypeOK
    <3>4. Inserted(p)
      BY <2>3, <3>1, <3>2, <3>3 DEF Inserted
    <3> QED BY <2>1, <3>1, <3>3, <3>4 DEF Cascades, RowStep
  <2> QED BY <1>1, <2>2, <2>3 DEF InsertPeer, Copy
<1>2. CASE SavePeer(w)
  <2>1. ifaces' = ifaces /\ used' = used
    BY <1>2 DEF SavePeer
  <2>2. CASE UNCHANGED peers
    BY <2>1, <2>2 DEF Cascades, RowStep
  <2>3. CASE ~Dangling(req[w].id, Copy(w)) /\ Update(req[w].id, Copy(w))
    <3>1. PICK p \in PeerIds : p = req[w].id
      BY DEF TypeInv, TypeOK, Request
    <3>2. PICK row \in Peer : row = req[w].row
      BY DEF TypeInv, TypeOK, Request
    <3>3. peers'[p] = (IF peers[p] = NoPeer THEN NoPeer ELSE row) /\ \A x \in PeerIds \ {p} : peers'[x] = peers[x]
      BY <2>3, <3>1, <3>2 DEF Update, Copy, TypeInv, TypeOK
    <3>4. peers[p] = NoPeer \/ Overwritten(p)
      BY <1>2, <2>3, <3>1, <3>2, <3>3, NoneAssumption DEF Overwritten, Dangling, Copy, SavePeer
    <3> QED BY <2>1, <3>3, <3>4 DEF Cascades, RowStep
  <2> QED BY <1>2, <2>2, <2>3 DEF SavePeer
<1>3. CASE DeletePeer(w)
  <2>1. ifaces' = ifaces /\ used' = used /\ peers' = [peers EXCEPT ![req[w].id] = NoPeer]
    BY <1>3 DEF DeletePeer
  <2>2. \A p \in PeerIds : peers'[p] \in {NoPeer, peers[p]}
    BY <2>1 DEF TypeInv, TypeOK
  <2> QED BY <2>1, <2>2 DEF Cascades, RowStep
<1>4. CASE DeleteIface(w)
  <2>1. PICK i \in Ifaces : i = req[w].iface
    BY DEF TypeInv, TypeOK, Request
  <2>2. ifaces' = ifaces \ {i} /\ used' = used
    BY <1>4, <2>1 DEF DeleteIface
  <2>3. \A p \in PeerIds : peers'[p] = IF p \in OnIface(i) THEN NoPeer ELSE peers[p]
    BY <1>4, <2>1 DEF DeleteIface
  <2>4. \A p \in PeerIds : peers'[p] # NoPeer => peers'[p] = peers[p] /\ peers[p].iface # i
    BY <2>3 DEF OnIface, Live
  <2> QED BY <2>2, <2>3, <2>4 DEF Cascades, RowStep
<1>5. CASE UNCHANGED <<ifaces, peers, used>>
  BY <1>5 DEF Cascades, RowStep
<1>6. InsertPeer(w) \/ SavePeer(w) \/ DeletePeer(w) \/ DeleteIface(w) \/ UNCHANGED <<ifaces, peers, used>>
  BY DEF Handle, interface_up, BeginCreate, Begin, BeginIface, PlanCreate, get, PlanUpdate, RemoveStale, PushPeer,
         ListPeers, interface_down, UpFails, DownFails, MarkStatus, Abandon
<1> QED BY <1>1, <1>2, <1>3, <1>4, <1>5, <1>6

LEMMA RowSteps ==
    ASSUME TypeInv, [Next]_vars
    PROVE  Cascades /\ \A p \in PeerIds : RowStep(p)
<1>1. CASE \E w \in Workers : Handle(w) \/ interface_up(w)
  BY <1>1, HandleRows
<1>2. CASE SaveDue
  <2>1. ifaces' = ifaces /\ used' = used /\ tick.pc = "save"
    BY <1>2 DEF SaveDue
  <2>2. CASE UNCHANGED peers
    BY <2>1, <2>2 DEF Cascades, RowStep
  <2>3. CASE ~Dangling(Due, tick.todo[Due]) /\ Update(Due, tick.todo[Due])
    <3>1. PICK p \in PeerIds : p = Due /\ tick.todo[p] \in Peer
      BY <2>1, DueProps DEF TypeInv
    <3>2. peers'[p] = (IF peers[p] = NoPeer THEN NoPeer ELSE tick.todo[p])
          /\ \A x \in PeerIds \ {p} : peers'[x] = peers[x]
      BY <2>3, <3>1 DEF Update, TypeInv, TypeOK
    <3>3. peers[p] = NoPeer \/ Overwritten(p)
      BY <2>1, <2>3, <3>1, <3>2, NoneAssumption DEF Overwritten, Dangling
    <3> QED BY <2>1, <3>2, <3>3 DEF Cascades, RowStep
  <2> QED BY <1>2, <2>2, <2>3 DEF SaveDue
<1>3. CASE SetSchedule
  <2>1. PICK p \in Live : peers' = [peers EXCEPT ![p].sched = TRUE]
    BY <1>3 DEF SetSchedule
  <2>2. PICK row \in Peer : row = peers[p] /\ p \in PeerIds
    BY <2>1 DEF Live, TypeInv, TypeOK
  <2>3. peers'[p] = [row EXCEPT !.sched = TRUE] /\ \A x \in PeerIds \ {p} : peers'[x] = peers[x]
    BY <2>1, <2>2 DEF TypeInv, TypeOK
  <2>4. Scheduled(p)
    BY <2>2, <2>3 DEF Scheduled
  <2> QED BY <1>3, <2>3, <2>4 DEF Cascades, RowStep, SetSchedule
<1>4. CASE UNCHANGED <<ifaces, peers, used>>
  BY <1>4 DEF Cascades, RowStep
<1>5. (\E w \in Workers : Handle(w) \/ interface_up(w)) \/ SaveDue \/ SetSchedule \/ UNCHANGED <<ifaces, peers, used>>
  BY DEF Next, Tend, Enforce, run_once, PushDue, ClockTurns, vars
<1> QED BY <1>1, <1>2, <1>3, <1>4, <1>5

-----------------------------------------------------------------------------
(* Whoever writes: the copy is refused when its interface is gone, and a row goes with it. *)
LEMMA OrphansNext == TypeInv /\ NoOrphans /\ [Next]_vars => NoOrphans'
<1> SUFFICES ASSUME TypeInv, NoOrphans, [Next]_vars, NEW p \in PeerIds, peers'[p] # NoPeer
             PROVE  peers'[p].iface \in ifaces'
  BY DEF NoOrphans, Live
<1>1. Cascades /\ RowStep(p)
  BY RowSteps
<1>2. CASE peers'[p] = peers[p]
  BY <1>1, <1>2 DEF Cascades, NoOrphans, Live
<1>3. CASE ifaces' = ifaces /\ Scheduled(p)
  <2>1. PICK row \in Peer : row = peers[p] /\ peers'[p] = [row EXCEPT !.sched = TRUE]
    BY <1>3 DEF Scheduled
  <2>2. peers'[p].iface = row.iface
    BY <2>1 DEF Peer
  <2> QED BY <1>3, <2>1, <2>2, NoneAssumption DEF NoOrphans, Live
<1> QED BY <1>1, <1>2, <1>3 DEF RowStep, Inserted, Overwritten

(* A write of a stale copy is an UPDATE, which makes no row, and it is refused when the       *)
(* interface in the copy is gone; an interface that goes takes its rows along.                *)
THEOREM NoOrphan == Spec => []NoOrphans
<1>1. Init => NoOrphans
  BY DEF Init, NoOrphans, Live, Nothing
<1> QED BY <1>1, OrphansNext, TypeInvariant, PTL DEF Spec

(* The only step that makes a row is an insert, and its id is new: whatever copies are still *)
(* on their way, an id whose row went stays without one.                                      *)
THEOREM DeletedStays == Spec => NoResurrection
<1>1. TypeInv /\ [Next]_vars => [StaysDeleted]_vars
  <2> SUFFICES ASSUME TypeInv, [Next]_vars, NEW p \in used, peers[p] = NoPeer PROVE peers'[p] = NoPeer
    BY DEF StaysDeleted
  <2>1. p \in PeerIds
    BY DEF TypeInv, TypeOK
  <2>2. RowStep(p)
    BY <2>1, RowSteps
  <2> QED BY <2>2, NoneAssumption DEF RowStep, Inserted, Overwritten, Scheduled
<1> QED BY <1>1, TypeInvariant, PTL DEF Spec, NoResurrection

-----------------------------------------------------------------------------
(* Key pairs *)

Paired(row) == row.sealed \in {Blank, row.key}

\* The copies that requests and the enforcer have yet to write are as good as the rows.
PairsInv ==
    /\ TypeInv
    /\ KeyPairsMatch
    /\ \A w \in Workers : Paired(req[w].row)
    /\ \A p \in PeerIds : tick.todo[p] # NoPeer => Paired(tick.todo[p])

(* A step of a request leaves its copy, starts from an empty one, or plans a paired one. *)
LEMMA HandleBecomes ==
    ASSUME TypeInv, NEW w \in Workers, Handle(w) \/ interface_up(w)
    PROVE  \E q : Becomes(w, q) /\ (KeyPairsMatch /\ Paired(req[w].row) => Paired(q.row))
<1>0. Paired(SomeRow) /\ Paired(Idle.row)
  BY Constants DEF Paired, Idle
<1>1. CASE End(w)
  BY <1>1, <1>0, EndBecomes
<1>2. CASE Goto(w, "push") \/ Goto(w, "clean") \/ Goto(w, "drop") \/ Goto(w, "mark")
  <2>1. PICK q : Becomes(w, q) /\ q.row = req[w].row
    BY <1>2, GotoBecomes DEF TypeInv
  <2> QED BY <2>1
<1>3. CASE BeginCreate(w)
  BY <1>0, <1>3, BeginCreateBecomes DEF TypeInv
<1>4. CASE \E op \in {"update", "toggle", "delete"} : Begin(w, op)
  <2>1. PICK q : Becomes(w, q) /\ q.row = SomeRow
    BY <1>4, BeginBecomes DEF TypeInv
  <2> QED BY <1>0, <2>1
<1>5. CASE BeginIface(w, "start", "list") \/ BeginIface(w, "stop", "push") \/ BeginIface(w, "drop", "push")
  <2>1. PICK q : Becomes(w, q) /\ q.row = SomeRow
    BY <1>5, BeginIfaceBecomes DEF TypeInv
  <2> QED BY <1>0, <2>1
<1>6. CASE PlanCreate(w) /\ ~End(w)
  <2>1. PICK q : Becomes(w, q)
                 /\ \E prv, pub \in Field(0) : NewKeys(prv, pub, [key |-> q.row.key, sealed |-> q.row.sealed])
    BY <1>6, PlanCreateBecomes DEF TypeInv
  <2> QED BY <2>1 DEF NewKeys, Paired
<1>7. CASE InsertPeer(w) /\ ~End(w)
  <2>1. PICK q : Becomes(w, q) /\ q.row = req[w].row
    BY <1>7, InsertBecomes
  <2> QED BY <2>1
<1>8. CASE get(w) /\ ~End(w)
  <2>1. PICK q : \E row \in Peer : /\ Becomes(w, q) /\ row = peers[req[w].id]
                                   /\ q.row.key = row.key /\ q.row.sealed = row.sealed
    BY <1>8, GetBecomes DEF TypeInv
  <2>2. peers[req[w].id] \in Peer /\ req[w].id \in Live
    BY <2>1, NoneAssumption DEF Live, TypeInv, TypeOK, Request
  <2> QED BY <2>1, <2>2 DEF KeyPairsMatch, Paired
<1>9. CASE PlanUpdate(w) /\ ~End(w)
  <2>1. PICK q : Becomes(w, q)
                 /\ \E prv, pub \in Field(req[w].id) :
                       [key |-> q.row.key, sealed |-> q.row.sealed] = ChangedKeys(req[w].row, prv, pub)
    BY <1>9, PlanUpdateBecomes DEF TypeInv
  <2> QED BY <2>1 DEF ChangedKeys, Paired
<1>10. CASE ListPeers(w)
  <2>1. PICK q : Becomes(w, q) /\ q.row = req[w].row
    BY <1>10, ListBecomes DEF TypeInv
  <2> QED BY <2>1
<1> QED BY <1>1, <1>2, <1>3, <1>4, <1>5, <1>6, <1>7, <1>8, <1>9, <1>10
        DEF Handle, interface_up, SavePeer, RemoveStale, PushPeer, DeletePeer, interface_down, UpFails, DownFails, MarkStatus,
            DeleteIface, Abandon

(* Steps other than run_once leave the enforcer with copies it had. *)
LEMMA TodoShrinks ==
    ASSUME TypeInv, [Next]_vars, ~run_once
    PROVE  \A p \in PeerIds : tick'.todo[p] # NoPeer => tick'.todo[p] = tick.todo[p]
<1>1. CASE tick' = Asleep
  BY <1>1 DEF Asleep, Nothing
<1>2. CASE PushDue /\ NextDue
  BY <1>2, NextDueFacts DEF TypeInv, PushDue
<1>3. CASE tick' = [tick EXCEPT !.pc = "push"]
  BY <1>3 DEF TypeInv, TypeOK, Enforcer
<1>4. CASE UNCHANGED tick
  BY <1>4
<1> QED BY <1>1, <1>2, <1>3, <1>4
        DEF Next, Tend, Enforce, SaveDue, PushDue, SetSchedule, ClockTurns, vars, Handle, interface_up, BeginCreate,
            Begin, BeginIface, PlanCreate, InsertPeer, get, PlanUpdate, SavePeer, RemoveStale, PushPeer, DeletePeer,
            ListPeers, interface_down, UpFails, DownFails, MarkStatus, DeleteIface, Abandon

(* A step is of one request, or of none. *)
LEMMA OneRequest ==
    ASSUME [Next]_vars
    PROVE  (\E w \in Workers : Handle(w) \/ interface_up(w)) \/ UNCHANGED req
BY DEF Next, Tend, Enforce, run_once, SaveDue, PushDue, SetSchedule, ClockTurns, vars

LEMMA PairsStart == Init => PairsInv
<1>1. Paired(SomeRow)
  BY Constants DEF Paired
<1> QED BY <1>1, TypeInit DEF Init, PairsInv, KeyPairsMatch, Live, Nothing, Idle, Asleep

LEMMA PairsNext == PairsInv /\ [Next]_vars => PairsInv'
<1> SUFFICES ASSUME PairsInv, [Next]_vars PROVE PairsInv'
  OBVIOUS
<1>0. TypeInv /\ TypeInv'
  BY TypeNext DEF PairsInv
<1>1. ASSUME NEW p \in PeerIds, peers'[p] # NoPeer PROVE Paired(peers'[p])
  <2>1. RowStep(p)
    BY <1>0, RowSteps
  <2>2. CASE Scheduled(p)
    <3>1. PICK row \in Peer : row = peers[p] /\ peers'[p] = [row EXCEPT !.sched = TRUE]
      BY <2>2 DEF Scheduled
    <3>2. peers'[p].key = row.key /\ peers'[p].sealed = row.sealed
      BY <3>1 DEF Peer
    <3> QED BY <3>1, <3>2, NoneAssumption DEF PairsInv, KeyPairsMatch, Live, Paired
  <2>3. CASE Overwritten(p)
    <3>1. tick.pc = "save" => tick.todo[Due] # NoPeer
      BY <1>0, DueProps DEF TypeInv
    <3> QED BY <2>3, <3>1 DEF Overwritten, PairsInv
  <2> QED BY <1>1, <2>1, <2>2, <2>3 DEF RowStep, Inserted, Inserting, PairsInv, KeyPairsMatch, Live, Paired
<1>2. ASSUME NEW v \in Workers PROVE Paired(req'[v].row)
  <2>1. CASE \E w \in Workers : Handle(w) \/ interface_up(w)
    <3>1. PICK w \in Workers : Handle(w) \/ interface_up(w)
      BY <2>1
    <3>2. PICK q : Becomes(w, q) /\ Paired(q.row)
      BY <1>0, <3>1, HandleBecomes DEF PairsInv
    <3>3. req'[w] = q /\ \A x \in Workers \ {w} : req'[x] = req[x]
      BY <1>0, <3>2, BecomesFacts DEF TypeInv
    <3> QED BY <3>2, <3>3 DEF PairsInv
  <2> QED BY <2>1, OneRequest DEF PairsInv
<1>3. ASSUME NEW p \in PeerIds, tick'.todo[p] # NoPeer PROVE Paired(tick'.todo[p])
  <2>1. CASE run_once
    <3>1. p \in Live /\ tick'.todo[p].key = peers[p].key /\ tick'.todo[p].sealed = peers[p].sealed
      BY <1>0, <1>3, <2>1, RunOnceFacts DEF TypeInv
    <3> QED BY <3>1 DEF PairsInv, KeyPairsMatch, Paired
  <2>2. CASE ~run_once
    BY <1>0, <1>3, <2>2, TodoShrinks DEF PairsInv
  <2> QED BY <2>1, <2>2
<1>4. KeyPairsMatch'
  BY <1>1 DEF KeyPairsMatch, Live, Paired
<1> QED BY <1>0, <1>2, <1>3, <1>4 DEF PairsInv, Paired

(* Whole rows are written from copies; every copy on its way holds a pair that goes together, *)
(* so whichever of them lands last does.                                                      *)
THEOREM PairsMatch == Spec => []KeyPairsMatch
<1>1. PairsInv => KeyPairsMatch
  BY DEF PairsInv
<1> QED BY <1>1, PairsStart, PairsNext, PTL DEF Spec

-----------------------------------------------------------------------------
(***************************************************************************)
(* What holds of PeerService while requests and rounds of the enforcer do  *)
(* not overlap: the addresses of an interface are distinct, and, when      *)
(* nothing is dropped half way, the kernel lets in the enabled peers.      *)
(***************************************************************************)

(* One thing at a time *)

Busy == {w \in Workers : req[w].pc # "idle"}

\* Only one request or one round of the enforcer is under way.
Alone ==
    /\ \A v, w \in Busy : v = w
    /\ tick.pc # "idle" => Busy = {}

\* A row and a copy of it, or two rows, have the same place in the kernel.
Same(a, b) == a.iface = b.iface /\ a.key = b.key

SameAddress(a, b) == Same(a, b) /\ a.ip = b.ip

\* The address, or the key, is no other peer's.
AddressFree(p, row) == \A q \in Live \ {p} : peers[q].iface = row.iface => peers[q].ip # row.ip
KeyFree(p, k) == \A q \in Live \ {p} : peers[q].key # k

\* What the request of w knows of the row it is about.
Standing(w, ops, pc) ==
    At(w, ops, pc) => req[w].id \in Live /\ SameAddress(peers[req[w].id], req[w].row)

CopyKept(w) ==
    /\ At(w, {"create"}, "save") => AddressFree(0, req[w].row) /\ (env.reuse \/ KeyFree(0, req[w].row.key))
    /\ At(w, {"update"}, "save") =>
          /\ req[w].id \in Live /\ Same(peers[req[w].id], req[w].old)
          /\ AddressFree(req[w].id, req[w].row) /\ (env.reuse \/ KeyFree(req[w].id, req[w].row.key))
    /\ At(w, {"update"}, "plan") => Same(req[w].row, req[w].old)
    /\ Standing(w, {"update"}, "plan") /\ Standing(w, {"update"}, "clean")
    /\ Standing(w, {"toggle"}, "save") /\ Standing(w, {"delete"}, "drop")
    /\ Standing(w, {"create", "update", "toggle", "delete"}, "push")
    /\ At(w, {"update"}, "clean") => env.reuse \/ KeyFree(req[w].id, req[w].old.key)
    /\ (At(w, {"update"}, "clean") \/ At(w, {"create", "update", "toggle"}, "push")) =>
          peers[req[w].id].enabled = req[w].row.enabled

\* The list that start will push is the table's.
ListKept(w) == At(w, {"start"}, "push") => req[w].list = Configured(req[w].iface)

TodoKept ==
    /\ \A p \in PeerIds : tick.pc # "idle" /\ tick.todo[p] # NoPeer =>
          p \in Live /\ SameAddress(peers[p], tick.todo[p])
    /\ tick.pc = "push" => peers[Due].enabled = tick.todo[Due].enabled

DistinctAddresses == \A p, q \in Live : peers[p].iface = peers[q].iface /\ peers[p].ip = peers[q].ip => p = q
DistinctKeys == \A p, q \in Live : peers[p].key = peers[q].key => p = q

Serial == env.width = 1

SerialInv ==
    /\ TypeInv /\ Live \subseteq used
    /\ Serial => /\ Alone /\ TodoKept /\ \A w \in Workers : CopyKept(w) /\ ListKept(w)
                 /\ DistinctAddresses /\ (env.reuse \/ DistinctKeys)

-----------------------------------------------------------------------------
(* Only one request or round moves *)

LEMMA AdmittedAlone ==
    ASSUME TypeInv, Serial, Admitted
    PROVE  Busy = {} /\ tick.pc = "idle"
<1>1. Busy \subseteq Workers /\ IsFiniteSet(Busy)
  <2>1. Busy \subseteq Workers
    BY DEF Busy
  <2> QED BY <2>1, FiniteAssumption, FS_Subset
<1>2. Cardinality(Busy) \in Nat
  BY <1>1, FS_CardinalityType
<1>3. Cardinality(Busy) + (IF tick.pc = "idle" THEN 0 ELSE 1) < 1
  BY DEF Admitted, Busy, Serial
<1>4. Cardinality(Busy) = 0 /\ tick.pc = "idle"
  BY <1>2, <1>3
<1> QED BY <1>1, <1>4, FS_EmptySet

(* While a request takes a step all the others, and the enforcer, rest. *)
LEMMA HandleAlone ==
    ASSUME TypeInv, Serial, Alone, NEW w \in Workers, Handle(w) \/ interface_up(w)
    PROVE  /\ tick.pc = "idle" /\ tick' = tick
           /\ \A v \in Workers \ {w} : req[v].pc = "idle" /\ req'[v] = req[v]
<1>1. tick' = tick
  BY DEF Handle, interface_up, BeginCreate, Begin, BeginIface, PlanCreate, InsertPeer, get, PlanUpdate, SavePeer,
         RemoveStale, PushPeer, DeletePeer, ListPeers, interface_down, UpFails, DownFails, MarkStatus, DeleteIface, Abandon
<1>2. w \in Busy \/ Admitted
  BY DEF Busy, At, Handle, interface_up, BeginCreate, Begin, BeginIface, PlanCreate, InsertPeer, get, PlanUpdate,
         SavePeer, RemoveStale, PushPeer, DeletePeer, ListPeers, interface_down, UpFails, DownFails, MarkStatus, DeleteIface, Abandon
<1>3. tick.pc = "idle" /\ \A v \in Workers \ {w} : v \notin Busy
  BY <1>2, AdmittedAlone DEF Alone
<1>4. \A v \in Workers \ {w} : req'[v] = req[v]
  <2>1. PICK q : Becomes(w, q)
    BY HandleBecomes
  <2> QED BY <2>1, BecomesFacts DEF TypeInv
<1> QED BY <1>1, <1>3, <1>4 DEF Busy

(* The enforcer works while nobody else does. *)
LEMMA EnforceAlone == ASSUME TypeInv, Serial, Alone, Enforce PROVE Busy = {} /\ req' = req
<1>1. Admitted \/ tick.pc # "idle"
  BY DEF Enforce, run_once, SaveDue, PushDue
<1> QED BY <1>1, AdmittedAlone DEF Alone, Enforce, run_once, SaveDue, PushDue

-----------------------------------------------------------------------------
(* Writes of the table *)

Writes(p, row) ==
    /\ p \in PeerIds /\ row \in Peer /\ peers'[p] = row
    /\ \A x \in PeerIds \ {p} : peers'[x] = peers[x]

\* Rows go or stay.
Drops == \A p \in PeerIds : peers'[p] \in {peers[p], NoPeer}

\* The same rows with the same place, address and flag.
Alike ==
    \A p \in PeerIds :
        /\ peers'[p] # NoPeer <=> peers[p] # NoPeer
        /\ peers[p] # NoPeer => /\ peers'[p].iface = peers[p].iface /\ peers'[p].key = peers[p].key
                                /\ peers'[p].ip = peers[p].ip /\ peers'[p].enabled = peers[p].enabled

Distinct == DistinctAddresses /\ (env.reuse \/ DistinctKeys)

LEMMA WritesDistinct ==
    ASSUME Distinct, env' = env, NEW p, NEW row, Writes(p, row), AddressFree(p, row),
           env.reuse \/ KeyFree(p, row.key)
    PROVE  Distinct'
<1>1. Live' = Live \cup {p} /\ peers'[p] = row /\ \A x \in PeerIds \ {p} : peers'[x] = peers[x]
  BY NoneAssumption DEF Writes, Live
<1>2. \A x \in Live' : x = p \/ (x \in Live /\ x # p /\ peers'[x] = peers[x])
  BY <1>1 DEF Live
<1>3. DistinctAddresses'
  BY <1>1, <1>2 DEF Distinct, DistinctAddresses, AddressFree
<1>4. env.reuse \/ DistinctKeys'
  BY <1>1, <1>2 DEF Distinct, DistinctKeys, KeyFree
<1> QED BY <1>3, <1>4 DEF Distinct

LEMMA DropsDistinct == ASSUME Distinct, env' = env, Drops PROVE Distinct'
<1>1. \A p \in Live' : p \in Live /\ peers'[p] = peers[p]
  BY DEF Drops, Live
<1> QED BY <1>1 DEF Distinct, DistinctAddresses, DistinctKeys

LEMMA AlikeDistinct == ASSUME Distinct, env' = env, Alike PROVE Distinct'
<1>1. \A p \in Live' : p \in Live /\ peers'[p].iface = peers[p].iface /\ peers'[p].key = peers[p].key
                       /\ peers'[p].ip = peers[p].ip
  BY DEF Alike, Live
<1> QED BY <1>1 DEF Distinct, DistinctAddresses, DistinctKeys

LEMMA AlikeConfigured ==
    ASSUME Alike, NEW i
    PROVE  OnIface(i)' = OnIface(i) /\ Configured(i)' = Configured(i)
<1>1. OnIface(i)' = OnIface(i)
  BY DEF Alike, OnIface, Live
<1>2. \A q \in OnIface(i) : /\ peers'[q].enabled = peers[q].enabled /\ peers'[q].key = peers[q].key
                            /\ peers'[q].ip = peers[q].ip
  BY DEF Alike, OnIface, Live
<1>3. ASSUME NEW k \in Keys
      PROVE  Configured(i)'[k] = Configured(i)[k]
  <2>1. PICK same : same = {q \in OnIface(i) : peers[q].enabled /\ peers[q].key = k}
    OBVIOUS
  <2>2. {q \in OnIface(i)' : peers'[q].enabled /\ peers'[q].key = k} = same
    BY <1>1, <1>2, <2>1
  <2>3. Configured(i)[k] = IF same = {} THEN NoPeer ELSE peers[Max(same)].ip
    BY <2>1 DEF Configured
  <2>4. Configured(i)'[k] = IF same = {} THEN NoPeer ELSE peers'[Max(same)].ip
    BY <2>2 DEF Configured
  <2>5. same # {} => Max(same) \in OnIface(i)
    <3>1. same \subseteq OnIface(i) /\ same \subseteq PeerIds
      BY <2>1 DEF OnIface, Live
    <3>2. IsFiniteSet(same) /\ same \subseteq Nat
      BY <3>1, HostsAssumption, FiniteAssumption, FS_Subset
    <3> QED BY <3>1, <3>2, MaxProps
  <2> QED BY <1>2, <2>3, <2>4, <2>5
<1>4. Configured(i)' = [k \in Keys |-> Configured(i)'[k]] /\ Configured(i) = [k \in Keys |-> Configured(i)[k]]
  BY DEF Configured
<1> QED BY <1>1, <1>3, <1>4

-----------------------------------------------------------------------------
(* What a request knows stays true *)

Kept(w) == CopyKept(w) /\ ListKept(w)

\* Not of the step that reads the list.
NoList(q) == ~(q.op = "start" /\ q.pc = "push")

LEMMA KeptAtRest ==
    ASSUME NEW w, req'[w].pc \in {"idle", "get", "list", "mark"} \/ req'[w].op \in {"none", "stop", "drop"}
                  \/ (req'[w].op = "create" /\ req'[w].pc = "plan")
    PROVE  Kept(w)'
BY DEF Kept, CopyKept, ListKept, Standing, At

(* A copy of the row, about to be written, pushed or removed, agrees with the row. *)
LEMMA KeptStanding ==
    ASSUME NEW w, NEW q, req'[w] = q, q.id \in Live', SameAddress(peers'[q.id], q.row),
           \/ q.op \in {"create", "update", "toggle"} /\ q.pc = "push" /\ peers'[q.id].enabled = q.row.enabled
           \/ q.op = "delete" /\ q.pc \in {"push", "drop"}
           \/ q.op = "toggle" /\ q.pc = "save"
           \/ q.op = "update" /\ q.pc = "plan" /\ Same(q.row, q.old)
    PROVE  Kept(w)'
BY DEF Kept, CopyKept, ListKept, Standing, At

LEMMA PlanCreateKept ==
    ASSUME TypeInv, Distinct, NEW w \in Workers, PlanCreate(w), Kept(w)
    PROVE  Kept(w)'
<1>1. CASE End(w)
  <2>1. req'[w].pc = "idle"
    BY <1>1, EndBecomes, BecomesFacts DEF TypeInv, Idle
  <2> QED BY <2>1, KeptAtRest
<1>2. CASE ~End(w)
  <2>1. PICK q : /\ Becomes(w, q) /\ q.op = "create" /\ q.pc = "save"
                 /\ \A p \in OnIface(q.row.iface) : peers[p].ip # q.row.ip
                 /\ \E prv, pub \in Field(0) : NewKeys(prv, pub, [key |-> q.row.key, sealed |-> q.row.sealed])
    BY <1>2, PlanCreateBecomes DEF TypeInv
  <2>2. req'[w] = q /\ peers' = peers /\ env' = env
    BY <2>1, BecomesFacts DEF TypeInv, PlanCreate
  <2>3. Live' = Live
    BY <2>2 DEF Live
  <2>4. AddressFree(0, q.row)
    BY <2>1 DEF AddressFree, OnIface
  <2>5. env.reuse \/ KeyFree(0, q.row.key)
    BY <2>1 DEF NewKeys, Field, Fresh, Unused, KeyFree
  <2>7. (AddressFree(0, req[w].row) /\ (env.reuse \/ KeyFree(0, req[w].row.key)))'
    BY <2>1, <2>2, <2>3, <2>4, <2>5 DEF AddressFree, KeyFree
  <2>8. req'[w].op = "create" /\ req'[w].pc = "save"
    BY <2>1, <2>2
  <2> QED BY <2>7, <2>8 DEF Kept, CopyKept, ListKept, Standing, At
<1> QED BY <1>1, <1>2

LEMMA GetKept ==
    ASSUME TypeInv, NEW w \in Workers, get(w)
    PROVE  Kept(w)'
<1>1. CASE End(w)
  <2>1. req'[w].pc = "idle"
    BY <1>1, EndBecomes, BecomesFacts DEF TypeInv, Idle
  <2> QED BY <2>1, KeptAtRest
<1>2. CASE ~End(w)
  <2>1. PICK q : \E row \in Peer :
                 /\ Becomes(w, q) /\ row = peers[req[w].id] /\ q.op = req[w].op /\ q.id = req[w].id
                 /\ q.row \in Peer /\ q.row.iface = row.iface /\ q.row.key = row.key
                 /\ q.row.sealed = row.sealed /\ q.row.ip = row.ip
                 /\ \/ q.op = "update" /\ q.pc = "plan" /\ q.row = row
                       /\ q.old = [iface |-> row.iface, key |-> row.key]
                    \/ q.op = "toggle" /\ q.pc = "save"
                    \/ q.op = "delete" /\ q.pc = "push" /\ ~q.row.enabled
    BY <1>2, GetBecomes DEF TypeInv
  <2>2. req'[w] = q /\ peers' = peers
    BY <2>1, BecomesFacts DEF TypeInv, get
  <2>3. q.id \in Live' /\ SameAddress(peers'[q.id], q.row)
    BY <2>1, <2>2, NoneAssumption DEF Live, SameAddress, Same, TypeInv, TypeOK, Request
  <2>4. q.op = "update" => Same(q.row, q.old)
    BY <2>1 DEF Same
  <2> QED BY <2>1, <2>2, <2>3, <2>4, KeptStanding
<1> QED BY <1>1, <1>2

LEMMA PlanUpdateKept ==
    ASSUME TypeInv, Distinct, NEW w \in Workers, PlanUpdate(w), Kept(w)
    PROVE  Kept(w)'
<1>1. CASE End(w)
  <2>1. req'[w].pc = "idle"
    BY <1>1, EndBecomes, BecomesFacts DEF TypeInv, Idle
  <2> QED BY <2>1, KeptAtRest
<1>2. CASE ~End(w)
  <2>1. PICK q : /\ Becomes(w, q) /\ q.op = "update" /\ q.pc = "save" /\ q.id = req[w].id /\ q.old = req[w].old
                 /\ \A p \in OnIface(q.row.iface) \ {q.id} : peers[p].ip # q.row.ip
                 /\ \E prv, pub \in Field(req[w].id) :
                       [key |-> q.row.key, sealed |-> q.row.sealed] = ChangedKeys(req[w].row, prv, pub)
    BY <1>2, PlanUpdateBecomes DEF TypeInv
  <2>2. req'[w] = q /\ peers' = peers /\ env' = env /\ Live' = Live
    BY <2>1, BecomesFacts DEF TypeInv, PlanUpdate, Live
  <2>3. q.id \in Live /\ SameAddress(peers[q.id], req[w].row) /\ Same(req[w].row, q.old)
    BY <2>1 DEF Kept, CopyKept, Standing, PlanUpdate, At
  <2>4. AddressFree(q.id, q.row)
    BY <2>1 DEF AddressFree, OnIface
  <2>5. env.reuse \/ KeyFree(q.id, q.row.key)
    <3>1. SUFFICES ASSUME ~env.reuse PROVE KeyFree(q.id, q.row.key)
      OBVIOUS
    <3>2. KeyFree(q.id, req[w].row.key)
      BY <3>1, <2>3 DEF KeyFree, Distinct, DistinctKeys, SameAddress, Same
    <3>3. PICK prv \in Field(q.id), pub \in Field(q.id) :
             [key |-> q.row.key, sealed |-> q.row.sealed] = ChangedKeys(req[w].row, prv, pub)
      BY <2>1
    <3>4. q.row.key = req[w].row.key \/ (prv # Blank /\ q.row.key = prv) \/ (pub # Blank /\ q.row.key = pub)
      BY <3>3 DEF ChangedKeys
    <3> QED BY <3>1, <3>2, <3>3, <3>4 DEF Field, KeyFree
  <2>6. (/\ req[w].id \in Live /\ Same(peers[req[w].id], req[w].old)
         /\ AddressFree(req[w].id, req[w].row) /\ (env.reuse \/ KeyFree(req[w].id, req[w].row.key)))'
    BY <2>1, <2>2, <2>3, <2>4, <2>5 DEF AddressFree, KeyFree, Same, SameAddress
  <2>7. req'[w].op = "update" /\ req'[w].pc = "save"
    BY <2>1, <2>2
  <2> QED BY <2>6, <2>7 DEF Kept, CopyKept, ListKept, Standing, At
<1> QED BY <1>1, <1>2

LEMMA InsertKept ==
    ASSUME TypeInv, Live \subseteq used, Distinct, NEW w \in Workers, InsertPeer(w), Kept(w)
    PROVE  Kept(w)' /\ Distinct'
<1>1. CASE End(w) /\ UNCHANGED peers
  <2>1. req'[w].pc = "idle"
    BY <1>1, EndBecomes, BecomesFacts DEF TypeInv, Idle
  <2>2. Distinct'
    BY <1>1, DropsDistinct DEF Drops, InsertPeer
  <2> QED BY <2>1, <2>2, KeptAtRest
<1>2. CASE req[w].row.iface \in ifaces
  <2>1. PICK p \in env.peers \ used :
           /\ p \in PeerIds /\ peers' = [peers EXCEPT ![p] = req[w].row]
           /\ \E q : Becomes(w, q) /\ q.op = "create" /\ q.pc = "push" /\ q.id = p /\ q.row = req[w].row
    BY <1>2, InsertBecomes
  <2>2. PICK q : Becomes(w, q) /\ q.op = "create" /\ q.pc = "push" /\ q.id = p /\ q.row = req[w].row
    BY <2>1
  <2>3. PICK row \in Peer : row = req[w].row
    BY DEF TypeInv, TypeOK, Request
  <2>4. Writes(p, row)
    BY <2>1, <2>3 DEF Writes, TypeInv, TypeOK
  <2>5. req'[w] = q /\ q.id \in Live' /\ peers'[q.id] = q.row
    BY <2>2, <2>3, <2>4, BecomesFacts, NoneAssumption DEF Writes, Live, TypeInv
  <2>6. Kept(w)'
    BY <2>2, <2>5, KeptStanding DEF SameAddress, Same
  <2>7. AddressFree(0, row) /\ (env.reuse \/ KeyFree(0, row.key))
    BY <2>3 DEF InsertPeer, Kept, CopyKept, At
  <2>8. AddressFree(p, row) /\ (env.reuse \/ KeyFree(p, row.key))
    <3>1. Live \ {p} \subseteq Live \ {0}
      BY HostsAssumption DEF Live
    <3> QED BY <2>7, <3>1 DEF AddressFree, KeyFree
  <2>9. Distinct'
    BY <2>4, <2>8, WritesDistinct DEF InsertPeer
  <2> QED BY <2>6, <2>9
<1> QED BY <1>1, <1>2 DEF InsertPeer, Copy

(* An edit writes over a row that is there: nobody has deleted it meanwhile. *)
LEMMA SaveWrites ==
    ASSUME TypeInv, NEW p \in Live, NEW row \in Peer, Update(p, row)
    PROVE  Writes(p, row) /\ p \in Live' /\ Live' = Live
BY NoneAssumption DEF Update, Writes, Live, TypeInv, TypeOK

LEMMA SaveKept ==
    ASSUME TypeInv, Distinct, NEW w \in Workers, SavePeer(w), Kept(w)
    PROVE  Kept(w)' /\ Distinct'
<1>1. CASE End(w) /\ UNCHANGED peers
  <2>1. req'[w].pc = "idle"
    BY <1>1, EndBecomes, BecomesFacts DEF TypeInv, Idle
  <2>2. Distinct'
    BY <1>1, DropsDistinct DEF Drops, SavePeer
  <2> QED BY <2>1, <2>2, KeptAtRest
<1>2. CASE Update(req[w].id, Copy(w)) /\ Goto(w, IF req[w].op = "update" THEN "clean" ELSE "push")
  <2>1. PICK q : /\ Becomes(w, q) /\ q.pc = (IF req[w].op = "update" THEN "clean" ELSE "push")
                 /\ q.op = req[w].op /\ q.id = req[w].id /\ q.row = req[w].row /\ q.old = req[w].old
    BY <1>2, GotoBecomes DEF TypeInv
  <2>2. req'[w] = q
    BY <2>1, BecomesFacts DEF TypeInv
  <2>3. PICK row \in Peer : row = req[w].row
    BY DEF TypeInv, TypeOK, Request
  <2>4. PICK p \in PeerIds : p = req[w].id /\ p \in Live
    BY DEF Live, SavePeer, Kept, CopyKept, Standing, At
  <2>5. Writes(p, row) /\ p \in Live' /\ Live' = Live
    BY <1>2, <2>3, <2>4, SaveWrites DEF Copy
  <2>6. peers'[q.id] = q.row /\ q.id \in Live'
    BY <2>1, <2>3, <2>4, <2>5 DEF Writes
  <2>7. env' = env
    BY DEF SavePeer
  <2>8. CASE req[w].op = "update"
    <3>1. /\ Same(peers[p], req[w].old) /\ AddressFree(p, row) /\ (env.reuse \/ KeyFree(p, row.key))
      BY <2>3, <2>4, <2>8 DEF SavePeer, Kept, CopyKept, At
    <3>2. Distinct'
      BY <2>5, <2>7, <3>1, WritesDistinct
    <3>3. env.reuse \/ KeyFree(p, q.old.key)
      BY <2>1, <2>4, <3>1 DEF Distinct, DistinctKeys, KeyFree, Same
    <3>4. env.reuse \/ \A x \in Live' \ {p} : peers'[x].key # q.old.key
      BY <2>5, <3>3 DEF KeyFree, Writes, Live
    <3>5. (env.reuse \/ KeyFree(req[w].id, req[w].old.key))'
      BY <2>1, <2>2, <2>4, <2>7, <3>4 DEF KeyFree
    <3>6. req'[w].op = "update" /\ req'[w].pc = "clean"
      BY <2>1, <2>2, <2>8
    <3>7. (req[w].id \in Live /\ SameAddress(peers[req[w].id], req[w].row)
             /\ peers[req[w].id].enabled = req[w].row.enabled)'
      BY <2>2, <2>6 DEF SameAddress, Same
    <3>8. Kept(w)'
      BY <3>5, <3>6, <3>7 DEF Kept, CopyKept, ListKept, Standing, At
    <3> QED BY <3>2, <3>8
  <2>9. CASE req[w].op # "update"
    <3>1. q.op = "toggle" /\ q.pc = "push" /\ SameAddress(peers[p], row)
      BY <2>1, <2>3, <2>4, <2>9 DEF SavePeer, Kept, CopyKept, Standing, At
    <3>2. Kept(w)'
      BY <2>2, <2>6, <3>1, KeptStanding DEF SameAddress, Same
    <3>3. AddressFree(p, row) /\ (env.reuse \/ KeyFree(p, row.key))
      BY <2>4, <3>1 DEF Distinct, DistinctAddresses, DistinctKeys, AddressFree, KeyFree, SameAddress, Same
    <3>4. Distinct'
      BY <2>5, <2>7, <3>3, WritesDistinct
    <3> QED BY <3>2, <3>4
  <2> QED BY <2>8, <2>9
<1> QED BY <1>1, <1>2 DEF SavePeer

LEMMA PushKept ==
    ASSUME TypeInv, NEW w \in Workers, RemoveStale(w) \/ PushPeer(w), Kept(w)
    PROVE  Kept(w)'
<1>1. CASE End(w)
  <2>1. req'[w].pc = "idle"
    BY <1>1, EndBecomes, BecomesFacts DEF TypeInv, Idle
  <2> QED BY <2>1, KeptAtRest
<1>2. CASE ~End(w)
  <2>1. Goto(w, IF req[w].op = "update" THEN "push" ELSE "drop")
        /\ (At(w, {"update"}, "clean") \/ At(w, {"delete"}, "push"))
    BY <1>2 DEF RemoveStale, PushPeer, At
  <2>2. PICK q : /\ Becomes(w, q) /\ q.pc = (IF req[w].op = "update" THEN "push" ELSE "drop")
                 /\ q.op = req[w].op /\ q.id = req[w].id /\ q.row = req[w].row
    BY <2>1, GotoBecomes DEF TypeInv
  <2>3. req'[w] = q /\ peers' = peers
    BY <2>2, BecomesFacts DEF TypeInv, RemoveStale, PushPeer
  <2>4. /\ q.id \in Live' /\ SameAddress(peers'[q.id], q.row)
        /\ q.op = "update" => peers'[q.id].enabled = q.row.enabled
    BY <2>1, <2>2, <2>3 DEF Kept, CopyKept, Standing, At, Live
  <2> QED BY <2>1, <2>2, <2>3, <2>4, KeptStanding DEF At
<1> QED BY <1>1, <1>2

LEMMA ListKeptNow == ASSUME TypeInv, NEW w \in Workers, ListPeers(w) PROVE Kept(w)'
<1>1. PICK q : /\ Becomes(w, q) /\ q.op = "start" /\ q.pc = "push" /\ q.list = Configured(q.iface)
  BY ListBecomes DEF TypeInv
<1>2. req'[w] = q /\ Alike
  BY <1>1, BecomesFacts DEF TypeInv, ListPeers, Alike
<1>3. PICK i : i = q.iface
  OBVIOUS
<1>4. Configured(i)' = Configured(i)
  BY <1>2, AlikeConfigured
<1>5. (req[w].list = Configured(req[w].iface))'
  BY <1>1, <1>2, <1>3, <1>4
<1>6. req'[w].op = "start"
  BY <1>1, <1>2
<1> QED BY <1>5, <1>6 DEF Kept, CopyKept, ListKept, Standing, At

LEMMA HandleKept ==
    ASSUME TypeInv, Live \subseteq used, Distinct, NEW w \in Workers, Handle(w) \/ interface_up(w), Kept(w)
    PROVE  Kept(w)' /\ Distinct'
<1>1. CASE InsertPeer(w) \/ SavePeer(w)
  BY <1>1, InsertKept, SaveKept
<1>2. CASE PlanCreate(w) \/ get(w) \/ PlanUpdate(w) \/ RemoveStale(w) \/ PushPeer(w) \/ ListPeers(w)
  <2>1. Kept(w)'
    BY <1>2, PlanCreateKept, GetKept, PlanUpdateKept, PushKept, ListKeptNow
  <2>2. Drops /\ env' = env
    BY <1>2 DEF Drops, PlanCreate, get, PlanUpdate, RemoveStale, PushPeer, ListPeers
  <2> QED BY <2>1, <2>2, DropsDistinct
<1>3. CASE BeginCreate(w) \/ \E op \in {"update", "toggle", "delete"} : Begin(w, op)
  <2>1. PICK q : Becomes(w, q) /\ (q.pc = "get" \/ (q.op = "create" /\ q.pc = "plan"))
    BY <1>3, BeginCreateBecomes, BeginBecomes DEF TypeInv
  <2>2. Kept(w)'
    BY <2>1, BecomesFacts, KeptAtRest DEF TypeInv
  <2>3. Drops /\ env' = env
    BY <1>3 DEF Drops, BeginCreate, Begin
  <2> QED BY <2>2, <2>3, DropsDistinct
<1>4. CASE BeginIface(w, "start", "list") \/ BeginIface(w, "stop", "push") \/ BeginIface(w, "drop", "push")
  <2>1. PICK q : Becomes(w, q) /\ (q.pc = "list" \/ q.op \in {"stop", "drop"})
    BY <1>4, BeginIfaceBecomes DEF TypeInv
  <2>2. Kept(w)'
    BY <2>1, BecomesFacts, KeptAtRest DEF TypeInv
  <2>3. Drops /\ env' = env
    BY <1>4 DEF Drops, BeginIface
  <2> QED BY <2>2, <2>3, DropsDistinct
<1>5. CASE (interface_up(w) \/ interface_down(w) \/ DownFails(w)) /\ ~End(w)
  <2>1. PICK q : Becomes(w, q) /\ (q.pc = "mark" \/ q.op = "drop")
    BY <1>5, GotoBecomes DEF interface_up, interface_down, DownFails, At, TypeInv
  <2>2. Kept(w)'
    BY <2>1, BecomesFacts, KeptAtRest DEF TypeInv
  <2>3. Drops /\ env' = env
    BY <1>5 DEF Drops, interface_up, interface_down, DownFails
  <2> QED BY <2>2, <2>3, DropsDistinct
<1>6. CASE \/ DeletePeer(w) \/ DeleteIface(w) \/ MarkStatus(w) \/ Abandon(w) \/ UpFails(w)
           \/ (interface_up(w) \/ DownFails(w)) /\ End(w)
  <2>1. req'[w].pc = "idle"
    BY <1>6, EndBecomes, BecomesFacts DEF TypeInv, Idle, DeletePeer, DeleteIface, MarkStatus, Abandon, UpFails
  <2>2. Drops /\ env' = env
    BY <1>6 DEF Drops, DeletePeer, DeleteIface, MarkStatus, Abandon, UpFails, DownFails, interface_up, TypeInv,
                TypeOK
  <2> QED BY <2>1, <2>2, KeptAtRest, DropsDistinct
<1>7. interface_down(w) => ~End(w)
  BY EndBecomes, GotoBecomes, BecomesFacts DEF interface_down, TypeInv, Idle
<1> QED BY <1>1, <1>2, <1>3, <1>4, <1>5, <1>6, <1>7 DEF Handle

-----------------------------------------------------------------------------
(* What the enforcer knows stays true *)

(* A round reads every row it will write; a row it has written goes out of its list. *)
LEMMA EnforceKept ==
    ASSUME TypeInv, Distinct, TodoKept, Enforce
    PROVE  TodoKept' /\ Distinct'
<1>1. CASE tick' = Asleep /\ UNCHANGED <<peers, env>>
  <2>1. TodoKept'
    BY <1>1 DEF TodoKept, Asleep
  <2>2. Distinct'
    BY <1>1, DropsDistinct DEF Drops
  <2> QED BY <2>1, <2>2
<1>2. CASE run_once
  <2>1. peers' = peers /\ env' = env /\ Live' = Live
    BY <1>2 DEF run_once, Live
  <2>2. tick'.pc = "save" /\ \A p \in PeerIds : tick'.todo[p] # NoPeer =>
           p \in Live /\ SameAddress(peers[p], tick'.todo[p])
    BY <1>2, RunOnceFacts DEF TypeInv, SameAddress, Same
  <2>3. TodoKept'
    BY <2>1, <2>2 DEF TodoKept, SameAddress, Same
  <2>4. Distinct'
    BY <2>1, DropsDistinct DEF Drops
  <2> QED BY <2>3, <2>4
<1>3. CASE SaveDue /\ ~(tick' = Asleep /\ UNCHANGED <<peers, env>>)
  <2>1. PICK p \in PeerIds : p = Due /\ tick.todo[p] # NoPeer /\ tick.todo[p] \in Peer
    BY <1>3, DueProps DEF SaveDue, TypeInv
  <2>2. PICK row \in Peer : row = tick.todo[p]
    BY <2>1
  <2>3. p \in Live /\ SameAddress(peers[p], row)
    BY <1>3, <2>1, <2>2 DEF TodoKept, SaveDue
  <2>4. Update(p, row) /\ tick' = [tick EXCEPT !.pc = "push"] /\ env' = env
    BY <1>3, <2>1, <2>2 DEF SaveDue
  <2>5. Writes(p, row) /\ Live' = Live
    BY <2>3, <2>4, SaveWrites
  <2>6. AddressFree(p, row) /\ (env.reuse \/ KeyFree(p, row.key))
    BY <2>3 DEF Distinct, DistinctAddresses, DistinctKeys, AddressFree, KeyFree, SameAddress, Same
  <2>7. Distinct'
    BY <2>4, <2>5, <2>6, WritesDistinct
  <2>8. tick'.todo = tick.todo /\ tick'.pc = "push" /\ tick.pc = "save"
    BY <1>3, <2>4 DEF TypeInv, TypeOK, Enforcer, SaveDue
  <2>9. \A x \in PeerIds : tick'.todo[x] # NoPeer => x \in Live' /\ SameAddress(peers'[x], tick'.todo[x])
    BY <2>2, <2>5, <2>8 DEF TodoKept, Writes, SameAddress, Same
  <2>10. Due' = p
    BY <2>1, <2>8 DEF Due
  <2>11. peers'[p].enabled = tick'.todo[p].enabled
    BY <2>2, <2>5, <2>8 DEF Writes
  <2>12. TodoKept'
    BY <2>9, <2>10, <2>11 DEF TodoKept, SameAddress, Same
  <2> QED BY <2>7, <2>12
<1>4. CASE PushDue /\ NextDue
  <2>1. peers' = peers /\ env' = env /\ Live' = Live /\ tick.pc = "push"
    BY <1>4 DEF PushDue, Live
  <2>2. tick'.pc \in {"idle", "save"} /\ \A p \in PeerIds : tick'.todo[p] # NoPeer => tick'.todo[p] = tick.todo[p]
    BY <1>4, <2>1, NextDueFacts DEF TypeInv
  <2>3. TodoKept'
    BY <2>1, <2>2 DEF TodoKept, SameAddress, Same
  <2>4. Distinct'
    BY <2>1, DropsDistinct DEF Drops
  <2> QED BY <2>3, <2>4
<1> QED BY <1>1, <1>2, <1>3, <1>4 DEF Enforce, SaveDue, PushDue

-----------------------------------------------------------------------------
(* Setting a schedule, and the clock, touch nothing that a copy holds *)

LEMMA AsideAlike ==
    ASSUME TypeInv, SetSchedule \/ ClockTurns \/ UNCHANGED vars
    PROVE  Alike
<1>1. CASE SetSchedule
  <2>1. PICK p \in Live : peers' = [peers EXCEPT ![p].sched = TRUE]
    BY <1>1 DEF SetSchedule
  <2>2. PICK row \in Peer : row = peers[p] /\ p \in PeerIds
    BY <2>1 DEF Live, TypeInv, TypeOK
  <2>3. PICK new : new = [row EXCEPT !.sched = TRUE]
    OBVIOUS
  <2>4. new \in Peer /\ new.iface = row.iface /\ new.key = row.key /\ new.ip = row.ip /\ new.enabled = row.enabled
    BY <2>3 DEF Peer
  <2>5. peers'[p] = new /\ \A x \in PeerIds \ {p} : peers'[x] = peers[x]
    BY <2>1, <2>2, <2>3 DEF TypeInv, TypeOK
  <2> QED BY <2>1, <2>2, <2>4, <2>5, NoneAssumption DEF Alike, Live
<1>2. CASE peers' = peers
  BY <1>2 DEF Alike
<1> QED BY <1>1, <1>2 DEF ClockTurns, vars

LEMMA AlikeKept ==
    ASSUME TypeInv, Distinct, TodoKept, Alike, UNCHANGED <<req, tick, env>>
    PROVE  TodoKept' /\ Distinct' /\ \A w \in Workers : Kept(w) => Kept(w)'
<1>1. Live' = Live /\ \A p \in Live : /\ p \in PeerIds /\ peers'[p].iface = peers[p].iface
                                      /\ peers'[p].key = peers[p].key
                                      /\ peers'[p].ip = peers[p].ip /\ peers'[p].enabled = peers[p].enabled
  BY DEF Alike, Live
<1>2. Distinct'
  BY AlikeDistinct
<1>3. TodoKept'
  <2>1. Due' = Due
    BY DEF Due
  <2>2. ASSUME tick.pc = "push" PROVE peers'[Due].enabled = peers[Due].enabled
    <3>1. Due \in Live
      BY <2>2, DueProps DEF TypeInv, TodoKept
    <3> QED BY <1>1, <3>1
  <2> QED BY <1>1, <2>1, <2>2 DEF TodoKept, SameAddress, Same
<1>4. ASSUME NEW w \in Workers, Kept(w) PROVE Kept(w)'
  <2>1. PICK r : r = req[w] /\ r = req'[w]
    OBVIOUS
  <2>2. PICK i : i = r.iface
    OBVIOUS
  <2>3. ListKept(w)'
    <3>1. Configured(i)' = Configured(i)
      BY AlikeConfigured
    <3>2. (req[w].op = "start" /\ req[w].pc = "push" => req[w].list = Configured(req[w].iface))'
      BY <1>4, <2>1, <2>2, <3>1 DEF Kept, ListKept, At
    <3> QED BY <3>2 DEF ListKept, At
  <2>4. \A p \in Live : \A row : /\ (Same(peers'[p], row) <=> Same(peers[p], row))
                                  /\ (SameAddress(peers'[p], row) <=> SameAddress(peers[p], row))
    BY <1>1 DEF Same, SameAddress
  <2>5. CopyKept(w)'
    <3>1. (At(w, {"create"}, "save") =>
             AddressFree(0, req[w].row) /\ (env.reuse \/ KeyFree(0, req[w].row.key)))'
      BY <1>1, <1>4 DEF Kept, CopyKept, At, AddressFree, KeyFree
    <3>2. (At(w, {"update"}, "save") =>
             /\ req[w].id \in Live /\ Same(peers[req[w].id], req[w].old)
             /\ AddressFree(req[w].id, req[w].row) /\ (env.reuse \/ KeyFree(req[w].id, req[w].row.key)))'
      BY <1>1, <1>4 DEF Kept, CopyKept, At, AddressFree, KeyFree, Same
    <3>3. (At(w, {"update"}, "clean") => env.reuse \/ KeyFree(req[w].id, req[w].old.key))'
      BY <1>1, <1>4 DEF Kept, CopyKept, At, KeyFree
    <3>4. ((At(w, {"update"}, "clean") \/ At(w, {"create", "update", "toggle"}, "push")) =>
             peers[req[w].id].enabled = req[w].row.enabled)'
      BY <1>1, <1>4 DEF Kept, CopyKept, Standing, At
    <3>5. (/\ At(w, {"update"}, "plan") => Same(req[w].row, req[w].old)
           /\ Standing(w, {"update"}, "plan") /\ Standing(w, {"update"}, "clean")
           /\ Standing(w, {"toggle"}, "save") /\ Standing(w, {"delete"}, "drop")
           /\ Standing(w, {"create", "update", "toggle", "delete"}, "push"))'
      BY <1>1, <1>4, <2>4 DEF Kept, CopyKept, Standing, At, Same
    <3> QED BY <3>1, <3>2, <3>3, <3>4, <3>5 DEF CopyKept
  <2> QED BY <2>3, <2>5 DEF Kept
<1> QED BY <1>2, <1>3, <1>4

-----------------------------------------------------------------------------
LEMMA SerialInit == Init => SerialInv
<1> SUFFICES ASSUME Init PROVE SerialInv
  OBVIOUS
<1>1. TypeInv /\ Live = {} /\ Busy = {} /\ tick.pc = "idle" /\ \A w \in Workers : req[w].pc = "idle"
  BY TypeInit DEF Init, Live, Nothing, Busy, Idle, Asleep
<1>2. Alone /\ TodoKept /\ Distinct
  BY <1>1 DEF Alone, TodoKept, Distinct, DistinctAddresses, DistinctKeys
<1>3. \A w \in Workers : CopyKept(w) /\ ListKept(w)
  BY <1>1 DEF CopyKept, ListKept, Standing, At
<1> QED BY <1>1, <1>2, <1>3 DEF SerialInv, Distinct

LEMMA SerialNext == SerialInv /\ [Next]_vars => SerialInv'
<1> SUFFICES ASSUME SerialInv, [Next]_vars PROVE SerialInv'
  OBVIOUS
<1>1. TypeInv /\ TypeInv' /\ Live \subseteq used
  BY TypeNext DEF SerialInv
<1>2. (Live \subseteq used)'
  <2>1. Cascades /\ \A p \in PeerIds : RowStep(p)
    BY <1>1, RowSteps
  <2>2. \A p \in PeerIds : peers'[p] # NoPeer => p \in used'
    BY <1>1, <2>1, NoneAssumption DEF Cascades, RowStep, Inserted, Overwritten, Scheduled, Live
  <2> QED BY <2>2 DEF Live
<1>3. env' = env
  BY DEF Next, Tend, Enforce, run_once, SaveDue, PushDue, SetSchedule, ClockTurns, vars, Handle, interface_up,
         BeginCreate, Begin, BeginIface, PlanCreate, InsertPeer, get, PlanUpdate, SavePeer, RemoveStale, PushPeer,
         DeletePeer, ListPeers, interface_down, UpFails, DownFails, MarkStatus, DeleteIface, Abandon
<1>4. SUFFICES ASSUME Serial
               PROVE  Alone' /\ TodoKept' /\ Distinct' /\ \A w \in Workers : Kept(w)'
  BY <1>1, <1>2, <1>3 DEF SerialInv, Distinct, Kept, Serial
<1>5. Alone /\ TodoKept /\ Distinct /\ \A w \in Workers : Kept(w)
  BY <1>4 DEF SerialInv, Distinct, Kept
<1>6. CASE \E w \in Workers : Handle(w) \/ interface_up(w)
  <2>1. PICK w \in Workers : Handle(w) \/ interface_up(w)
    BY <1>6
  <2>2. /\ tick.pc = "idle" /\ tick' = tick
        /\ \A v \in Workers \ {w} : req[v].pc = "idle" /\ req'[v] = req[v]
    BY <1>1, <1>4, <1>5, <2>1, HandleAlone
  <2>3. Alone' /\ TodoKept'
    BY <2>2 DEF Alone, Busy, TodoKept
  <2>4. Kept(w)' /\ Distinct'
    BY <1>1, <1>5, <2>1, HandleKept
  <2>5. \A v \in Workers \ {w} : Kept(v)'
    BY <2>2, KeptAtRest
  <2> QED BY <2>3, <2>4, <2>5
<1>7. CASE Enforce
  <2>1. Busy = {} /\ req' = req
    BY <1>1, <1>4, <1>5, <1>7, EnforceAlone
  <2>2. Alone' /\ \A w \in Workers : req'[w].pc = "idle"
    BY <2>1 DEF Alone, Busy
  <2>3. TodoKept' /\ Distinct'
    BY <1>1, <1>5, <1>7, EnforceKept
  <2> QED BY <2>2, <2>3, KeptAtRest
<1>8. CASE SetSchedule \/ ClockTurns \/ UNCHANGED vars
  <2>1. Alike
    BY <1>1, <1>8, AsideAlike
  <2>2. UNCHANGED <<req, tick, env>>
    BY <1>8 DEF SetSchedule, ClockTurns, vars
  <2>3. TodoKept' /\ Distinct' /\ \A w \in Workers : Kept(w)'
    BY <1>1, <1>5, <2>1, <2>2, AlikeKept
  <2>4. Alone'
    BY <1>5, <2>2 DEF Alone, Busy
  <2> QED BY <2>3, <2>4
<1> QED BY <1>6, <1>7, <1>8 DEF Next, Tend

LEMMA SerialInvariant == Spec => []SerialInv
BY SerialInit, SerialNext, PTL DEF Spec

(* A request checks the address against the table and writes its row steps later.  Nothing    *)
(* else writes in between, an edit leaves out only its own row, and what a toggle and the     *)
(* enforcer write over a row is that row's own address.                                       *)
THEOREM AddressesUnique == Spec => []UniqueAddresses
<1>1. SerialInv => UniqueAddresses
  BY DEF SerialInv, Serial, UniqueAddresses, DistinctAddresses, OnIface
<1> QED BY <1>1, SerialInvariant, PTL

-----------------------------------------------------------------------------
(* The kernel *)

\* A peer that the kernel is to let in at a place: an interface and a key.
Claims(p, i, k) == p \in OnIface(i) /\ peers[p].enabled /\ peers[p].key = k

\* The entry is a claiming peer's, with its address; a claiming peer has its entry.
Backed(i, k) == kern[i][k] # NoPeer => \E p \in PeerIds : Claims(p, i, k) /\ peers[p].ip = kern[i][k]
Served(i, k) == \A p \in PeerIds : Claims(p, i, k) => kern[i][k] = peers[p].ip

\* Unless the last call for the place failed
Right(i, k) == kern[i] # NoLink /\ <<i, k>> \notin missed => Backed(i, k) /\ (env.reuse \/ Served(i, k))

\* A step leaves the entry in place, drops the link, or fails there.
SameEntry(i, k) ==
    \/ kern'[i] = NoLink
    \/ <<i, k>> \in missed'
    \/ kern[i] # NoLink /\ kern'[i][k] = kern[i][k] /\ <<i, k>> \notin missed

\* The place of a row or of what update remembers of one
Place(row, i, k) == row.iface = i /\ row.key = k

\* Where a request has changed the table and has yet to change the kernel, or the other
\* way round.
LooseAt(r, i, k) ==
    \/ /\ \/ r.op \in {"create", "update", "toggle"} /\ r.pc = "push"
          \/ r.op = "update" /\ r.pc = "clean"
          \/ r.op = "delete" /\ r.pc = "drop"
       /\ Place(r.row, i, k)
    \/ r.op = "update" /\ r.pc = "clean" /\ Place(r.old, i, k)

Loose(i, k) ==
    \/ \E w \in Workers : LooseAt(req[w], i, k)
    \/ tick.pc = "push" /\ Place(tick.todo[Due], i, k)

\* A delete takes the entry away before the row.
Removed(w) ==
    /\ At(w, {"delete"}, "push") => ~req[w].row.enabled
    /\ At(w, {"delete"}, "drop") =>
          \/ kern[req[w].row.iface] = NoLink \/ kern[req[w].row.iface][req[w].row.key] = NoPeer
          \/ <<req[w].row.iface, req[w].row.key>> \in missed

KernelInv ==
    /\ SerialInv
    /\ Orderly => /\ \A i \in ifaces, k \in Keys : Loose(i, k) \/ Right(i, k)
                  /\ \A w \in Workers : Removed(w)


(* A place stays right when its entry and the peers that claim it stay. *)
LEMMA RightKept ==
    ASSUME NEW i, NEW k, Right(i, k), env' = env,
           SameEntry(i, k),
           \A p \in PeerIds : Claims(p, i, k)' <=> Claims(p, i, k),
           \A p \in PeerIds : Claims(p, i, k) => peers'[p].ip = peers[p].ip
    PROVE  Right(i, k)'
BY DEF Right, Backed, Served, SameEntry

\* What the table holds of a place: peers, addresses.
SameClaims(i, k) ==
    /\ \A p \in PeerIds : Claims(p, i, k)' <=> Claims(p, i, k)
    /\ \A p \in PeerIds : Claims(p, i, k) => peers'[p].ip = peers[p].ip

LEMMA UnchangedClaims == ASSUME peers' = peers, NEW i, NEW k PROVE SameClaims(i, k)
BY DEF SameClaims, Claims, OnIface, Live

(* A write of a row changes the claims to its old and its new place only. *)
LEMMA WritesClaims ==
    ASSUME NEW p, NEW row, Writes(p, row), NEW i, NEW k, ~Place(row, i, k),
           p \in Live => ~Place(peers[p], i, k)
    PROVE  SameClaims(i, k)
<1>1. \A x \in PeerIds \ {p} : peers'[x] = peers[x]
  BY DEF Writes
<1>2. ~Claims(p, i, k) /\ ~Claims(p, i, k)'
  BY DEF Claims, OnIface, Writes, Place
<1>3. \A x \in PeerIds \ {p} : (Claims(x, i, k)' <=> Claims(x, i, k))
  BY <1>1 DEF Claims, OnIface, Live
<1> QED BY <1>1, <1>2, <1>3 DEF SameClaims

LEMMA AlikeClaims == ASSUME Alike, NEW i, NEW k PROVE SameClaims(i, k)
BY DEF Alike, SameClaims, Claims, OnIface, Live

LEMMA StillEntry == ASSUME UNCHANGED <<kern, missed>>, NEW i, NEW k PROVE SameEntry(i, k)
BY DEF SameEntry

(* Pushing what the table says makes its place right. *)
LEMMA PushRight ==
    ASSUME TypeInv, Distinct, UNCHANGED <<peers, env>>, NEW p \in Live, NEW row \in Peer, SameAddress(peers[p], row),
           peers[p].enabled = row.enabled, Push(row), NEW i \in Ifaces, NEW k \in Keys, Place(row, i, k)
    PROVE  Right(i, k)'
<1>1. SUFFICES ASSUME kern'[i] # NoLink, <<i, k>> \notin missed'
               PROVE  Backed(i, k)' /\ (env.reuse \/ Served(i, k)')
  BY DEF Right
<1>2. kern'[i][k] = IF row.enabled THEN row.ip ELSE NoPeer
  <2>0. SetEntry(i, k, IF row.enabled THEN row.ip ELSE NoPeer)
    BY <1>1 DEF Push, apply_peer, remove_peer, EntryFails, Place
  <2>1. kern[i] # NoLink /\ kern[i] \in Entries
    BY <1>1, <2>0 DEF SetEntry, TypeInv, TypeOK
  <2>2. kern' = [kern EXCEPT ![i] = [kern[i] EXCEPT ![k] = IF row.enabled THEN row.ip ELSE NoPeer]]
    BY <2>0, <2>1 DEF SetEntry
  <2> QED BY <2>1, <2>2 DEF Entries, TypeInv, TypeOK
<1>3. p \in PeerIds /\ peers[p].iface = i /\ peers[p].key = k /\ peers[p].ip = row.ip
  BY DEF Live, SameAddress, Same, Place
<1>4. row.enabled => Claims(p, i, k)
  BY <1>3 DEF Claims, OnIface
<1>5. Claims(p, i, k)' <=> Claims(p, i, k)
  BY UnchangedClaims DEF SameClaims, Live
<1>6. Backed(i, k)'
  BY <1>2, <1>3, <1>4, <1>5 DEF Backed
<1>7. ASSUME ~env.reuse PROVE Served(i, k)'
  <2>1. \A q \in PeerIds : Claims(q, i, k)' => q = p /\ row.enabled
    BY <1>3, <1>7 DEF Claims, OnIface, Live, Distinct, DistinctKeys
  <2> QED BY <1>2, <1>3, <2>1 DEF Served
<1> QED BY <1>6, <1>7

(* A call leaves every other entry. *)
LEMMA SetElsewhere ==
    ASSUME TypeInv, NEW j \in Ifaces, NEW key \in Keys, NEW entry \in Hosts \cup {NoPeer},
           SetEntry(j, key, entry) \/ EntryFails(j, key),
           NEW i \in Ifaces, NEW k \in Keys, ~(i = j /\ k = key)
    PROVE  SameEntry(i, k)
<1>1. <<i, k>> # <<j, key>>
  OBVIOUS
<1>2. <<i, k>> \in missed' <=> <<i, k>> \in missed
  BY <1>1 DEF SetEntry, EntryFails
<1>3. kern'[i] = NoLink \/ (kern[i] # NoLink /\ kern'[i][k] = kern[i][k])
  BY DEF TypeInv, TypeOK, SetEntry, EntryFails, Entries
<1> QED BY <1>2, <1>3 DEF SameEntry

LEMMA PushElsewhere ==
    ASSUME TypeInv, NEW row \in Peer, Push(row), NEW i \in Ifaces, NEW k \in Keys, ~Place(row, i, k)
    PROVE  SameEntry(i, k)
BY SetElsewhere DEF Push, apply_peer, remove_peer, Place, Peer

LEMMA RemoveElsewhere ==
    ASSUME TypeInv, NEW j \in Ifaces, NEW key \in Keys, remove_peer(j, key), NEW i \in Ifaces, NEW k \in Keys
    PROVE  /\ (i = j /\ k = key) => kern'[i] = NoLink \/ kern'[i][k] = NoPeer \/ <<i, k>> \in missed'
           /\ ~(i = j /\ k = key) => SameEntry(i, k)
<1>1. ~(i = j /\ k = key) => SameEntry(i, k)
  BY SetElsewhere DEF remove_peer
<1>2. ASSUME i = j, k = key, SetEntry(i, k, NoPeer) PROVE kern'[i] = NoLink \/ kern'[i][k] = NoPeer
  BY <1>2 DEF TypeInv, TypeOK, SetEntry, Entries
<1> QED BY <1>1, <1>2 DEF remove_peer, EntryFails

-----------------------------------------------------------------------------
(* Every step of a request leaves a place right, or is to come back to it *)

Ready(w) == TypeInv /\ Live \subseteq used /\ Distinct /\ Kept(w) /\ Removed(w)

(* A step that touches neither the rows nor the kernel, and leaves nothing to do. *)
LEMMA QuietRight ==
    ASSUME UNCHANGED <<peers, kern, missed, env>>, NEW i, NEW k, NEW w,
           LooseAt(req[w], i, k) \/ Right(i, k), LooseAt(req[w], i, k) => LooseAt(req'[w], i, k)
    PROVE  LooseAt(req'[w], i, k) \/ Right(i, k)'
<1>1. Right(i, k) => Right(i, k)'
  <2>1. SameClaims(i, k)
    BY UnchangedClaims
  <2>2. SameEntry(i, k)
    BY StillEntry
  <2> QED BY <2>1, <2>2, RightKept DEF SameClaims
<1> QED BY <1>1

LEMMA InsertRight ==
    ASSUME NEW w \in Workers, Ready(w), InsertPeer(w), NEW i \in ifaces, NEW k \in Keys,
           LooseAt(req[w], i, k) \/ Right(i, k)
    PROVE  LooseAt(req'[w], i, k) \/ Right(i, k)'
<1>0. ~LooseAt(req[w], i, k)
  BY DEF InsertPeer, At, LooseAt
<1>1. CASE UNCHANGED <<peers, used>>
  BY <1>0, <1>1, QuietRight DEF InsertPeer
<1>2. CASE req[w].row.iface \in ifaces
  <2>1. PICK p \in env.peers \ used :
           /\ p \in PeerIds /\ peers' = [peers EXCEPT ![p] = req[w].row]
           /\ \E q : Becomes(w, q) /\ q.op = "create" /\ q.pc = "push" /\ q.id = p /\ q.row = req[w].row
    BY <1>2, InsertBecomes DEF Ready
  <2>2. PICK q : Becomes(w, q) /\ q.op = "create" /\ q.pc = "push" /\ q.row = req[w].row
    BY <2>1
  <2>3. PICK row \in Peer : row = req[w].row
    BY DEF Ready, TypeInv, TypeOK, Request
  <2>4. Writes(p, row) /\ p \notin Live
    BY <2>1, <2>3 DEF Writes, Ready, TypeInv, TypeOK
  <2>5. req'[w] = q
    BY <2>2, BecomesFacts DEF Ready, TypeInv
  <2>6. CASE Place(row, i, k)
    BY <2>2, <2>3, <2>5, <2>6 DEF LooseAt
  <2>7. CASE ~Place(row, i, k)
    <3>1. SameClaims(i, k)
      BY <2>4, <2>7, WritesClaims
    <3>2. SameEntry(i, k) /\ env' = env
      BY StillEntry DEF InsertPeer
    <3> QED BY <1>0, <3>1, <3>2, RightKept DEF SameClaims
  <2> QED BY <2>6, <2>7
<1> QED BY <1>1, <1>2 DEF InsertPeer, Copy

LEMMA SaveRight ==
    ASSUME NEW w \in Workers, Ready(w), SavePeer(w), NEW i \in ifaces, NEW k \in Keys,
           LooseAt(req[w], i, k) \/ Right(i, k)
    PROVE  LooseAt(req'[w], i, k) \/ Right(i, k)'
<1>0. ~LooseAt(req[w], i, k)
  BY DEF SavePeer, At, LooseAt
<1>1. CASE UNCHANGED peers
  BY <1>0, <1>1, QuietRight DEF SavePeer
<1>2. CASE Update(req[w].id, Copy(w)) /\ Goto(w, IF req[w].op = "update" THEN "clean" ELSE "push")
  <2>1. PICK q : /\ Becomes(w, q) /\ q.pc = (IF req[w].op = "update" THEN "clean" ELSE "push")
                 /\ q.op = req[w].op /\ q.id = req[w].id /\ q.row = req[w].row /\ q.old = req[w].old
    BY <1>2, GotoBecomes DEF Ready, TypeInv
  <2>2. req'[w] = q /\ (q.op = "update" \/ q.op = "toggle")
    BY <2>1, BecomesFacts DEF Ready, TypeInv, SavePeer, At
  <2>3. PICK row \in Peer : row = req[w].row
    BY DEF Ready, TypeInv, TypeOK, Request
  <2>4. PICK p \in PeerIds : p = req[w].id /\ p \in Live
    BY DEF Live, SavePeer, Ready, Kept, CopyKept, Standing, At
  <2>5. Writes(p, row)
    BY <1>2, <2>3, <2>4, SaveWrites DEF Copy, Ready
  <2>6. CASE Place(row, i, k) \/ (q.op = "update" /\ Place(q.old, i, k))
    BY <2>1, <2>2, <2>3, <2>6 DEF LooseAt
  <2>7. CASE ~(Place(row, i, k) \/ (q.op = "update" /\ Place(q.old, i, k)))
    <3>1. ~Place(peers[p], i, k)
      BY <2>1, <2>2, <2>3, <2>4, <2>7 DEF Ready, Kept, CopyKept, Standing, At, SavePeer, Same, SameAddress, Place
    <3>2. SameClaims(i, k)
      BY <2>5, <2>7, <3>1, WritesClaims
    <3>3. SameEntry(i, k) /\ env' = env
      BY StillEntry DEF SavePeer
    <3> QED BY <1>0, <3>2, <3>3, RightKept DEF SameClaims
  <2> QED BY <2>6, <2>7
<1> QED BY <1>1, <1>2 DEF SavePeer

(* The old place is cleared, and no other peer can claim it. *)
LEMMA StaleRight ==
    ASSUME NEW w \in Workers, Ready(w), RemoveStale(w), NEW i \in ifaces, NEW k \in Keys,
           LooseAt(req[w], i, k) \/ Right(i, k)
    PROVE  LooseAt(req'[w], i, k) \/ Right(i, k)'
<1>1. PICK q : Becomes(w, q) /\ q.pc = "push" /\ q.op = req[w].op /\ q.row = req[w].row
  BY GotoBecomes DEF Ready, TypeInv, RemoveStale
<1>2. req'[w] = q /\ q.op = "update"
  BY <1>1, BecomesFacts DEF Ready, TypeInv, RemoveStale, At
<1>3. CASE Place(req[w].row, i, k)
  BY <1>1, <1>2, <1>3 DEF LooseAt
<1>4. CASE ~Place(req[w].row, i, k)
  <2>1. PICK old \in [iface : Ifaces, key : Keys] : old = req[w].old
    BY DEF Ready, TypeInv, TypeOK, Request
  <2>2. old.iface \in Ifaces /\ old.key \in Keys /\ i \in Ifaces
    BY <2>1 DEF Ready, TypeInv, TypeOK
  <2>3. SameClaims(i, k) /\ peers' = peers /\ env' = env
    BY UnchangedClaims DEF RemoveStale
  <2>4. CASE Place(old, i, k)
    <3>1. remove_peer(old.iface, old.key)
      BY <1>4, <2>1, <2>4 DEF RemoveStale, Copy, Place
    <3>2. kern'[i] = NoLink \/ kern'[i][k] = NoPeer \/ <<i, k>> \in missed'
      BY <2>2, <2>4, <3>1, RemoveElsewhere DEF Place, Ready
    <3>3. Backed(i, k)' \/ kern'[i] = NoLink \/ <<i, k>> \in missed'
      BY <3>2 DEF Backed
    <3>4. ASSUME ~env.reuse PROVE \A p \in PeerIds : ~Claims(p, i, k)'
      <4>1. /\ KeyFree(req[w].id, k) /\ req[w].id \in Live
            /\ SameAddress(peers[req[w].id], req[w].row)
        BY <2>1, <2>4, <3>4 DEF Ready, Kept, CopyKept, Standing, At, RemoveStale, Place
      <4>2. \A p \in PeerIds : ~Claims(p, i, k)
        BY <1>4, <4>1 DEF Claims, OnIface, KeyFree, SameAddress, Same, Place
      <4> QED BY <2>3, <4>2 DEF SameClaims
    <3>5. env.reuse \/ Served(i, k)'
      BY <3>4 DEF Served
    <3> QED BY <2>3, <3>3, <3>5 DEF Right
  <2>5. CASE ~Place(old, i, k)
    <3>1. Right(i, k)
      BY <1>4, <2>1, <2>5 DEF LooseAt
    <3>2. SameEntry(i, k)
      <4>1. CASE UNCHANGED <<kern, missed>>
        BY <4>1, StillEntry
      <4>2. CASE remove_peer(old.iface, old.key)
        BY <2>2, <2>5, <4>2, RemoveElsewhere DEF Place, Ready
      <4> QED BY <2>1, <4>1, <4>2 DEF RemoveStale
    <3> QED BY <2>3, <3>1, <3>2, RightKept DEF SameClaims
  <2> QED BY <2>4, <2>5
<1> QED BY <1>3, <1>4

LEMMA PushPeerRight ==
    ASSUME NEW w \in Workers, Ready(w), PushPeer(w), NEW i \in ifaces, NEW k \in Keys,
           LooseAt(req[w], i, k) \/ Right(i, k)
    PROVE  LooseAt(req'[w], i, k) \/ Right(i, k)'
<1>1. PICK row \in Peer : row = req[w].row
  BY DEF Ready, TypeInv, TypeOK, Request
<1>2. i \in Ifaces /\ peers' = peers /\ env' = env /\ req[w].pc = "push"
  BY DEF Ready, TypeInv, TypeOK, PushPeer
<1>3. CASE Push(row)
  <2>1. CASE Place(row, i, k)
    <3>1. CASE req[w].op = "delete"
      <4>1. Goto(w, "drop")
        BY <1>1, <2>1, <3>1 DEF PushPeer, Copy, Place
      <4>2. PICK q : Becomes(w, q) /\ q.pc = "drop" /\ q.op = req[w].op /\ q.row = req[w].row
        BY <4>1, GotoBecomes DEF Ready, TypeInv
      <4>3. req'[w] = q
        BY <4>2, BecomesFacts DEF Ready, TypeInv
      <4> QED BY <1>1, <2>1, <3>1, <4>2, <4>3 DEF LooseAt
    <3>2. CASE req[w].op # "delete"
      <4>1. At(w, {"create", "update", "toggle"}, "push")
        BY <3>2 DEF PushPeer, At
      <4>2. req[w].id \in Live /\ SameAddress(peers[req[w].id], row) /\ peers[req[w].id].enabled = row.enabled
        BY <1>1, <4>1 DEF Ready, Kept, CopyKept, Standing, At
      <4> QED BY <1>2, <1>3, <2>1, <4>2, PushRight DEF Ready
    <3> QED BY <3>1, <3>2
  <2>2. CASE ~Place(row, i, k)
    <3>1. Right(i, k)
      BY <1>1, <1>2, <2>2 DEF LooseAt
    <3>2. SameClaims(i, k)
      BY <1>2, UnchangedClaims
    <3>3. SameEntry(i, k)
      BY <1>2, <1>3, <2>2, PushElsewhere DEF Ready
    <3> QED BY <1>2, <3>1, <3>2, <3>3, RightKept DEF SameClaims
  <2> QED BY <2>1, <2>2
<1>4. CASE req[w].row.iface \notin ifaces /\ UNCHANGED <<kern, missed>>
  <2>1. ~LooseAt(req[w], i, k)
    BY <1>2, <1>4 DEF LooseAt, Place
  <2> QED BY <1>2, <1>4, <2>1, QuietRight
<1> QED BY <1>1, <1>3, <1>4 DEF PushPeer, Copy

(* The row goes when its entry has gone. *)
LEMMA DeleteRight ==
    ASSUME NEW w \in Workers, Ready(w), DeletePeer(w), NEW i \in ifaces, NEW k \in Keys,
           LooseAt(req[w], i, k) \/ Right(i, k)
    PROVE  Right(i, k)'
<1>1. PICK p \in PeerIds : p = req[w].id
  BY DEF Ready, TypeInv, TypeOK, Request
<1>2. /\ peers'[p] = NoPeer /\ \A x \in PeerIds \ {p} : peers'[x] = peers[x]
      /\ kern' = kern /\ missed' = missed /\ env' = env
  BY <1>1 DEF DeletePeer, Ready, TypeInv, TypeOK
<1>3. /\ p \in Live /\ SameAddress(peers[p], req[w].row)
      /\ \/ kern[req[w].row.iface] = NoLink \/ kern[req[w].row.iface][req[w].row.key] = NoPeer
         \/ <<req[w].row.iface, req[w].row.key>> \in missed
  BY <1>1 DEF DeletePeer, Ready, Kept, CopyKept, Standing, Removed, At
<1>4. ~Claims(p, i, k)' /\ \A x \in PeerIds \ {p} : (Claims(x, i, k)' <=> Claims(x, i, k))
  BY <1>2 DEF Claims, OnIface, Live
<1>5. CASE Place(req[w].row, i, k)
  <2>1. kern'[i] = NoLink \/ kern'[i][k] = NoPeer \/ <<i, k>> \in missed'
    BY <1>2, <1>3, <1>5 DEF Place
  <2>2. ASSUME ~env.reuse PROVE \A x \in PeerIds : ~Claims(x, i, k)'
    <3>1. \A x \in Live \ {p} : peers[x].key # k
      BY <1>3, <1>5, <2>2 DEF Ready, Distinct, DistinctKeys, SameAddress, Same, Place
    <3>2. \A x \in PeerIds \ {p} : ~Claims(x, i, k)
      BY <3>1 DEF Claims, OnIface
    <3> QED BY <1>4, <3>2
  <2> QED BY <1>2, <2>1, <2>2 DEF Right, Backed, Served
<1>6. CASE ~Place(req[w].row, i, k)
  <2>1. Right(i, k)
    BY <1>6 DEF LooseAt, DeletePeer, At
  <2>2. ~Claims(p, i, k)
    BY <1>3, <1>6 DEF Claims, OnIface, SameAddress, Same, Place
  <2>3. SameClaims(i, k)
    BY <1>2, <1>4, <2>2 DEF SameClaims
  <2> QED BY <1>2, <2>1, <2>3, StillEntry, RightKept DEF SameClaims
<1> QED BY <1>5, <1>6

(* A link comes up with what the table says. *)
LEMMA UpRight ==
    ASSUME NEW w \in Workers, Ready(w), interface_up(w), NEW i \in ifaces, NEW k \in Keys,
           LooseAt(req[w], i, k) \/ Right(i, k)
    PROVE  Right(i, k)'
<1>1. PICK j \in Ifaces : j = req[w].iface
  BY DEF Ready, TypeInv, TypeOK, Request
<1>2. kern' = [kern EXCEPT ![j] = req[w].list] /\ req[w].list = Configured(j) /\ peers' = peers /\ env' = env
  BY <1>1 DEF interface_up, Ready, Kept, ListKept, At
<1>6. missed' = missed \ ({j} \X Keys)
  BY <1>1 DEF interface_up
<1>3. ~LooseAt(req[w], i, k) /\ i \in Ifaces
  BY DEF interface_up, At, LooseAt, Ready, TypeInv, TypeOK
<1>4. CASE i # j
  <2>1. SameClaims(i, k)
    BY <1>2, UnchangedClaims
  <2>2. kern'[i] = kern[i] /\ (<<i, k>> \in missed' <=> <<i, k>> \in missed)
    BY <1>2, <1>3, <1>4, <1>6 DEF Ready, TypeInv, TypeOK
  <2>3. SameEntry(i, k)
    BY <2>2 DEF SameEntry
  <2> QED BY <1>2, <1>3, <2>1, <2>3, RightKept DEF SameClaims
<1>5. CASE i = j
  <2>1. PICK list : list = Configured(i)
    OBVIOUS
  <2>2. kern'[i] = list
    BY <1>2, <1>3, <1>5, <2>1 DEF Ready, TypeInv, TypeOK
  <2>3. /\ list[k] # NoPeer => \E p \in OnIface(i) : peers[p].enabled /\ peers[p].key = k /\ peers[p].ip = list[k]
        /\ \A p \in OnIface(i) : peers[p].enabled /\ peers[p].key = k => list[k] # NoPeer
    BY <1>3, <2>1, ConfiguredType DEF Ready, TypeInv
  <2>4. \A p \in PeerIds : (Claims(p, i, k)' <=> Claims(p, i, k))
    BY <1>2, UnchangedClaims DEF SameClaims
  <2>5. Backed(i, k)'
    BY <1>2, <2>2, <2>3, <2>4 DEF Backed, Claims, OnIface, Live
  <2>6. ASSUME ~env.reuse PROVE Served(i, k)'
    <3>1. ASSUME NEW p \in PeerIds, Claims(p, i, k) PROVE list[k] = peers[p].ip
      <4>1. p \in OnIface(i) /\ peers[p].enabled /\ peers[p].key = k
        BY <3>1 DEF Claims
      <4>2. PICK q \in OnIface(i) : peers[q].key = k /\ peers[q].ip = list[k]
        BY <2>3, <4>1
      <4>3. p = q
        BY <2>6, <4>1, <4>2 DEF Ready, Distinct, DistinctKeys, OnIface
      <4> QED BY <4>2, <4>3
    <3> QED BY <1>2, <2>2, <2>4, <3>1 DEF Served
  <2> QED BY <1>2, <2>5, <2>6 DEF Right
<1> QED BY <1>4, <1>5

LEMMA DownRight ==
    ASSUME NEW w \in Workers, Ready(w), interface_down(w), NEW i \in ifaces, NEW k \in Keys,
           LooseAt(req[w], i, k) \/ Right(i, k)
    PROVE  Right(i, k)'
<1>1. PICK j \in Ifaces : j = req[w].iface
  BY DEF Ready, TypeInv, TypeOK, Request
<1>2. kern' = [kern EXCEPT ![j] = NoLink] /\ peers' = peers /\ missed' = missed /\ env' = env
  BY <1>1 DEF interface_down
<1>3. Right(i, k) /\ i \in Ifaces
  BY DEF interface_down, At, LooseAt, Ready, TypeInv, TypeOK
<1>4. SameEntry(i, k)
  BY <1>2, <1>3 DEF SameEntry, Ready, TypeInv, TypeOK
<1>5. SameClaims(i, k)
  BY <1>2, UnchangedClaims
<1> QED BY <1>2, <1>3, <1>4, <1>5, RightKept DEF SameClaims

(* The places of a link that does not come up are missed. *)
LEMMA UpFailsRight ==
    ASSUME NEW w \in Workers, Ready(w), UpFails(w), NEW i \in ifaces, NEW k \in Keys,
           LooseAt(req[w], i, k) \/ Right(i, k)
    PROVE  Right(i, k)'
<1>1. PICK j \in Ifaces : j = req[w].iface
  BY DEF Ready, TypeInv, TypeOK, Request
<1>2. /\ kern' = kern \/ kern' = [kern EXCEPT ![j] = Nobody]
      /\ missed' = missed \cup ({j} \X Keys) /\ peers' = peers /\ env' = env
  BY <1>1 DEF UpFails
<1>3. Right(i, k) /\ i \in Ifaces
  BY DEF UpFails, At, LooseAt, Ready, TypeInv, TypeOK
<1>4. CASE i = j
  BY <1>2, <1>4 DEF Right
<1>5. CASE i # j
  <2>1. kern'[i] = kern[i] /\ (<<i, k>> \in missed' <=> <<i, k>> \in missed)
    BY <1>2, <1>3, <1>5 DEF Ready, TypeInv, TypeOK
  <2>2. SameEntry(i, k)
    BY <2>1 DEF SameEntry
  <2>3. SameClaims(i, k)
    BY <1>2, UnchangedClaims
  <2> QED BY <1>2, <1>3, <2>2, <2>3, RightKept DEF SameClaims
<1> QED BY <1>4, <1>5

LEMMA CascadeRight ==
    ASSUME NEW w \in Workers, Ready(w), DeleteIface(w), NEW i \in ifaces', NEW k \in Keys,
           LooseAt(req[w], i, k) \/ Right(i, k)
    PROVE  Right(i, k)'
<1>1. SameEntry(i, k) /\ env' = env /\ Right(i, k) /\ i # req[w].iface
  BY StillEntry DEF DeleteIface, At, LooseAt
<1>2. PICK j : j = req[w].iface
  OBVIOUS
<1>3. \A p \in PeerIds : peers'[p] = IF p \in OnIface(j) THEN NoPeer ELSE peers[p]
  BY <1>2 DEF DeleteIface
<1>4. SameClaims(i, k)
  BY <1>1, <1>2, <1>3 DEF SameClaims, Claims, OnIface, Live
<1> QED BY <1>1, <1>4, RightKept DEF SameClaims

LEMMA HandleRight ==
    ASSUME NEW w \in Workers, Ready(w), Handle(w) \/ interface_up(w), "abandon" \notin env.ops,
           NEW i \in ifaces', NEW k \in Keys, LooseAt(req[w], i, k) \/ Right(i, k)
    PROVE  LooseAt(req'[w], i, k) \/ Right(i, k)'
<1>1. CASE DeleteIface(w)
  BY <1>1, CascadeRight
<1>2. CASE ~DeleteIface(w)
  <2>1. i \in ifaces
    BY <1>2 DEF Handle, interface_up, BeginCreate, Begin, BeginIface, PlanCreate, InsertPeer, get, PlanUpdate,
                SavePeer, RemoveStale, PushPeer, DeletePeer, ListPeers, interface_down, UpFails, DownFails, MarkStatus,
                Abandon
  <2>2. CASE InsertPeer(w) \/ SavePeer(w) \/ RemoveStale(w) \/ PushPeer(w)
    BY <2>1, <2>2, InsertRight, SaveRight, StaleRight, PushPeerRight
  <2>3. CASE DeletePeer(w) \/ interface_up(w) \/ interface_down(w) \/ UpFails(w)
    BY <2>1, <2>3, DeleteRight, UpRight, DownRight, UpFailsRight
  <2>4. CASE UNCHANGED <<peers, kern, missed, env>> /\ ~LooseAt(req[w], i, k)
    BY <2>4, QuietRight
  <2>5. \/ InsertPeer(w) \/ SavePeer(w) \/ RemoveStale(w) \/ PushPeer(w)
        \/ DeletePeer(w) \/ interface_up(w) \/ interface_down(w) \/ UpFails(w)
        \/ UNCHANGED <<peers, kern, missed, env>> /\ ~LooseAt(req[w], i, k)
    BY <1>2 DEF Handle, interface_up, BeginCreate, Begin, BeginIface, PlanCreate, get, PlanUpdate, ListPeers,
                DownFails, MarkStatus, Abandon, LooseAt, At
  <2> QED BY <2>2, <2>3, <2>4, <2>5
<1> QED BY <1>1, <1>2

LEMMA RemovedAtRest ==
    ASSUME NEW w, req'[w].op # "delete" \/ req'[w].pc \notin {"push", "drop"}
    PROVE  Removed(w)'
BY DEF Removed, At

(* get takes the copy of a peer to delete as disabled, so that its push takes the entry away. *)
LEMMA HandleRemoved ==
    ASSUME NEW w \in Workers, Ready(w), Handle(w) \/ interface_up(w)
    PROVE  Removed(w)'
<1>0. TypeInv
  BY DEF Ready
<1>1. CASE End(w)
  <2>1. req'[w].pc = "idle"
    BY <1>0, <1>1, EndBecomes, BecomesFacts DEF TypeInv, Idle
  <2> QED BY <2>1, RemovedAtRest
<1>2. CASE get(w) /\ ~End(w)
  <2>1. PICK q : /\ Becomes(w, q) /\ (q.op = "delete" => q.pc = "push" /\ ~q.row.enabled)
    BY <1>0, <1>2, GetBecomes DEF TypeInv
  <2>2. req'[w] = q
    BY <1>0, <2>1, BecomesFacts DEF TypeInv
  <2> QED BY <2>1, <2>2 DEF Removed, At
<1>3. CASE PushPeer(w) /\ ~End(w)
  <2>1. Goto(w, "drop") /\ Push(req[w].row) /\ At(w, {"delete"}, "push")
    BY <1>3 DEF PushPeer, Copy, At
  <2>2. PICK q : Becomes(w, q) /\ q.pc = "drop" /\ q.op = req[w].op /\ q.row = req[w].row
    BY <1>0, <2>1, GotoBecomes DEF TypeInv
  <2>3. req'[w] = q
    BY <1>0, <2>2, BecomesFacts DEF TypeInv
  <2>4. PICK row \in Peer : row = req[w].row
    BY <1>0 DEF TypeInv, TypeOK, Request
  <2>5. ~row.enabled
    BY <2>1, <2>4 DEF Ready, Removed
  <2>6. remove_peer(row.iface, row.key) /\ row.iface \in Ifaces /\ row.key \in Keys
    BY <2>1, <2>4, <2>5 DEF Push, Peer
  <2>7. \/ kern'[row.iface] = NoLink \/ kern'[row.iface][row.key] = NoPeer
        \/ <<row.iface, row.key>> \in missed'
    BY <1>0, <2>6, RemoveElsewhere
  <2>8. (\/ kern[req[w].row.iface] = NoLink \/ kern[req[w].row.iface][req[w].row.key] = NoPeer
         \/ <<req[w].row.iface, req[w].row.key>> \in missed)'
    BY <2>2, <2>3, <2>4, <2>7
  <2>9. req'[w].pc = "drop"
    BY <2>2, <2>3
  <2> QED BY <2>8, <2>9 DEF Removed, At
<1>4. CASE BeginCreate(w) \/ (\E op \in {"update", "toggle", "delete"} : Begin(w, op))
  <2>1. PICK q : Becomes(w, q) /\ q.pc \in {"plan", "get"}
    BY <1>0, <1>4, BeginCreateBecomes, BeginBecomes DEF TypeInv
  <2> QED BY <1>0, <2>1, BecomesFacts, RemovedAtRest DEF TypeInv
<1>5. CASE BeginIface(w, "start", "list") \/ BeginIface(w, "stop", "push") \/ BeginIface(w, "drop", "push")
  <2>1. PICK q : Becomes(w, q) /\ q.op # "delete"
    BY <1>0, <1>5, BeginIfaceBecomes DEF TypeInv
  <2> QED BY <1>0, <2>1, BecomesFacts, RemovedAtRest DEF TypeInv
<1>6. CASE (PlanCreate(w) \/ InsertPeer(w) \/ PlanUpdate(w)) /\ ~End(w)
  <2>1. PICK q : Becomes(w, q) /\ q.op # "delete"
    BY <1>0, <1>6, PlanCreateBecomes, InsertBecomes, PlanUpdateBecomes DEF TypeInv
  <2> QED BY <1>0, <2>1, BecomesFacts, RemovedAtRest DEF TypeInv
<1>7. CASE (SavePeer(w) \/ RemoveStale(w) \/ interface_up(w) \/ interface_down(w) \/ DownFails(w)) /\ ~End(w)
  <2>1. req[w].op # "delete" /\ (Goto(w, "clean") \/ Goto(w, "push") \/ Goto(w, "drop") \/ Goto(w, "mark"))
    BY <1>7 DEF SavePeer, RemoveStale, interface_up, interface_down, DownFails, At
  <2>2. PICK q : Becomes(w, q) /\ q.op = req[w].op
    BY <1>0, <2>1, GotoBecomes DEF TypeInv
  <2> QED BY <1>0, <2>1, <2>2, BecomesFacts, RemovedAtRest DEF TypeInv
<1>8. CASE ListPeers(w)
  <2>1. PICK q : Becomes(w, q) /\ q.op # "delete"
    BY <1>0, <1>8, ListBecomes DEF TypeInv
  <2> QED BY <1>0, <2>1, BecomesFacts, RemovedAtRest DEF TypeInv
<1> QED BY <1>1, <1>2, <1>3, <1>4, <1>5, <1>6, <1>7, <1>8
        DEF Handle, DeletePeer, MarkStatus, DeleteIface, Abandon, UpFails

-----------------------------------------------------------------------------
(* So does every step of the enforcer *)

LEMMA EnforceRight ==
    ASSUME TypeInv, Distinct, TodoKept, Enforce, NEW i \in ifaces, NEW k \in Keys,
           (tick.pc = "push" /\ Place(tick.todo[Due], i, k)) \/ Right(i, k)
    PROVE  (tick'.pc = "push" /\ Place(tick'.todo[Due'], i, k)) \/ Right(i, k)'
<1>0. i \in Ifaces /\ env' = env
  BY DEF TypeInv, TypeOK, Enforce, run_once, SaveDue, PushDue
<1>1. CASE Right(i, k) /\ UNCHANGED <<peers, kern, missed>>
  <2>1. SameClaims(i, k) /\ SameEntry(i, k)
    BY <1>1, UnchangedClaims, StillEntry
  <2> QED BY <1>0, <1>1, <2>1, RightKept DEF SameClaims
<1>2. CASE SaveDue /\ ~UNCHANGED peers
  <2>1. PICK p \in PeerIds : p = Due /\ tick.todo[p] # NoPeer /\ tick.todo[p] \in Peer
    BY <1>2, DueProps DEF SaveDue, TypeInv
  <2>2. PICK row \in Peer : row = tick.todo[p]
    BY <2>1
  <2>3. p \in Live /\ SameAddress(peers[p], row)
    BY <1>2, <2>1, <2>2 DEF TodoKept, SaveDue
  <2>4. Update(p, row) /\ tick' = [tick EXCEPT !.pc = "push"] /\ SameEntry(i, k) /\ Right(i, k)
    BY <1>2, <2>1, <2>2, StillEntry DEF SaveDue
  <2>5. Writes(p, row)
    BY <2>3, <2>4, SaveWrites
  <2>6. tick'.todo = tick.todo /\ tick'.pc = "push"
    BY <2>4 DEF TypeInv, TypeOK, Enforcer
  <2>7. Due' = p
    BY <2>1, <2>6 DEF Due
  <2>8. CASE Place(row, i, k)
    BY <2>2, <2>6, <2>7, <2>8
  <2>9. CASE ~Place(row, i, k)
    <3>1. ~Place(peers[p], i, k)
      BY <2>3, <2>9 DEF Place, SameAddress, Same
    <3>2. SameClaims(i, k)
      BY <2>5, <2>9, <3>1, WritesClaims
    <3> QED BY <1>0, <2>4, <3>2, RightKept DEF SameClaims
  <2> QED BY <2>8, <2>9
<1>3. CASE PushDue
  <2>1. PICK p \in PeerIds : p = Due /\ tick.todo[p] # NoPeer /\ tick.todo[p] \in Peer
    BY <1>3, DueProps DEF PushDue, TypeInv
  <2>2. PICK row \in Peer : row = tick.todo[p]
    BY <2>1
  <2>3. p \in Live /\ SameAddress(peers[p], row) /\ peers[p].enabled = row.enabled
    BY <1>3, <2>1, <2>2 DEF TodoKept, PushDue
  <2>4. CASE Push(row)
    <3>1. CASE Place(row, i, k)
      BY <1>0, <1>3, <2>3, <2>4, <3>1, PushRight DEF PushDue
    <3>2. CASE ~Place(row, i, k)
      <4>1. Right(i, k) /\ SameClaims(i, k)
        BY <1>3, <2>1, <2>2, <3>2, UnchangedClaims DEF PushDue
      <4>2. SameEntry(i, k)
        BY <1>0, <2>4, <3>2, PushElsewhere
      <4> QED BY <1>0, <4>1, <4>2, RightKept DEF SameClaims
    <3> QED BY <3>1, <3>2
  <2>5. CASE row.iface \notin ifaces /\ UNCHANGED <<kern, missed>>
    <3>1. Right(i, k)
      BY <2>1, <2>2, <2>5 DEF Place
    <3> QED BY <1>1, <1>3, <2>5, <3>1 DEF PushDue
  <2> QED BY <1>3, <2>1, <2>2, <2>4, <2>5 DEF PushDue
<1>4. CASE run_once \/ (SaveDue /\ UNCHANGED peers)
  <2>1. Right(i, k) /\ UNCHANGED <<peers, kern, missed>>
    BY <1>4 DEF run_once, SaveDue
  <2> QED BY <1>1, <2>1
<1> QED BY <1>2, <1>3, <1>4 DEF Enforce

-----------------------------------------------------------------------------
LEMMA KernelInit == Init => KernelInv
<1> SUFFICES ASSUME Init PROVE KernelInv
  OBVIOUS
<1>1. SerialInv
  BY SerialInit
<1>2. \A i \in Ifaces, k \in Keys : Right(i, k)
  BY Constants DEF Init, Right, Backed, Served, Claims, OnIface, Live, Nobody, Nothing
<1>3. \A w \in Workers : Removed(w)
  BY DEF Init, Removed, At, Idle
<1> QED BY <1>1, <1>2, <1>3 DEF KernelInv, Init

LEMMA KernelNext == KernelInv /\ [Next]_vars => KernelInv'
<1> SUFFICES ASSUME KernelInv, [Next]_vars PROVE KernelInv'
  OBVIOUS
<1>1. SerialInv /\ SerialInv' /\ TypeInv /\ Live \subseteq used /\ env' = env
  <2>1. env' = env
    BY DEF Next, Tend, Enforce, run_once, SaveDue, PushDue, SetSchedule, ClockTurns, vars, Handle, interface_up,
           BeginCreate, Begin, BeginIface, PlanCreate, InsertPeer, get, PlanUpdate, SavePeer, RemoveStale, PushPeer,
           DeletePeer, ListPeers, interface_down, UpFails, DownFails, MarkStatus, DeleteIface, Abandon
  <2> QED BY <2>1, SerialNext DEF KernelInv, SerialInv
<1>2. SUFFICES ASSUME Orderly
               PROVE  /\ \A i \in ifaces', k \in Keys : Loose(i, k)' \/ Right(i, k)'
                      /\ \A w \in Workers : Removed(w)'
  BY <1>1 DEF KernelInv, Orderly
<1>3. /\ Serial /\ "abandon" \notin env.ops /\ Alone /\ TodoKept /\ Distinct /\ \A w \in Workers : Kept(w) /\ Removed(w)
      /\ \A i \in ifaces, k \in Keys : Loose(i, k) \/ Right(i, k)
  BY <1>1, <1>2 DEF Orderly, Serial, KernelInv, SerialInv, Distinct, Kept
<1>4. CASE \E w \in Workers : Handle(w) \/ interface_up(w)
  <2>1. PICK w \in Workers : Handle(w) \/ interface_up(w)
    BY <1>4
  <2>2. /\ tick.pc = "idle"
        /\ \A v \in Workers \ {w} : req[v].pc = "idle" /\ req'[v] = req[v]
    BY <1>1, <1>3, <2>1, HandleAlone
  <2>3. Ready(w) /\ ifaces' \subseteq ifaces
    BY <1>1, <1>3, RowSteps DEF Ready, Cascades
  <2>4. ASSUME NEW i \in ifaces', NEW k \in Keys PROVE Loose(i, k)' \/ Right(i, k)'
    <3>1. LooseAt(req[w], i, k) \/ Right(i, k)
      <4>1. \A v \in Workers \ {w} : ~LooseAt(req[v], i, k)
        BY <2>2 DEF LooseAt
      <4> QED BY <1>3, <2>2, <2>3, <4>1 DEF Loose
    <3>2. LooseAt(req'[w], i, k) \/ Right(i, k)'
      BY <1>3, <2>1, <2>3, <3>1, HandleRight
    <3> QED BY <3>2 DEF Loose
  <2>5. Removed(w)'
    BY <2>1, <2>3, HandleRemoved
  <2>6. \A v \in Workers \ {w} : Removed(v)'
    BY <2>2, RemovedAtRest
  <2> QED BY <2>4, <2>5, <2>6
<1>5. CASE Enforce
  <2>1. Busy = {} /\ req' = req /\ ifaces' = ifaces
    BY <1>1, <1>3, <1>5, EnforceAlone DEF Enforce, run_once, SaveDue, PushDue
  <2>2. \A w \in Workers : req'[w].pc = "idle" /\ req[w].pc = "idle"
    BY <2>1 DEF Busy
  <2>3. ASSUME NEW i \in ifaces', NEW k \in Keys PROVE Loose(i, k)' \/ Right(i, k)'
    <3>1. (tick.pc = "push" /\ Place(tick.todo[Due], i, k)) \/ Right(i, k)
      BY <1>3, <2>1, <2>2 DEF Loose, LooseAt
    <3>2. (tick'.pc = "push" /\ Place(tick'.todo[Due'], i, k)) \/ Right(i, k)'
      BY <1>1, <1>3, <1>5, <2>1, <3>1, EnforceRight
    <3> QED BY <3>2 DEF Loose
  <2> QED BY <2>2, <2>3, RemovedAtRest
<1>6. CASE SetSchedule \/ ClockTurns \/ UNCHANGED vars
  <2>1. UNCHANGED <<ifaces, kern, missed, req, tick, env>>
    BY <1>6 DEF SetSchedule, ClockTurns, vars
  <2>2. Alike
    BY <1>1, <1>6, AsideAlike
  <2>3. ASSUME NEW i \in ifaces', NEW k \in Keys PROVE Loose(i, k)' \/ Right(i, k)'
    <3>1. Due' = Due
      BY <2>1 DEF Due
    <3>2. Loose(i, k)' <=> Loose(i, k)
      BY <2>1, <3>1 DEF Loose, LooseAt
    <3>3. SameClaims(i, k)
      BY <2>2, AlikeClaims
    <3>4. Right(i, k) => Right(i, k)'
      BY <2>1, <3>3, StillEntry, RightKept DEF SameClaims
    <3> QED BY <1>3, <2>1, <3>2, <3>4
  <2>4. \A w \in Workers : Removed(w)'
    BY <1>3, <2>1 DEF Removed, At
  <2> QED BY <2>3, <2>4
<1> QED BY <1>4, <1>5, <1>6 DEF Next, Tend

(* Every write of the table names the places in the kernel that it has put out of step, and   *)
(* the request that made it visits each of them before it ends: so when nothing is under way, *)
(* every place is right.                                                                      *)
THEOREM KernelMatches == Spec => []KernelMatchesTable
<1>1. KernelInv => KernelMatchesTable
  <2> SUFFICES ASSUME KernelInv, Orderly, Quiet, NEW i \in ifaces, NEW k \in Keys, kern[i] # NoLink,
                      <<i, k>> \notin missed
               PROVE  EntryBacked(i, k) /\ (~env.reuse => kern[i][k] = Configured(i)[k])
    BY DEF KernelMatchesTable
  <2>1. TypeInv /\ Distinct
    BY DEF KernelInv, SerialInv, Orderly, Serial, Distinct
  <2>2. Right(i, k)
    BY DEF KernelInv, Quiet, Loose, LooseAt
  <2>3. Backed(i, k) /\ (env.reuse \/ Served(i, k))
    BY <2>2 DEF Right
  <2>4. EntryBacked(i, k)
    BY <2>3 DEF EntryBacked, Backed, Claims
  <2>5. ASSUME ~env.reuse PROVE kern[i][k] = Configured(i)[k]
    <3>1. i \in Ifaces
      BY <2>1 DEF TypeInv, TypeOK
    <3>2. PICK list \in Entries : list = Configured(i)
      BY <2>1, <3>1, ConfiguredType DEF TypeInv
    <3>3. /\ list[k] # NoPeer =>
                \E p \in OnIface(i) : peers[p].enabled /\ peers[p].key = k /\ peers[p].ip = list[k]
          /\ \A p \in OnIface(i) : peers[p].enabled => list[peers[p].key] # NoPeer
      BY <2>1, <3>1, <3>2, ConfiguredType DEF TypeInv
    <3>4. CASE list[k] # NoPeer
      <4>1. PICK p \in OnIface(i) : peers[p].enabled /\ peers[p].key = k /\ peers[p].ip = list[k]
        BY <3>3, <3>4
      <4> QED BY <2>3, <2>5, <3>2, <4>1 DEF Served, Claims, OnIface, Live
    <3>5. CASE list[k] = NoPeer
      <4>1. \A p \in PeerIds : ~Claims(p, i, k)
        BY <3>3, <3>5 DEF Claims
      <4> QED BY <2>3, <3>2, <3>5, <4>1 DEF Backed
    <3> QED BY <3>4, <3>5
  <2> QED BY <2>4, <2>5
<1> QED BY <1>1, KernelInit, KernelNext, PTL DEF Spec
=============================================================================
