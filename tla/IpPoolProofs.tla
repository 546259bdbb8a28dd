---------------------------- MODULE IpPoolProofs ----------------------------
(***************************************************************************)
(* Proofs about IpPool, for every width of an address and every CIDR: the  *)
(* allocated addresses are addresses of the width (the arithmetic of       *)
(* network() and broadcast() does not leave it), AllocatesInOrder,         *)
(* ExhaustedWhenFull and Disjoint.                                         *)
(***************************************************************************)
EXTENDS IpPool, FiniteSetTheorems, WellFoundedInduction, TLAPS

-----------------------------------------------------------------------------
Below == OpToRel(<, Nat)

\* The order of the naturals is well-founded.
LEMMA BelowWellFounded == IsWellFoundedOn(Below, Nat)
BY NatLessThanWellFounded, Zenon DEF Below

\* A set of naturals with a member has a least one.
LEMMA LeastNat ==
    ASSUME NEW S, S \subseteq Nat, S # {}
    PROVE  \E x \in S : \A y \in S : x <= y
<1>1. PICK x \in S : \A y \in S : ~(<<y, x>> \in Below)
  BY BelowWellFounded, WFMin
<1>2. \A y \in S : <<y, x>> \in Below <=> y < x
  BY DEF Below, OpToRel
<1>3. \A y \in S : y \in Nat /\ x \in Nat /\ ~(y < x)
  BY <1>1, <1>2
<1> QED BY <1>3

-----------------------------------------------------------------------------
(***************************************************************************)
(* Powers of two: 2^n counts the subsets of 1..n.                          *)
(***************************************************************************)

\* The subsets of 1..n are finitely many, 2^n.
LEMMA PowerCounts ==
    ASSUME NEW n \in Nat
    PROVE  IsFiniteSet(SUBSET (1..n)) /\ Cardinality(SUBSET (1..n)) = 2^n
<1> DEFINE S == 1..n
<1>1. IsFiniteSet(S) /\ Cardinality(S) = n
  <2>1. IsFiniteSet(S) /\ Cardinality(S) = IF 1 > n THEN 0 ELSE n - 1 + 1
    BY FS_Interval
  <2> QED BY <2>1
<1> HIDE DEF S
<1>2. IsFiniteSet(SUBSET S) /\ Cardinality(SUBSET S) = 2^n
  BY <1>1, FS_SUBSET
<1> QED BY <1>2 DEF S

\* A power of two is a positive natural number.
LEMMA PowerPositive ==
    ASSUME NEW n \in Nat
    PROVE  2^n \in Nat \ {0}
<1> DEFINE P == SUBSET (1..n)
<1>1. IsFiniteSet(P) /\ Cardinality(P) = 2^n
  BY PowerCounts
<1>2. {} \in P
  OBVIOUS
<1> HIDE DEF P
<1>3. Cardinality(P) \in Nat
  BY <1>1, FS_CardinalityType
<1>4. Cardinality(P) # 0
  BY <1>1, <1>2, FS_EmptySet
<1> QED BY <1>1, <1>3, <1>4

\* One more bit doubles it: a subset of 1..n+1 holds n+1 or it does not.
LEMMA PowerDoubles ==
    ASSUME NEW n \in Nat
    PROVE  2^(n + 1) = 2 * 2^n
<1> DEFINE P == SUBSET (1..n)
           Q == {s \in SUBSET (1..n + 1) : n + 1 \in s}
           f == [s \in P |-> s \cup {n + 1}]
<1>1. IsFiniteSet(P) /\ Cardinality(P) = 2^n
  BY PowerCounts
<1>2. Cardinality(SUBSET (1..n + 1)) = 2^(n + 1)
  BY PowerCounts
<1>3. 1..n + 1 = (1..n) \cup {n + 1} /\ n + 1 \notin 1..n
  OBVIOUS
<1>4. SUBSET (1..n + 1) = P \cup Q
  <2>1. ASSUME NEW s \in SUBSET (1..n + 1), n + 1 \notin s PROVE s \in P
    BY <1>3, <2>1
  <2>2. P \subseteq SUBSET (1..n + 1)
    BY <1>3
  <2> QED BY <2>1, <2>2
<1>5. P \cap Q = {}
  BY <1>3
<1>6. f \in Bijection(P, Q)
  <2>1. f \in [P -> Q]
    BY <1>3
  <2>2. ASSUME NEW s \in P, NEW t \in P, f[s] = f[t] PROVE s = t
    <3>1. s \cup {n + 1} = t \cup {n + 1} /\ n + 1 \notin s /\ n + 1 \notin t
      BY <1>3, <2>2
    <3> QED BY <3>1
  <2>3. ASSUME NEW t \in Q PROVE \E s \in P : f[s] = t
    <3>1. t \ {n + 1} \in P /\ (t \ {n + 1}) \cup {n + 1} = t
      BY <1>3
    <3> QED BY <3>1
  <2> HIDE DEF P, Q, f
  <2> QED BY <2>1, <2>2, <2>3 DEF Bijection, Injection, Surjection, IsInjective
<1>7. IsFiniteSet(Q) /\ Cardinality(Q) = 2^n
  <2>1. ExistsBijection(P, Q)
    BY <1>6 DEF ExistsBijection
  <2> HIDE DEF P, Q
  <2> QED BY <1>1, <2>1, FS_Bijection
<1>8. Cardinality(P \cup Q) = 2^n + 2^n
  <2> HIDE DEF P, Q
  <2>1. Cardinality(P \cup Q) = Cardinality(P) + Cardinality(Q) - Cardinality(P \cap Q)
    BY <1>1, <1>7, FS_Union
  <2>2. Cardinality(P \cap Q) = 0
    BY <1>5, FS_EmptySet
  <2> QED BY <1>1, <1>7, <2>1, <2>2, PowerPositive
<1>9. 2^n \in Nat
  BY PowerPositive
<1> HIDE DEF P, Q, f
<1>10. 2^(n + 1) = 2^n + 2^n
  BY <1>2, <1>4, <1>8, Zenon
<1>11. 2^n + 2^n = 2 * 2^n
  BY <1>9
<1> QED BY <1>10, <1>11, Zenon

\* Widths add up as sizes multiply; by the least n that would break it.
LEMMA PowerAdds ==
    ASSUME NEW m \in Nat, NEW n \in Nat
    PROVE  2^(m + n) = 2^m * 2^n
<1> DEFINE Bad == {k \in Nat : 2^(m + k) # 2^m * 2^k}
<1>1. SUFFICES Bad = {}
  OBVIOUS
<1>2. SUFFICES ASSUME Bad # {} PROVE FALSE
  OBVIOUS
<1>3. PICK k \in Bad : \A j \in Bad : k <= j
  BY <1>2, LeastNat
<1>4. k # 0
  <2>1. 2^0 = 1 /\ m + 0 = m
    OBVIOUS
  <2>2. 2^m \in Nat
    BY PowerPositive
  <2>3. 2^(m + 0) = 2^m * 2^0
    BY <2>1, <2>2
  <2> QED BY <1>3, <2>3
<1>5. k - 1 \in Nat /\ k - 1 \notin Bad
  BY <1>3, <1>4
<1>6. 2^(m + (k - 1)) = 2^m * 2^(k - 1)
  BY <1>5
<1>7. 2^(m + k) = 2 * 2^(m + (k - 1))
  <2>1. m + (k - 1) \in Nat /\ (m + (k - 1)) + 1 = m + k
    BY <1>5
  <2> QED BY <2>1, PowerDoubles
<1>8. 2^k = 2 * 2^(k - 1)
  <2>1. (k - 1) + 1 = k
    BY <1>5
  <2> QED BY <1>5, <2>1, PowerDoubles
<1>9. 2^m * 2^k = 2 * (2^m * 2^(k - 1))
  BY <1>5, <1>8, PowerPositive
<1> QED BY <1>3, <1>6, <1>7, <1>9

-----------------------------------------------------------------------------
(***************************************************************************)
(* Networks and their hosts.                                               *)
(***************************************************************************)

\* Of the numbers below s * k, one rounded down to a multiple of s has its whole block below.
LEMMA BlockFits ==
    ASSUME NEW s \in Nat \ {0}, NEW k \in Nat, NEW a \in 0..k * s - 1
    PROVE  /\ a - (a % s) \in Nat
           /\ a - (a % s) <= a
           /\ a <= a - (a % s) + s - 1
           /\ a - (a % s) + s - 1 <= k * s - 1
<1>1. a \in Nat /\ a < k * s
  OBVIOUS
<1>2. a % s \in 0..s - 1 /\ a \div s \in Nat
  BY <1>1
<1>3. PICK r \in 0..s - 1, q \in Nat : r = a % s /\ q = a \div s
  BY <1>2
<1>4. a = s * q + r
  BY <1>1, <1>3
<1>5. q < k
  <2>1. SUFFICES ASSUME k <= q PROVE FALSE
    OBVIOUS
  <2>2. k * s <= q * s
    BY <2>1
  <2> QED BY <1>1, <1>4, <2>2
<1>6. (q + 1) * s <= k * s
  BY <1>5
<1>7. a - r = s * q /\ s * q \in Nat /\ (q + 1) * s = s * q + s
  BY <1>4
<1> QED BY <1>1, <1>3, <1>6, <1>7

\* A network has a size, and as many of its size as its prefix says fill the address space.
LEMMA Sizes ==
    ASSUME NEW n \in Net
    PROVE  /\ size(n) \in Nat \ {0}
           /\ 2^n.len \in Nat \ {0}
           /\ 2^n.len * size(n) = 2^Bits
<1>1. n.len \in Nat /\ Bits - n.len \in Nat /\ n.len + (Bits - n.len) = Bits
  BY CidrsAssumption DEF Net
<1>2. 2^(Bits - n.len) \in Nat \ {0} /\ 2^n.len \in Nat \ {0}
  BY <1>1, PowerPositive
<1>3. 2^(n.len + (Bits - n.len)) = 2^n.len * 2^(Bits - n.len)
  BY <1>1, PowerAdds
<1> QED BY <1>1, <1>2, <1>3 DEF size

\* A network lies around its address, from network() to broadcast(), inside the address space.
LEMMA NetworkAround ==
    ASSUME NEW n \in Net
    PROVE  /\ network(n) \in Nat
           /\ broadcast(n) \in Nat
           /\ network(n) <= n.addr
           /\ n.addr <= broadcast(n)
           /\ broadcast(n) <= 2^Bits - 1
<1>1. PICK s \in Nat \ {0}, k \in Nat \ {0} : s = size(n) /\ k = 2^n.len /\ k * s = 2^Bits
  BY Sizes
<1>2. n.addr \in 0..k * s - 1
  BY <1>1 DEF Net
<1>3. /\ n.addr - (n.addr % s) \in Nat
      /\ n.addr - (n.addr % s) <= n.addr
      /\ n.addr <= n.addr - (n.addr % s) + s - 1
      /\ n.addr - (n.addr % s) + s - 1 <= k * s - 1
  BY <1>2, BlockFits
<1>4. network(n) = n.addr - (n.addr % s) /\ broadcast(n) = network(n) + s - 1
  BY <1>1 DEF network, broadcast
<1>5. broadcast(n) \in Int /\ 0 <= broadcast(n)
  BY <1>3, <1>4
<1> QED BY <1>1, <1>3, <1>4, <1>5

\* A single host's network is its address.
LEMMA SingleHost ==
    ASSUME NEW n \in Net, n.len = Bits
    PROVE  network(n) = n.addr /\ Covers(n) = {n.addr}
<1>1. size(n) = 1
  <2>1. Bits - n.len = 0 /\ 2^0 = 1
    BY CidrsAssumption
  <2> QED BY <2>1, Zenon DEF size
<1>2. network(n) \in Nat /\ broadcast(n) = network(n)
  BY <1>1, NetworkAround DEF broadcast
<1>3. network(n) = n.addr
  BY <1>2, NetworkAround DEF Net
<1>4. network(n)..broadcast(n) = {n.addr}
  BY <1>2, <1>3
<1> QED BY <1>3, <1>4 DEF Covers

\* The first and the last of hosts(n)
FirstHost(n) == IF n.len < Bits - 1 THEN network(n) + 1 ELSE network(n)
LastHost(n) == IF n.len < Bits - 1 THEN broadcast(n) - 1 ELSE broadcast(n)

\* Where each host stands: the address a is the host number a - FirstHost(n) + 1.
LEMMA HostPlaces ==
    ASSUME NEW n \in Net
    PROVE  /\ FirstHost(n) \in Nat
           /\ LastHost(n) \in Int
           /\ DOMAIN hosts(n) = 1..LastHost(n) - FirstHost(n) + 1
           /\ \A i \in DOMAIN hosts(n) :
                 /\ i \in Nat
                 /\ hosts(n)[i] = FirstHost(n) + i - 1
                 /\ hosts(n)[i] <= LastHost(n)
<1>1. FirstHost(n) \in Nat /\ LastHost(n) \in Int
  BY NetworkAround DEF FirstHost, LastHost
<1>2. hosts(n) = [i \in 1..LastHost(n) - FirstHost(n) + 1 |-> FirstHost(n) + i - 1]
  BY DEF hosts, FirstHost, LastHost
<1> QED BY <1>1, <1>2

-----------------------------------------------------------------------------
(***************************************************************************)
(* What is free.                                                           *)
(***************************************************************************)

\* A candidate is a host that no peer uses, past the first.
LEMMA CandidateHosts ==
    ASSUME cidr \in Net, NEW i \in Candidates
    PROVE  /\ i \in Nat
           /\ i > 1
           /\ hosts(cidr)[i] = FirstHost(cidr) + i - 1
           /\ hosts(cidr)[i] <= LastHost(cidr)
           /\ hosts(cidr)[i] \notin used
<1>1. i \in DOMAIN hosts(cidr) /\ i > 1 /\ hosts(cidr)[i] \notin used
  BY DEF Candidates
<1> QED BY <1>1, HostPlaces

\* An address past the first host and up to the last is a candidate, unless a peer uses it.
LEMMA FreeHosts ==
    ASSUME cidr \in Net, NEW a \in Int, FirstHost(cidr) < a, a <= LastHost(cidr), a \notin used
    PROVE  a - FirstHost(cidr) + 1 \in Candidates
<1> DEFINE i == a - FirstHost(cidr) + 1
<1>1. i \in DOMAIN hosts(cidr) /\ i > 1
  BY HostPlaces
<1>2. hosts(cidr)[i] = FirstHost(cidr) + i - 1
  BY <1>1, HostPlaces
<1>3. hosts(cidr)[i] = a
  BY <1>1, <1>2, HostPlaces
<1> HIDE DEF i
<1>4. i \in Candidates
  BY <1>1, <1>3 DEF Candidates
<1> QED BY <1>4 DEF i

\* A candidate is an address of the interface's network, other than its first and its last
\* if the network has those two of its own.
LEMMA CandidateInside ==
    ASSUME cidr \in Net, NEW i \in Candidates
    PROVE  /\ hosts(cidr)[i] \in 0..2^Bits - 1
           /\ hosts(cidr)[i] \in Covers(cidr) \ {network(cidr)}
           /\ cidr.len < Bits - 1 => hosts(cidr)[i] # broadcast(cidr)
<1>1. PICK h \in Int : h = hosts(cidr)[i] /\ FirstHost(cidr) < h /\ h <= LastHost(cidr)
  <2>1. FirstHost(cidr) \in Nat
    BY HostPlaces
  <2> QED BY <2>1, CandidateHosts
<1>2. /\ network(cidr) \in Nat /\ broadcast(cidr) \in Nat
      /\ 2^Bits \in Nat
      /\ broadcast(cidr) <= 2^Bits - 1
  BY NetworkAround, PowerPositive, CidrsAssumption
<1>3. network(cidr) < h /\ h <= broadcast(cidr) /\ (cidr.len < Bits - 1 => h # broadcast(cidr))
  BY <1>1, <1>2 DEF FirstHost, LastHost
<1> QED BY <1>1, <1>2, <1>3 DEF Covers

-----------------------------------------------------------------------------
(***************************************************************************)
(* Type correctness: in particular no allocated address leaves the width.  *)
(***************************************************************************)

THEOREM PoolTypes == Spec => []TypeOK
<1>1. Init => TypeOK
  BY DEF Init, TypeOK
<1>2. TypeOK /\ [Next]_vars => TypeOK'
  <2> SUFFICES ASSUME TypeOK, [Next]_vars PROVE TypeOK'
    OBVIOUS
  <2>1. cidr \in Net
    BY CidrsAssumption DEF TypeOK
  <2>2. ASSUME NEW p \in Peers, Allocate(p) PROVE TypeOK'
    <3>1. CASE last' = "full" /\ UNCHANGED <<nets, cidr>>
      BY <3>1 DEF TypeOK
    <3>2. CASE \E i \in Candidates : nets' = [nets EXCEPT ![p] = [addr |-> hosts(cidr)[i], len |-> max_prefix]]
      <4>1. PICK i \in Candidates : nets' = [nets EXCEPT ![p] = [addr |-> hosts(cidr)[i], len |-> max_prefix]]
        BY <3>2
      <4>2. hosts(cidr)[i] \in 0..2^Bits - 1
        BY <2>1, CandidateInside
      <4>3. max_prefix \in 0..Bits
        BY CidrsAssumption DEF max_prefix
      <4>4. [addr |-> hosts(cidr)[i], len |-> max_prefix] \in Net
        BY <4>2, <4>3 DEF Net
      <4>5. nets' \in [Peers -> Net \cup {NoNet}]
        BY <4>1, <4>4 DEF TypeOK
      <4>6. last' \in {"auto", "full", "manual"} /\ cidr' = cidr
        BY <2>2 DEF Allocate
      <4> QED BY <4>5, <4>6 DEF TypeOK
    <3> QED BY <2>2, <3>1, <3>2 DEF Allocate
  <2>3. ASSUME NEW p \in Peers, Assign(p) PROVE TypeOK'
    <3>1. PICK net \in [addr : 0..2^Bits - 1, len : ManualLens] : nets' = [nets EXCEPT ![p] = net]
      BY <2>3 DEF Assign
    <3>2. net \in Net
      BY CidrsAssumption DEF Net
    <3>3. nets' \in [Peers -> Net \cup {NoNet}]
      BY <3>1, <3>2 DEF TypeOK
    <3> QED BY <2>3, <3>3 DEF Assign, TypeOK
  <2>4. ASSUME NEW p \in Peers, Remove(p) PROVE TypeOK'
    BY <2>4 DEF Remove, TypeOK
  <2>5. CASE UNCHANGED vars
    BY <2>5 DEF vars, TypeOK
  <2> QED BY <2>2, <2>3, <2>4, <2>5 DEF Next
<1> QED BY <1>1, <1>2, PTL DEF Spec

-----------------------------------------------------------------------------
(***************************************************************************)
(* The allocator.                                                          *)
(***************************************************************************)

\* The lowest candidate has no free host below it, but the two put by.
LEMMA LowestLeavesNoGap ==
    ASSUME cidr \in Net, NEW i \in Candidates, \A j \in Candidates : i <= j,
           NEW a \in network(cidr) + 2..hosts(cidr)[i] - 1
    PROVE  \E q \in Existing : network(nets[q]) = a
<1>1. /\ network(cidr) \in Nat
      /\ FirstHost(cidr) \in Nat
      /\ FirstHost(cidr) <= network(cidr) + 1
      /\ LastHost(cidr) \in Int
  BY NetworkAround, HostPlaces DEF FirstHost
<1>2. /\ i \in Nat
      /\ hosts(cidr)[i] = FirstHost(cidr) + i - 1
      /\ hosts(cidr)[i] <= LastHost(cidr)
  BY CandidateHosts
<1>3. a \in Int /\ FirstHost(cidr) < a /\ a <= LastHost(cidr) /\ a - FirstHost(cidr) + 1 < i
  BY <1>1, <1>2
<1>4. a \in used
  <2>1. SUFFICES ASSUME a \notin used PROVE FALSE
    OBVIOUS
  <2>2. a - FirstHost(cidr) + 1 \in Candidates
    BY <1>3, <2>1, FreeHosts
  <2> QED BY <1>1, <1>2, <1>3, <2>2
<1> QED BY <1>4 DEF used

(* An allocated address is inside the network, is neither its first nor    *)
(* its broadcast address, and is the lowest that is free; for every width, *)
(* every CIDR down to a /31 and a /32, and whatever was typed by hand.     *)
THEOREM LowestFirst == Spec => AllocatesInOrder
<1>1. TypeOK /\ [Next]_vars => [InOrder]_vars
  <2> SUFFICES ASSUME TypeOK, Next, NEW p \in Peers, nets'[p] # nets[p], last' = "auto"
               PROVE  /\ nets'[p].addr \in Covers(cidr) \ {network(cidr)}
                      /\ cidr.len < Bits - 1 => nets'[p].addr # broadcast(cidr)
                      /\ \A a \in network(cidr) + 2..nets'[p].addr - 1 :
                            \E q \in Existing : network(nets[q]) = a
    BY DEF InOrder
  <2>1. cidr \in Net
    BY CidrsAssumption DEF TypeOK
  <2>2. PICK r \in Peers : Allocate(r)
    BY DEF Next, Assign, Remove
  <2>3. PICK i \in Candidates :
           /\ \A j \in Candidates : i <= j
           /\ nets' = [nets EXCEPT ![r] = [addr |-> hosts(cidr)[i], len |-> max_prefix]]
    BY <2>2 DEF Allocate
  <2>4. nets'[p].addr = hosts(cidr)[i]
    BY <2>3 DEF TypeOK
  <2>5. /\ hosts(cidr)[i] \in Covers(cidr) \ {network(cidr)}
        /\ cidr.len < Bits - 1 => hosts(cidr)[i] # broadcast(cidr)
    BY <2>1, CandidateInside
  <2>6. \A a \in network(cidr) + 2..hosts(cidr)[i] - 1 : \E q \in Existing : network(nets[q]) = a
    BY <2>1, <2>3, LowestLeavesNoGap
  <2> QED BY <2>4, <2>5, <2>6
<1> QED BY <1>1, PoolTypes, PTL DEF Spec, AllocatesInOrder

-----------------------------------------------------------------------------
(***************************************************************************)
(* The exhausted pool.                                                     *)
(***************************************************************************)

\* The network of any peer holds the address that `used` has of it.
LEMMA UsedIsCovered ==
    ASSUME TypeOK, NEW a \in used
    PROVE  \E p \in Existing : a \in Covers(nets[p])
<1>1. PICK p \in Existing : a = network(nets[p])
  BY DEF used
<1>2. nets[p] \in Net
  BY DEF TypeOK, Existing
<1>3. network(nets[p]) \in network(nets[p])..broadcast(nets[p])
  <2>1. nets[p].addr \in Int
    BY <1>2 DEF Net
  <2> QED BY <1>2, <2>1, NetworkAround
<1> QED BY <1>1, <1>3 DEF Covers

\* When nothing is free, every address the server leaves to the peers is one of theirs.
LEMMA NothingFree ==
    ASSUME TypeOK, Candidates = {}, NEW a \in Covers(cidr), a # network(cidr),
           ~(cidr.len < Bits - 1 /\ a \in {network(cidr) + 1, broadcast(cidr)})
    PROVE  \E p \in Existing : a \in Covers(nets[p])
<1>1. cidr \in Net
  BY CidrsAssumption DEF TypeOK
<1>2. network(cidr) \in Nat /\ broadcast(cidr) \in Nat
  BY <1>1, NetworkAround
<1>3. a \in Int /\ network(cidr) < a /\ a <= broadcast(cidr)
  BY <1>2 DEF Covers
<1>4. FirstHost(cidr) < a /\ a <= LastHost(cidr)
  BY <1>2, <1>3 DEF FirstHost, LastHost
<1>5. a \in used
  BY <1>1, <1>3, <1>4, FreeHosts
<1> QED BY <1>5, UsedIsCovered

\* What a report of exhaustion says of the state it leaves.
FullMeansNone == last = "full" => Candidates = {}

\* Only a search that found nothing reports exhaustion, and it changes nothing.
LEMMA FullStep == FullMeansNone /\ [Next]_vars => FullMeansNone'
<1> SUFFICES ASSUME FullMeansNone, [Next]_vars, last' = "full" PROVE Candidates' = {}
  BY DEF FullMeansNone
<1>1. Candidates = {} /\ UNCHANGED <<nets, cidr>>
  <2>1. ASSUME NEW p \in Peers, Allocate(p) PROVE Candidates = {} /\ UNCHANGED <<nets, cidr>>
    BY <2>1 DEF Allocate
  <2>2. CASE UNCHANGED vars
    BY <2>2 DEF vars, FullMeansNone
  <2> QED BY <2>1, <2>2 DEF Next, Assign, Remove
<1>2. Candidates' = Candidates
  BY <1>1 DEF Candidates, used, Existing, hosts, network, broadcast, size
<1> QED BY <1>1, <1>2

(* IpPoolExhausted is reported of a full pool only: for every width, every *)
(* CIDR and every history of allocating, assigning and removing.           *)
THEOREM ExhaustedOnlyWhenFull == Spec => []ExhaustedWhenFull
<1>1. Init => FullMeansNone
  BY DEF Init, FullMeansNone
<1>2. TypeOK /\ FullMeansNone => ExhaustedWhenFull
  BY NothingFree DEF FullMeansNone, ExhaustedWhenFull
<1> QED BY <1>1, <1>2, FullStep, PoolTypes, PTL DEF Spec

-----------------------------------------------------------------------------
(***************************************************************************)
(* Addresses apart.  The conflict check compares networks with their host  *)
(* bits and lengths, the allocator compares the network()s only; what      *)
(* makes both right is that every network is a single host, so an address  *)
(* is one peer's.                                                          *)
(***************************************************************************)
SingleHosts == \A p \in Existing : nets[p].len = Bits

OneOwner == \A p, q \in Existing : nets[p].addr = nets[q].addr => p = q

Apart == TypeOK /\ SingleHosts /\ OneOwner

\* One peer changes its network to a single host that no other has, or loses it.
Moves(p, net) ==
    /\ net = NoNet \/ (net \in Net /\ net.len = Bits /\ \A q \in Existing \ {p} : nets[q].addr # net.addr)
    /\ nets' = [nets EXCEPT ![p] = net]

LEMMA MovesApart ==
    ASSUME Apart, TypeOK', NEW r \in Peers, NEW net, Moves(r, net)
    PROVE  Apart'
<1>1. \A p \in Peers : nets'[p] = IF p = r THEN net ELSE nets[p]
  BY DEF Moves, Apart, TypeOK
<1>2. \A p \in Existing' : p \in Peers /\ (p # r => p \in Existing)
  BY <1>1 DEF Existing
<1>3. r \in Existing' => net.len = Bits /\ \A q \in Existing \ {r} : nets[q].addr # net.addr
  BY <1>1 DEF Existing, Moves
<1>4. SingleHosts'
  <2> SUFFICES ASSUME NEW p \in Existing' PROVE nets'[p].len = Bits
    BY DEF SingleHosts
  <2>1. CASE p = r
    BY <1>1, <1>2, <1>3, <2>1
  <2>2. CASE p # r
    BY <1>1, <1>2, <2>2 DEF Apart, SingleHosts
  <2> QED BY <2>1, <2>2
<1>5. OneOwner'
  <2> SUFFICES ASSUME NEW p \in Existing', NEW q \in Existing', nets'[p].addr = nets'[q].addr, p # q
               PROVE  FALSE
    BY DEF OneOwner
  <2>1. CASE p = r
    BY <1>1, <1>2, <1>3, <2>1
  <2>2. CASE q = r
    BY <1>1, <1>2, <1>3, <2>2
  <2>3. CASE p # r /\ q # r
    BY <1>1, <1>2, <2>3 DEF Apart, OneOwner
  <2> QED BY <2>1, <2>2, <2>3
<1> QED BY <1>4, <1>5 DEF Apart

\* The allocator's host is nobody's address.
LEMMA AllocateMoves ==
    ASSUME Apart, NEW p \in Peers, Allocate(p), ~UNCHANGED nets
    PROVE  \E net : Moves(p, net)
<1>1. PICK i \in Candidates : nets' = [nets EXCEPT ![p] = [addr |-> hosts(cidr)[i], len |-> max_prefix]]
  BY DEF Allocate
<1>2. cidr \in Net /\ Bits \in 0..Bits
  BY CidrsAssumption DEF Apart, TypeOK
<1>3. PICK net : net = [addr |-> hosts(cidr)[i], len |-> Bits]
  OBVIOUS
<1>4. net \in Net /\ net.len = Bits /\ net.addr = hosts(cidr)[i]
  BY <1>2, <1>3, CandidateInside DEF Net
<1>5. ASSUME NEW q \in Existing PROVE nets[q].addr # net.addr
  <2>1. nets[q] \in Net /\ nets[q].len = Bits
    BY DEF Apart, TypeOK, SingleHosts, Existing
  <2>2. network(nets[q]) = nets[q].addr
    BY <2>1, SingleHost
  <2>3. nets[q].addr \in used
    BY <2>2 DEF used
  <2> QED BY <1>2, <1>4, <2>3, CandidateHosts
<1> QED BY <1>1, <1>3, <1>4, <1>5 DEF Moves, max_prefix

\* A single host that passes the conflict check is nobody else's address.
LEMMA AssignMoves ==
    ASSUME Apart, ManualLens = {max_prefix}, NEW p \in Peers, Assign(p)
    PROVE  \E net : Moves(p, net)
<1>1. PICK net \in [addr : 0..2^Bits - 1, len : ManualLens] :
         ensure_no_conflict(net, p) /\ nets' = [nets EXCEPT ![p] = net]
  BY DEF Assign
<1>2. net = [addr |-> net.addr, len |-> Bits] /\ net \in Net /\ net.len = Bits
  BY CidrsAssumption DEF max_prefix, Net
<1>3. ASSUME NEW q \in Existing \ {p} PROVE nets[q].addr # net.addr
  <2>1. nets[q] \in Net /\ nets[q].len = Bits
    BY DEF Apart, TypeOK, SingleHosts, Existing
  <2>2. nets[q] = [addr |-> nets[q].addr, len |-> Bits]
    BY <2>1 DEF Net
  <2> QED BY <1>1, <1>2, <2>2 DEF ensure_no_conflict
<1> QED BY <1>1, <1>2, <1>3 DEF Moves

\* As long as only single hosts are typed by hand, every step keeps the addresses apart.
LEMMA ApartStep == ManualLens = {max_prefix} /\ Apart /\ [Next]_vars /\ TypeOK' => Apart'
<1> SUFFICES ASSUME ManualLens = {max_prefix}, Apart, [Next]_vars, TypeOK' PROVE Apart'
  OBVIOUS
<1>1. CASE UNCHANGED nets
  BY <1>1 DEF Apart, SingleHosts, OneOwner, Existing
<1>2. ASSUME NEW p \in Peers, Allocate(p), ~UNCHANGED nets PROVE Apart'
  BY <1>2, AllocateMoves, MovesApart
<1>3. ASSUME NEW p \in Peers, Assign(p) PROVE Apart'
  BY <1>3, AssignMoves, MovesApart
<1>4. ASSUME NEW p \in Peers, Remove(p) PROVE Apart'
  BY <1>4, MovesApart DEF Remove, Moves
<1> QED BY <1>1, <1>2, <1>3, <1>4 DEF Next, vars

(* No address is covered by the networks of two peers, as long as only     *)
(* single hosts are typed by hand.                                         *)
THEOREM PeersApart == Spec => []Disjoint
<1>1. Init => Apart \/ ~TypeOK
  BY DEF Init, Apart, SingleHosts, OneOwner, Existing
<1>2. Apart => Disjoint
  <2> SUFFICES ASSUME Apart, NEW p \in Existing, NEW q \in Existing, p # q
               PROVE  Covers(nets[p]) \cap Covers(nets[q]) = {}
    BY DEF Disjoint
  <2>1. \A r \in Existing : Covers(nets[r]) = {nets[r].addr}
    BY SingleHost DEF Apart, TypeOK, SingleHosts, Existing
  <2> QED BY <2>1 DEF Apart, OneOwner
<1>3. CASE ManualLens = {max_prefix}
  <2>1. Apart /\ [Next]_vars /\ TypeOK' => Apart'
    BY <1>3, ApartStep
  <2> QED BY <1>1, <1>2, <2>1, PoolTypes, PTL DEF Spec
<1>4. CASE ManualLens # {max_prefix}
  <2>1. TypeOK => Disjoint
    BY <1>4 DEF Disjoint
  <2> QED BY <2>1, PoolTypes, PTL
<1> QED BY <1>3, <1>4
=============================================================================
