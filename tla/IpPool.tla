------------------------------- MODULE IpPool -------------------------------
(***************************************************************************)
(* The addresses of one interface's peers: next_free_ipv4,                 *)
(* ensure_no_conflict and max_prefix                                       *)
(* (crates/wireforge-core/src/application/services/peer.rs) on networks    *)
(* with their prefix lengths.  Bits stands for the 32 of IPv4.             *)
(***************************************************************************)
EXTENDS Integers

CONSTANTS
    Bits,           \* width of an address
    Cidrs,          \* networks the interface may have
    Peers,          \* peers of the interface
    ManualLens,     \* prefix lengths that are typed by hand
    NoNet           \* the peer does not exist

Net == [addr : 0..2^Bits - 1, len : 0..Bits]

ASSUME CidrsAssumption == Bits \in Nat \ {0} /\ Cidrs \subseteq Net /\ ManualLens \subseteq 0..Bits
ASSUME NoNetAssumption == NoNet \notin Net

VARIABLES
    cidr,           \* ipv4_cidr of the interface
    nets,           \* the allowed IP of each peer
    last            \* history: the last step: "auto", "full" (IpPoolExhausted) or "manual"

vars == <<cidr, nets, last>>

TypeOK ==
    /\ cidr \in Cidrs
    /\ nets \in [Peers -> Net \cup {NoNet}]
    /\ last \in {"auto", "full", "manual"}

\* IpNet of the ipnet crate
size(n) == 2^(Bits - n.len)
network(n) == n.addr - (n.addr % size(n))
broadcast(n) == network(n) + size(n) - 1

\* The hosts in order: a /31 and a /32 have no network and broadcast address.
hosts(n) ==
    LET lo == IF n.len < Bits - 1 THEN network(n) + 1 ELSE network(n)
        hi == IF n.len < Bits - 1 THEN broadcast(n) - 1 ELSE broadcast(n)
    IN  [i \in 1..(hi - lo + 1) |-> lo + i - 1]

Init ==
    /\ cidr \in Cidrs
    /\ nets = [p \in Peers |-> NoNet]
    /\ last = "manual"

Existing == {p \in Peers : nets[p] # NoNet}

\* The prefix length of a single host
max_prefix == Bits

\* The network() of every peer
used == {network(nets[p]) : p \in Existing}

\* Mutant: skips two hosts.
SkipsTwo == {i \in DOMAIN hosts(cidr) : i > 2 /\ hosts(cidr)[i] \notin used}

\* Mutant: skips none.
SkipsNone == {i \in DOMAIN hosts(cidr) : hosts(cidr)[i] \notin used}

\* The places in hosts() that skip(1) leaves and whose host no peer uses: find() takes the first.
Candidates == {i \in DOMAIN hosts(cidr) : i > 1 /\ hosts(cidr)[i] \notin used}

\* Mutant: no check.
NoCheck(net, p) == TRUE

\* The wanted network is none of the others', compared with its host bits and length.
ensure_no_conflict(net, p) == \A q \in Existing \ {p} : nets[q] # net

-----------------------------------------------------------------------------
\* create without allowed_ips
Allocate(p) ==
    /\ nets[p] = NoNet
    /\ \/ /\ \E i \in Candidates :
                /\ \A j \in Candidates : i <= j
                /\ nets' = [nets EXCEPT ![p] = [addr |-> hosts(cidr)[i], len |-> max_prefix]]
          /\ last' = "auto"
       \/ /\ Candidates = {}
          /\ last' = "full"
          /\ UNCHANGED nets
    /\ UNCHANGED cidr

\* create or update with allowed_ips
Assign(p) ==
    /\ \E net \in [addr : 0..2^Bits - 1, len : ManualLens] :
          /\ ensure_no_conflict(net, p)
          /\ nets' = [nets EXCEPT ![p] = net]
    /\ last' = "manual"
    /\ UNCHANGED cidr

Remove(p) ==
    /\ p \in Existing
    /\ nets' = [nets EXCEPT ![p] = NoNet]
    /\ last' = "manual"
    /\ UNCHANGED cidr

Next == \E p \in Peers : Allocate(p) \/ Assign(p) \/ Remove(p)

Spec == Init /\ [][Next]_vars

-----------------------------------------------------------------------------
Covers(n) == network(n)..broadcast(n)

(***************************************************************************)
(* As long as only single hosts are typed by hand, allocation and conflict *)
(* check together keep the addresses of any two peers apart.               *)
(***************************************************************************)
Disjoint ==
    ManualLens = {max_prefix} => \A p, q \in Existing : p # q => Covers(nets[p]) \cap Covers(nets[q]) = {}

(***************************************************************************)
(* The allocator never hands out the address interface_up gives the link   *)
(* itself (network() of its CIDR), nor the broadcast address of a network  *)
(* that has one, down to a /31 and a /32, and it leaves no gap: of two     *)
(* hosts that no peer has, the lower one goes first.                       *)
(***************************************************************************)
InOrder ==
    \A p \in Peers : (nets'[p] # nets[p] /\ last' = "auto") =>
        LET host == nets'[p].addr IN
        /\ host \in Covers(cidr) \ {network(cidr)}
        /\ cidr.len < Bits - 1 => host # broadcast(cidr)
        /\ \A a \in network(cidr) + 2..host - 1 : \E q \in Existing : network(nets[q]) = a

AllocatesInOrder == [][InOrder]_vars

(***************************************************************************)
(* IpPoolExhausted is reported only when every address is taken that is    *)
(* neither the network's, its broadcast's nor the one put by for the       *)
(* server; a freed address is found again.                                 *)
(***************************************************************************)
ExhaustedWhenFull ==
    last = "full" =>
        \A a \in Covers(cidr) :
            \/ a = network(cidr)
            \/ cidr.len < Bits - 1 /\ a \in {network(cidr) + 1, broadcast(cidr)}
            \/ \E p \in Existing : a \in Covers(nets[p])
=============================================================================
