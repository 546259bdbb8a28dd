------------------------ MODULE TrafficPollerProofs ------------------------
(***************************************************************************)
(* Proofs about TrafficPoller: its types, and that what PeerService keeps  *)
(* is kept with the poller as one more task that reads a row, awaits and   *)
(* writes the whole row back.                                              *)
(***************************************************************************)
EXTENDS TrafficPoller, PeerServiceProofs

-----------------------------------------------------------------------------
(* Types *)

PollerInv == TypeInv /\ PollerTypeOK

\* A step of the poller itself, of the packets or of the quota column.
PollStep ==
    \/ SetQuota \/ SwitchMetering \/ (\E i \in Ifaces, k \in Keys : Transfer(i, k)) \/ skip \/ poll_once

LEMMA SleepingType == Sleeping \in Poller
<1>1. Nobody \in [Keys -> 0..MaxBytes \cup {NoPeer}]
  BY DEF Nobody
<1>2. Nothing \in Rows
  BY DEF Nothing, Rows
<1> QED BY <1>1, <1>2, Constants DEF Sleeping, Poller

LEMMA NextIfaceType ==
    ASSUME NEW todo \in SUBSET Ifaces, NextIface(todo), traffic_enabled \in BOOLEAN
    PROVE  poll' \in Poller /\ poll'.pc \in {"sleep", "stats"} /\ poll'.rows = Nothing /\ poll'.stats = Nobody
<1>1. CASE todo = {}
  <2>1. poll' = [Sleeping EXCEPT !.on = traffic_enabled]
    BY <1>1 DEF NextIface
  <2>2. poll' \in Poller
    BY <2>1, SleepingType DEF Poller
  <2> QED BY <2>1, <2>2 DEF Sleeping
<1>2. CASE todo # {}
  <2>1. PICK i \in todo : i = CHOOSE j \in todo : TRUE
    BY <1>2
  <2>2. poll' = [Sleeping EXCEPT !.pc = "stats", !.iface = i, !.todo = todo \ {i}]
    BY <1>2, <2>1, Zenon DEF NextIface
  <2>3. poll' \in Poller
    BY <2>2, SleepingType DEF Poller
  <2> QED BY <2>2, <2>3 DEF Sleeping
<1> QED BY <1>1, <1>2

LEMMA SkipFacts ==
    ASSUME PollerInv, skip
    PROVE  /\ poll' \in Poller /\ poll'.pc = "sleep" /\ poll.pc = "sleep"
           /\ UNCHANGED <<vars, bytes, recorded, charted, carried>>
BY DEF skip, PollerInv, PollerTypeOK, Poller

LEMMA EntriesCountType ==
    ASSUME bytes \in [Ifaces -> Counters], EntriesCount
    PROVE  bytes' \in [Ifaces -> Counters] /\ \A i \in Ifaces, k \in Keys : bytes'[i][k] \in {0, bytes[i][k]}
BY BytesAssumption DEF EntriesCount, Counters

LEMMA MatchesProps ==
    ASSUME PollerInv, NEW k \in Keys, Matches(k) # {}
    PROVE  /\ Max(Matches(k)) \in PeerIds /\ poll.rows[Max(Matches(k))] # NoPeer
           /\ poll.rows[Max(Matches(k))].key = k
<1>1. Matches(k) \subseteq PeerIds /\ Matches(k) \subseteq Nat
  BY HostsAssumption DEF Matches
<1>2. IsFiniteSet(Matches(k))
  BY <1>1, FiniteAssumption, FS_Subset
<1>3. Max(Matches(k)) \in Matches(k)
  BY <1>1, <1>2, MaxProps
<1> QED BY <1>3 DEF Matches

(* The row that the poller will write *)
LEMMA DisabledRow ==
    ASSUME TypeOK, NEW p \in PeerIds, peers[p] # NoPeer, NEW row, row = [peers[p] EXCEPT !.enabled = FALSE]
    PROVE  /\ row \in Peer /\ row.iface = peers[p].iface /\ row.key = peers[p].key
           /\ row.sealed = peers[p].sealed
<1>1. PICK r \in Peer : r = peers[p]
  BY DEF TypeOK
<1> QED BY <1>1 DEF Peer

LEMMA StatsTypes ==
    ASSUME PollerInv, peer_stats
    PROVE  /\ poll' \in Poller
           /\ \/ NextIface(poll.todo)
              \/ /\ poll'.pc = "rows"
                 /\ \A k \in Keys : poll'.stats[k] # NoPeer =>
                       Admits(poll.iface, k) /\ poll'.stats[k] = bytes[poll.iface][k]
<1>0. poll \in Poller /\ bytes \in [Ifaces -> Counters] /\ traffic_enabled \in BOOLEAN
  BY DEF PollerInv, PollerTypeOK
<1>1. CASE NextIface(poll.todo)
  BY <1>0, <1>1, NextIfaceType DEF Poller
<1>2. CASE ~NextIface(poll.todo)
  <2>1. PICK s : s = [k \in Keys |-> IF Admits(poll.iface, k) THEN bytes[poll.iface][k] ELSE NoPeer]
    OBVIOUS
  <2>2. poll' = [poll EXCEPT !.pc = "rows", !.stats = s]
    BY <1>2, <2>1 DEF peer_stats
  <2>3. s \in [Keys -> 0..MaxBytes \cup {NoPeer}]
    BY <1>0, <2>1 DEF Counters, Poller
  <2>4. poll' \in Poller /\ poll'.pc = "rows" /\ poll'.stats = s
    BY <1>0, <2>2, <2>3 DEF Poller
  <2> QED BY <2>1, <2>4
<1> QED BY <1>1, <1>2

LEMMA RowsTypes ==
    ASSUME PollerInv, list_for_interface
    PROVE  /\ poll' \in Poller /\ poll'.pc = "record" /\ poll'.stats = poll.stats
           /\ \A p \in PeerIds : poll'.rows[p] # NoPeer => p \in Live /\ poll'.rows[p] = peers[p]
<1>0. poll \in Poller /\ TypeOK
  BY DEF PollerInv, PollerTypeOK
<1>1. PICK rows : rows = [p \in PeerIds |-> IF p \in OnIface(poll.iface) THEN peers[p] ELSE NoPeer]
  OBVIOUS
<1>2. poll' = [poll EXCEPT !.pc = "record", !.rows = rows]
  BY <1>1 DEF list_for_interface
<1>3. rows \in Rows
  BY <1>0, <1>1 DEF Rows, TypeOK
<1>4. poll' \in Poller /\ poll'.pc = "record" /\ poll'.stats = poll.stats /\ poll'.rows = rows
  BY <1>0, <1>2, <1>3 DEF Poller
<1> QED BY <1>1, <1>4 DEF OnIface

LEMMA ResumeType ==
    ASSUME poll \in Poller, Resume
    PROVE  poll' \in Poller /\ poll'.pc = "record" /\ poll'.stats = poll.stats /\ poll'.rows = poll.rows
<1>1. Sleeping.id \in PeerIds
  BY Constants DEF Sleeping
<1> QED BY <1>1, Constants DEF Resume, Poller

LEMMA FindTypes ==
    ASSUME PollerInv, find_by_id
    PROVE  /\ poll' \in Poller /\ poll'.stats = poll.stats /\ poll'.rows = poll.rows
           /\ \/ poll'.pc = "record"
              \/ \E p \in Live : /\ poll'.pc = "save" /\ poll'.row.iface = peers[p].iface
                                 /\ poll'.row.key = peers[p].key /\ poll'.row.sealed = peers[p].sealed
<1>0. poll \in Poller /\ TypeOK
  BY DEF PollerInv, PollerTypeOK
<1>1. CASE Resume
  BY <1>0, <1>1, ResumeType
<1>2. CASE ~Resume
  <2>1. PICK p \in PeerIds : p = poll.id
    BY <1>0 DEF Poller
  <2>2. PICK row : row = [peers[p] EXCEPT !.enabled = FALSE]
    OBVIOUS
  <2>3. p \in Live /\ poll' = [poll EXCEPT !.pc = "save", !.row = row]
    BY <1>2, <2>1, <2>2 DEF find_by_id, Live
  <2>4. row \in Peer /\ row.iface = peers[p].iface /\ row.key = peers[p].key /\ row.sealed = peers[p].sealed
    BY <1>0, <2>2, <2>3, DisabledRow DEF Live
  <2>5. /\ poll' \in Poller /\ poll'.stats = poll.stats /\ poll'.rows = poll.rows /\ poll'.pc = "save"
        /\ poll'.row = row
    BY <1>0, <2>3, <2>4 DEF Poller
  <2> QED BY <2>3, <2>4, <2>5
<1> QED BY <1>1, <1>2

(* What a recorded total is *)
LEMMA RecordFacts ==
    ASSUME PollerInv, Record
    PROVE  \/ NextIface(poll.todo) /\ UNCHANGED <<recorded, charted>>
           \/ /\ poll' \in Poller /\ poll'.rows = poll.rows /\ poll'.pc \in {"record", "find"}
              /\ \A k \in Keys : poll'.stats[k] # NoPeer => poll'.stats[k] = poll.stats[k]
              /\ \/ UNCHANGED <<recorded, charted>>
                 \/ \E p \in PeerIds, k \in Keys :
                       /\ poll.rows[p] # NoPeer /\ poll.rows[p].key = k /\ poll.stats[k] # NoPeer
                       /\ poll.stats[k] \in 0..MaxBytes
                       /\ charted' = charted \cup ({p} \cap Live)
                       /\ recorded' = [recorded EXCEPT ![p] = IF peers[p] = NoPeer THEN @ ELSE poll.stats[k]]
<1>0. poll \in Poller
  BY DEF PollerInv, PollerTypeOK
<1> SUFFICES ASSUME ~(NextIface(poll.todo) /\ UNCHANGED <<recorded, charted>>)
             PROVE  /\ poll' \in Poller /\ poll'.rows = poll.rows /\ poll'.pc \in {"record", "find"}
                    /\ \A k \in Keys : poll'.stats[k] # NoPeer => poll'.stats[k] = poll.stats[k]
                    /\ \/ UNCHANGED <<recorded, charted>>
                       \/ \E p \in PeerIds, k \in Keys :
                             /\ poll.rows[p] # NoPeer /\ poll.rows[p].key = k /\ poll.stats[k] # NoPeer
                             /\ poll.stats[k] \in 0..MaxBytes
                             /\ charted' = charted \cup ({p} \cap Live)
                             /\ recorded' = [recorded EXCEPT ![p] =
                                                IF peers[p] = NoPeer THEN @ ELSE poll.stats[k]]
  OBVIOUS
<1>1. PICK k \in Keys :
         /\ poll.stats[k] # NoPeer
         /\ \E rest : rest = [poll EXCEPT !.stats[k] = NoPeer] /\
               \/ Matches(k) = {} /\ poll' = rest /\ UNCHANGED <<recorded, charted>>
               \/ /\ Matches(k) # {}
                  /\ \E p : /\ p = Max(Matches(k))
                            /\ charted' = snapshot(p) /\ recorded' = record_bandwidth(p, poll.stats[k])
                            /\ poll' \in {[rest EXCEPT !.pc = "find", !.id = p], rest}
  <2>1. PICK k \in Keys :
           /\ poll.stats[k] # NoPeer
           /\ LET rest == [poll EXCEPT !.stats[k] = NoPeer] IN
              IF Matches(k) = {} THEN poll' = rest /\ UNCHANGED <<recorded, charted>>
              ELSE LET p == Max(Matches(k)) IN
                   /\ charted' = snapshot(p)
                   /\ recorded' = record_bandwidth(p, poll.stats[k])
                   /\ poll' = IF OverQuota(poll.rows[p], poll.stats[k])
                              THEN [rest EXCEPT !.pc = "find", !.id = p] ELSE rest
    BY DEF Record
  <2> QED BY <2>1
<1>2. PICK rest : /\ rest = [poll EXCEPT !.stats[k] = NoPeer]
                  /\ \/ Matches(k) = {} /\ poll' = rest /\ UNCHANGED <<recorded, charted>>
                     \/ /\ Matches(k) # {}
                        /\ \E p : /\ p = Max(Matches(k))
                                  /\ charted' = snapshot(p) /\ recorded' = record_bandwidth(p, poll.stats[k])
                                  /\ poll' \in {[rest EXCEPT !.pc = "find", !.id = p], rest}
  BY <1>1
<1>3. /\ rest \in Poller /\ rest.rows = poll.rows /\ rest.pc = "record"
      /\ \A j \in Keys : rest.stats[j] # NoPeer => rest.stats[j] = poll.stats[j]
  <2>1. poll.pc = "record"
    BY DEF Record
  <2>2. PICK s : s = [poll.stats EXCEPT ![k] = NoPeer]
    OBVIOUS
  <2>3. s \in [Keys -> 0..MaxBytes \cup {NoPeer}] /\ \A j \in Keys : s[j] # NoPeer => s[j] = poll.stats[j]
    BY <1>0, <2>2 DEF Poller
  <2>4. rest = [poll EXCEPT !.stats = s]
    BY <1>0, <1>2, <2>2 DEF Poller
  <2> QED BY <1>0, <2>1, <2>3, <2>4 DEF Poller
<1>4. CASE Matches(k) = {}
  BY <1>2, <1>3, <1>4
<1>5. CASE Matches(k) # {}
  <2>1. PICK p \in PeerIds :
           /\ p = Max(Matches(k)) /\ poll.rows[p] # NoPeer /\ poll.rows[p].key = k
           /\ charted' = snapshot(p) /\ recorded' = record_bandwidth(p, poll.stats[k])
           /\ poll' \in {[rest EXCEPT !.pc = "find", !.id = p], rest}
    BY <1>2, <1>5, MatchesProps
  <2>2. /\ poll' \in Poller /\ poll'.rows = rest.rows /\ poll'.stats = rest.stats
        /\ poll'.pc \in {"record", "find"}
    BY <1>3, <2>1 DEF Poller
  <2>3. poll.stats[k] \in 0..MaxBytes
    BY <1>0, <1>1 DEF Poller
  <2>4. /\ charted' = charted \cup ({p} \cap Live)
        /\ recorded' = [recorded EXCEPT ![p] = IF peers[p] = NoPeer THEN @ ELSE poll.stats[k]]
    BY <2>1 DEF snapshot, record_bandwidth
  <2> QED BY <1>1, <1>3, <2>1, <2>2, <2>3, <2>4
<1> QED BY <1>4, <1>5


-----------------------------------------------------------------------------
(* Every step keeps the types *)

(* The poller, packets and the settings leave requests and the enforcer alone, and make no row. *)
LEMMA PollAside ==
    ASSUME PollerInv, PollStep
    PROVE  /\ UNCHANGED <<ifaces, up, used, req, tick, open, env>>
           /\ TypeInv'
           /\ \A p \in PeerIds : \/ peers'[p] = peers[p]
                                 \/ /\ peers[p] # NoPeer /\ peers'[p] # NoPeer
                                    /\ \/ SetQuota /\ peers'[p].iface = peers[p].iface
                                          /\ peers'[p].key = peers[p].key /\ peers'[p].sealed = peers[p].sealed
                                       \/ poll.pc = "save" /\ peers'[p] = poll.row /\ poll.row.iface \in ifaces
           /\ \A i \in Ifaces, k \in Keys : Admits(i, k)' => Admits(i, k)
<1>0. TypeInv /\ TypeOK /\ RoundHasPeer /\ poll \in Poller
  BY DEF PollerInv, PollerTypeOK, TypeInv
<1>1. CASE UNCHANGED vars
  BY <1>0, <1>1, TypeNext DEF vars, Admits
<1>2. CASE SetQuota
  <2>1. PICK p \in Live : peers' = [peers EXCEPT ![p].quota = TRUE]
    BY <1>2 DEF SetQuota
  <2>2. PICK row \in Peer : row = peers[p] /\ p \in PeerIds
    BY <1>0, <2>1 DEF Live, TypeOK
  <2>3. PICK new : new = [row EXCEPT !.quota = TRUE]
    OBVIOUS
  <2>4. new \in Peer /\ new.iface = row.iface /\ new.key = row.key /\ new.sealed = row.sealed
    BY <2>3 DEF Peer
  <2>5. peers' = [peers EXCEPT ![p] = new]
    BY <1>0, <2>1, <2>2, <2>3 DEF TypeOK
  <2>6. /\ peers' \in [PeerIds -> Peer \cup {NoPeer}] /\ peers'[p] = new
        /\ \A q \in PeerIds \ {p} : peers'[q] = peers[q]
    BY <1>0, <2>2, <2>4, <2>5 DEF TypeOK
  <2>7. UNCHANGED <<ifaces, up, used, kern, missed, req, tick, open, env>>
    BY <1>2 DEF SetQuota
  <2>8. TypeInv'
    BY <1>0, <2>6, <2>7, TypeAside DEF TypeOK, RoundHasPeer
  <2> QED BY <1>2, <2>2, <2>4, <2>6, <2>7, <2>8, NoneAssumption DEF Admits
<1>3. CASE SaveDisabled
  <2>1. UNCHANGED <<ifaces, up, used, kern, missed, req, tick, open, env>> /\ poll.pc = "save"
    BY <1>3 DEF SaveDisabled
  <2>2. CASE UNCHANGED peers
    <3>1. UNCHANGED vars
      BY <2>1, <2>2 DEF vars
    <3> QED BY <1>1, <3>1
  <2>3. CASE ~Dangling(poll.id, poll.row) /\ Update(poll.id, poll.row)
    <3>1. PICK p \in PeerIds : p = poll.id /\ poll.row \in Peer
      BY <1>0 DEF Poller
    <3>2. peers' \in [PeerIds -> Peer \cup {NoPeer}]
      BY <1>0, <2>3, <3>1, UpdateType
    <3>3. peers'[p] = (IF peers[p] = NoPeer THEN NoPeer ELSE poll.row)
          /\ \A q \in PeerIds \ {p} : peers'[q] = peers[q]
      BY <1>0, <2>3, <3>1 DEF Update, TypeOK
    <3>4. TypeInv'
      BY <1>0, <2>1, <3>2, TypeAside DEF TypeOK, RoundHasPeer
    <3> QED BY <2>1, <2>3, <3>1, <3>3, <3>4, NoneAssumption DEF Admits, Dangling
  <2> QED BY <1>3, <2>2, <2>3 DEF SaveDisabled
<1>4. CASE RemoveDisabled
  <2>1. PICK i \in Ifaces, k \in Keys : remove_peer(i, k)
    BY <1>0, <1>4 DEF RemoveDisabled, Poller, Peer
  <2>2. kern' \in [Ifaces -> Entries \cup {NoLink}] /\ missed' \subseteq Ifaces \X Keys
    BY <1>0, <2>1, RemoveType
  <2>3. UNCHANGED <<ifaces, up, peers, used, req, tick, open, env>>
    BY <1>4 DEF RemoveDisabled
  <2>4. TypeInv'
    BY <1>0, <2>2, <2>3, TypeAside DEF TypeOK, RoundHasPeer
  <2>5. \A j \in Ifaces, l \in Keys : Admits(j, l)' => Admits(j, l)
    BY <1>0, <2>1, NoneAssumption DEF remove_peer, SetEntry, EntryFails, Admits, TypeOK, Entries
  <2> QED BY <2>3, <2>4, <2>5
<1> QED BY <1>1, <1>2, <1>3, <1>4
        DEF PollStep, SwitchMetering, skip, Transfer, poll_once, ListIfaces, peer_stats, list_for_interface, Record, find_by_id

LEMMA PollTypes == ASSUME PollerInv, PollStep PROVE PollerInv'
<1>0. /\ TypeOK /\ poll \in Poller /\ bytes \in [Ifaces -> Counters] /\ recorded \in [PeerIds -> 0..MaxBytes]
      /\ charted \subseteq Live /\ carried \in [PeerIds -> 0..MaxBytes] /\ traffic_enabled \in BOOLEAN
  BY DEF PollerInv, PollerTypeOK
<1>1. TypeInv' /\ TypeOK' /\ traffic_enabled' \in BOOLEAN
  <2>1. traffic_enabled' \in {traffic_enabled, ~traffic_enabled}
    BY DEF PollStep, SetQuota, SwitchMetering, Transfer, skip, poll_once, ListIfaces, peer_stats, list_for_interface,
           Record, find_by_id, SaveDisabled, RemoveDisabled
  <2> QED BY <1>0, <2>1, PollAside DEF TypeInv
<1>2. Live' = Live
  BY PollAside DEF Live
<1>3. bytes' \in [Ifaces -> Counters]
  <2>1. CASE \E i \in Ifaces, k \in Keys : Transfer(i, k)
    <3>1. PICK i \in Ifaces, k \in Keys : bytes[i][k] < MaxBytes /\ bytes' = [bytes EXCEPT ![i][k] = @ + 1]
      BY <2>1 DEF Transfer
    <3> QED BY <1>0, <3>1, BytesAssumption DEF Counters
  <2>2. CASE EntriesCount
    BY <1>0, <2>2, EntriesCountType
  <2>3. CASE UNCHANGED bytes
    BY <1>0, <2>3
  <2> QED BY <2>1, <2>2, <2>3
          DEF PollStep, SetQuota, SwitchMetering, skip, poll_once, ListIfaces, peer_stats, list_for_interface,
              Record, find_by_id, SaveDisabled, RemoveDisabled
<1>4. carried' \in [PeerIds -> 0..MaxBytes]
  <2>1. CASE \E i \in Ifaces, k \in Keys : Transfer(i, k)
    <3>1. PICK i \in Ifaces, k \in Keys : Transfer(i, k)
      BY <2>1
    <3>2. PICK H : H = Holder(i, k)
      OBVIOUS
    <3>3. /\ \A p \in H : carried[p] < MaxBytes
          /\ carried' = [p \in PeerIds |-> IF p \in H THEN carried[p] + 1 ELSE carried[p]]
      BY <3>1, <3>2 DEF Transfer
    <3> QED BY <1>0, <3>3, BytesAssumption
  <2>2. CASE UNCHANGED carried
    BY <1>0, <2>2
  <2> QED BY <2>1, <2>2
          DEF PollStep, SetQuota, SwitchMetering, skip, poll_once, ListIfaces, peer_stats, list_for_interface,
              Record, find_by_id, SaveDisabled, RemoveDisabled
<1>5. CASE Record
  <2>1. CASE NextIface(poll.todo) /\ UNCHANGED <<recorded, charted>>
    <3>1. poll' \in Poller
      BY <1>0, <2>1, NextIfaceType DEF Poller
    <3> QED BY <1>0, <1>1, <1>2, <1>3, <1>4, <2>1, <3>1 DEF PollerInv, PollerTypeOK
  <2>2. CASE poll' \in Poller /\ UNCHANGED <<recorded, charted>>
    BY <1>0, <1>1, <1>2, <1>3, <1>4, <2>2 DEF PollerInv, PollerTypeOK
  <2>3. CASE /\ poll' \in Poller
             /\ \E p \in PeerIds, k \in Keys :
                   /\ poll.stats[k] \in 0..MaxBytes /\ charted' = charted \cup ({p} \cap Live)
                   /\ recorded' = [recorded EXCEPT ![p] = IF peers[p] = NoPeer THEN @ ELSE poll.stats[k]]
    <3>1. charted' \subseteq Live'
      BY <1>0, <1>2, <2>3
    <3>2. recorded' \in [PeerIds -> 0..MaxBytes]
      BY <1>0, <2>3
    <3> QED BY <1>1, <1>3, <1>4, <2>3, <3>1, <3>2 DEF PollerInv, PollerTypeOK
  <2> QED BY <1>5, <2>1, <2>2, <2>3, RecordFacts
<1>6. CASE ~Record
  <2>1. UNCHANGED <<recorded, charted>>
    BY <1>6 DEF PollStep, SetQuota, SwitchMetering, Transfer, skip, poll_once, ListIfaces, peer_stats,
                list_for_interface, find_by_id, SaveDisabled, RemoveDisabled
  <2>2. poll' \in Poller
    <3>1. CASE ListIfaces
      <4>1. up \subseteq Ifaces /\ NextIface(up)
        BY <1>0, <3>1 DEF ListIfaces, TypeOK
      <4> QED BY <1>0, <4>1, NextIfaceType
    <3>2. CASE peer_stats \/ list_for_interface \/ find_by_id \/ skip
      BY <3>2, StatsTypes, RowsTypes, FindTypes, SkipFacts
    <3>3. CASE SaveDisabled \/ RemoveDisabled
      <4>1. Resume \/ poll' = [poll EXCEPT !.pc = "remove"]
        BY <3>3 DEF SaveDisabled, RemoveDisabled
      <4> QED BY <1>0, <4>1, ResumeType DEF Poller
    <3>4. CASE UNCHANGED poll
      BY <1>0, <3>4
    <3> QED BY <1>6, <3>1, <3>2, <3>3, <3>4 DEF PollStep, poll_once, SetQuota, SwitchMetering, Transfer
  <2> QED BY <1>0, <1>1, <1>2, <1>3, <1>4, <2>1, <2>2 DEF PollerInv, PollerTypeOK
<1> QED BY <1>5, <1>6

(* Requests and the enforcer beside the poller *)
LEMMA BesideTypes ==
    ASSUME PollerInv, Beside \/ \E w \in Workers : BringUp(w)
    PROVE  PollerInv' /\ [Next]_vars /\ UNCHANGED <<recorded, poll, carried>>
<1>0. /\ TypeInv /\ poll \in Poller /\ bytes \in [Ifaces -> Counters] /\ recorded \in [PeerIds -> 0..MaxBytes]
      /\ charted \subseteq Live /\ carried \in [PeerIds -> 0..MaxBytes] /\ traffic_enabled \in BOOLEAN
  BY DEF PollerInv, PollerTypeOK
<1>1. CASE Beside
  <2>1. TypeInv' /\ Next
    BY <1>0, <1>1, TendTypes DEF Beside, Next
  <2>2. bytes' \in [Ifaces -> Counters]
    BY <1>0, <1>1, EntriesCountType DEF Beside
  <2>3. charted' \subseteq Live'
    BY <1>0, <1>1 DEF Beside, RowsCascade, Live
  <2> QED BY <1>0, <1>1, <2>1, <2>2, <2>3 DEF Beside, PollerInv, PollerTypeOK, TypeInv
<1>2. CASE \E w \in Workers : BringUp(w)
  <2>1. PICK w \in Workers : BringUp(w)
    BY <1>2
  <2>2. TypeInv' /\ Next
    BY <1>0, <2>1, HandleTypes DEF BringUp, Next
  <2>3. PICK i \in Ifaces : bytes' = [bytes EXCEPT ![i] = [k \in Keys |-> 0]]
    BY <1>0, <2>1 DEF BringUp, TypeInv, TypeOK, Request
  <2>4. bytes' \in [Ifaces -> Counters]
    BY <1>0, <2>3, BytesAssumption DEF Counters
  <2>5. Live' = Live
    BY <2>1 DEF BringUp, interface_up, Live
  <2> QED BY <1>0, <2>1, <2>2, <2>4, <2>5 DEF BringUp, PollerInv, PollerTypeOK, TypeInv
<1> QED BY <1>1, <1>2

LEMMA PollerSteps == PollerNext <=> (Beside \/ (\E w \in Workers : BringUp(w)) \/ PollStep)
BY DEF PollerNext, PollStep

LEMMA PollerStarts == PollerInit => PollerInv
<1> SUFFICES ASSUME PollerInit PROVE PollerInv
  OBVIOUS
<1>1. TypeInv
  BY TypeInit DEF PollerInit
<1> QED BY <1>1, SleepingType, BytesAssumption DEF PollerInit, PollerInv, PollerTypeOK, TypeInv, Counters

LEMMA PollerStays == PollerInv /\ UNCHANGED pollVars => PollerInv'
<1> SUFFICES ASSUME PollerInv, UNCHANGED pollVars PROVE PollerInv'
  OBVIOUS
<1>1. TypeInv'
  BY TypeNext DEF PollerInv, pollVars, vars
<1> QED BY <1>1 DEF PollerInv, PollerTypeOK, TypeInv, pollVars, vars, Live

LEMMA PollerStep == PollerInv /\ [PollerNext]_pollVars => PollerInv'
BY PollTypes, BesideTypes, PollerSteps, PollerStays

LEMMA PollerInvariant == FairSpec => []PollerInv
BY PollerStarts, PollerStep, PTL DEF FairSpec

(* Counters, totals and the poller's copies have their types, and traffic_snapshots has rows  *)
(* of peers that exist only: the cascade takes them along, and the write that comes late is   *)
(* refused.                                                                                   *)
THEOREM PollerTypes == FairSpec => []PollerTypeOK
<1>1. PollerInv => PollerTypeOK
  BY DEF PollerInv
<1> QED BY <1>1, PollerInvariant, PTL


-----------------------------------------------------------------------------
(* What PeerService keeps *)

(* disable_peer writes back the row it found before its await, over a row that exists: next  *)
(* to the poller, too, an id whose row went stays without one.                               *)
THEOREM PollerRevivesNone == FairSpec => NoResurrection
<1>1. PollerInv /\ [PollerNext]_pollVars => [StaysDeleted]_vars
  <2> SUFFICES ASSUME PollerInv, [PollerNext]_pollVars PROVE [StaysDeleted]_vars
    OBVIOUS
  <2>0. TypeInv
    BY DEF PollerInv
  <2>1. CASE PollStep
    <3>1. \A p \in used : p \in PeerIds
      BY <2>0 DEF TypeInv, TypeOK
    <3> QED BY <2>1, <3>1, PollAside DEF StaysDeleted
  <2>2. CASE UNCHANGED vars
    BY <2>2
  <2>3. CASE [Next]_vars
    <3> SUFFICES ASSUME NEW p \in used, peers[p] = NoPeer PROVE peers'[p] = NoPeer
      BY DEF StaysDeleted
    <3>1. p \in PeerIds
      BY <2>0 DEF TypeInv, TypeOK
    <3>2. RowStep(p)
      BY <2>0, <2>3, <3>1, RowSteps
    <3> QED BY <3>2, NoneAssumption DEF RowStep, Inserted, Overwritten, Scheduled
  <2>4. PollStep \/ UNCHANGED vars \/ [Next]_vars
    BY PollerSteps, BesideTypes DEF pollVars
  <2> QED BY <2>1, <2>2, <2>3, <2>4
<1> QED BY <1>1, PollerInvariant, PTL DEF FairSpec, NoResurrection

(* The copy that disable_peer writes back is refused when its interface went meanwhile.       *)
THEOREM PollerOrphansNone == FairSpec => []NoOrphans
<1>1. PollerInit => NoOrphans
  BY DEF PollerInit, Init, NoOrphans, Live, Nothing
<1>2. PollerInv /\ NoOrphans /\ [PollerNext]_pollVars => NoOrphans'
  <2> SUFFICES ASSUME PollerInv, NoOrphans, [PollerNext]_pollVars PROVE NoOrphans'
    OBVIOUS
  <2>1. CASE PollStep
    <3>1. ifaces' = ifaces
      BY <2>1, PollAside
    <3>2. ASSUME NEW p \in PeerIds, peers'[p] # NoPeer PROVE peers'[p].iface \in ifaces
      <4>1. \/ peers'[p] = peers[p]
            \/ peers[p] # NoPeer /\ peers'[p].iface = peers[p].iface
            \/ peers'[p].iface \in ifaces
        BY <2>1, PollAside
      <4> QED BY <3>2, <4>1 DEF NoOrphans, Live
    <3> QED BY <3>1, <3>2 DEF NoOrphans, Live
  <2>2. CASE [Next]_vars
    BY <2>2, OrphansNext DEF PollerInv
  <2>3. PollStep \/ [Next]_vars
    BY PollerSteps, BesideTypes DEF pollVars
  <2> QED BY <2>1, <2>2, <2>3
<1> QED BY <1>1, <1>2, PollerInvariant, PTL DEF FairSpec

(* Only find_by_id leaves the poller with a row to write. *)
LEMMA PollElsewhere ==
    ASSUME PollerInv,
           skip \/ ListIfaces \/ peer_stats \/ list_for_interface \/ Record \/ SaveDisabled \/ RemoveDisabled
    PROVE  poll'.pc # "save"
<1>0. poll \in Poller /\ up \subseteq Ifaces /\ traffic_enabled \in BOOLEAN
  BY DEF PollerInv, PollerTypeOK, TypeOK
<1>1. CASE ListIfaces
  BY <1>0, <1>1, NextIfaceType DEF ListIfaces
<1>2. CASE peer_stats
  BY <1>0, <1>2, StatsTypes, NextIfaceType DEF Poller
<1>3. CASE list_for_interface
  BY <1>3, RowsTypes
<1>4. CASE Record
  <2>1. NextIface(poll.todo) \/ poll'.pc \in {"record", "find"}
    BY <1>4, RecordFacts
  <2> QED BY <1>0, <2>1, NextIfaceType DEF Poller
<1>5. CASE SaveDisabled \/ RemoveDisabled
  <2>1. Resume \/ poll' = [poll EXCEPT !.pc = "remove"]
    BY <1>5 DEF SaveDisabled, RemoveDisabled
  <2> QED BY <1>0, <2>1, ResumeType DEF Poller
<1>6. CASE skip
  BY <1>6, SkipFacts
<1> QED BY <1>1, <1>2, <1>3, <1>4, <1>5, <1>6

\* The copy that disable_peer has yet to write is as good as the rows.
PollerPairs == PairsInv /\ (poll.pc = "save" => Paired(poll.row))

(* One more writer of whole rows keeps public and sealed keys together.                       *)
THEOREM PollerPairsMatch == FairSpec => []KeyPairsMatch
<1>1. PollerInit => PollerPairs
  BY PairsStart DEF PollerInit, PollerPairs, Sleeping
<1>2. PollerInv /\ PollerPairs /\ [PollerNext]_pollVars => PollerPairs'
  <2> SUFFICES ASSUME PollerInv, PollerPairs, [PollerNext]_pollVars PROVE PollerPairs'
    OBVIOUS
  <2>0. poll \in Poller
    BY DEF PollerInv, PollerTypeOK
  <2>1. CASE PollStep
    <3>1. UNCHANGED <<req, tick>> /\ TypeInv'
      BY <2>1, PollAside
    <3>2. ASSUME NEW p \in PeerIds, peers'[p] # NoPeer PROVE Paired(peers'[p])
      <4>1. \/ peers'[p] = peers[p]
            \/ peers[p] # NoPeer /\ peers'[p].key = peers[p].key /\ peers'[p].sealed = peers[p].sealed
            \/ poll.pc = "save" /\ peers'[p] = poll.row
        BY <2>1, PollAside
      <4>2. peers[p] # NoPeer => peers[p].sealed \in {Blank, peers[p].key}
        BY DEF PollerPairs, PairsInv, KeyPairsMatch, Live
      <4> QED BY <3>2, <4>1, <4>2 DEF PollerPairs, Paired
    <3>3. ASSUME poll'.pc = "save" PROVE Paired(poll'.row)
      <4>1. CASE find_by_id
        <5>1. PICK p \in Live : poll'.row.key = peers[p].key /\ poll'.row.sealed = peers[p].sealed
          BY <3>3, <4>1, FindTypes
        <5> QED BY <5>1 DEF PollerPairs, PairsInv, KeyPairsMatch, Paired
      <4>2. CASE UNCHANGED poll
        BY <3>3, <4>2 DEF PollerPairs
      <4>3. CASE skip \/ ListIfaces \/ peer_stats \/ list_for_interface \/ Record \/ SaveDisabled \/ RemoveDisabled
        BY <3>3, <4>3, PollElsewhere
      <4> QED BY <2>1, <4>1, <4>2, <4>3 DEF PollStep, poll_once, SetQuota, SwitchMetering, Transfer
    <3>4. PairsInv'
      BY <3>1, <3>2 DEF PollerPairs, PairsInv, KeyPairsMatch, Live, Paired
    <3> QED BY <3>3, <3>4 DEF PollerPairs
  <2>2. CASE [Next]_vars /\ UNCHANGED poll
    BY <2>2, PairsNext DEF PollerPairs, Paired
  <2>3. PollStep \/ ([Next]_vars /\ UNCHANGED poll)
    BY PollerSteps, BesideTypes DEF pollVars
  <2> QED BY <2>1, <2>2, <2>3
<1>3. PollerPairs => KeyPairsMatch
  BY DEF PollerPairs, PairsInv
<1> QED BY <1>1, <1>2, <1>3, PollerInvariant, PTL DEF FairSpec


-----------------------------------------------------------------------------
(***************************************************************************)
(* What is recorded was transferred.  A counter that the poller read       *)
(* belongs to a key, so the theorem supposes that a key is one peer's for  *)
(* good: `owner` names the peer whose rows may hold it, in each of the     *)
(* surroundings.  Generated pairs never repeat, so they are such keys; a   *)
(* key that is typed in again for another peer brings its counter along.   *)
(* Peers are created, toggled and deleted, but not edited, where there is  *)
(* traffic: Transfer attributes a packet to the row that has the entry's   *)
(* key and interface when it passes.                                       *)
(***************************************************************************)
Unedited == \A e \in Envs : "quota" \in e.ops => "update" \notin e.ops

Owners == [Envs -> [Keys -> PeerIds]]

HeldBy(owner) == "quota" \in env.ops => \A p \in Live : owner[env][peers[p].key] = p

PlaceOf(row) == <<row.iface, row.key>>

\* A request that has yet to write or push its copy, or to push its list.
RequestSeen(r, S) ==
    /\ r.op # "update"
    /\ (r.op = "toggle" /\ r.pc = "save") \/ (r.op \in {"create", "toggle", "delete"} /\ r.pc = "push")
          => PlaceOf(r.row) \in S
    /\ r.op = "start" /\ r.pc = "push" => \A k \in Keys : r.list[k] # NoPeer => <<r.iface, k>> \in S

AdmittedIn(S) == \A i \in Ifaces, k \in Keys : Admits(i, k) => <<i, k>> \in S

\* Rows, copies and kernel entries are of these places only.
Seen(S) ==
    /\ \A p \in Live : PlaceOf(peers[p]) \in S
    /\ \A w \in Workers : RequestSeen(req[w], S)
    /\ \A p \in PeerIds : tick.todo[p] # NoPeer => PlaceOf(tick.todo[p]) \in S
    /\ AdmittedIn(S)

\* A place is its owner's, as long as that lives.
Settled(owner, S) ==
    \A i \in Ifaces, k \in Keys : <<i, k>> \in S =>
        /\ owner[env][k] \in used
        /\ peers[owner[env][k]] # NoPeer => PlaceOf(peers[owner[env][k]]) = <<i, k>>

\* Everything is where a peer was given its key.
Placed(owner) ==
    \E S \in SUBSET (Ifaces \X Keys) :
        /\ Seen(S)
        /\ poll.pc = "save" => PlaceOf(poll.row) \in S
        /\ Settled(owner, S)

\* The peer has its row, or is yet to get it.
Present(p) == p \notin used \/ peers[p] # NoPeer

\* Of the keys of one peer, no counter is above the total.
AtMost(counters, owner, p, total) ==
    \A k \in Keys : owner[env][k] = p /\ counters[k] # NoPeer => counters[k] <= total

BytesAtMost(owner, p, total) ==
    \A i \in Ifaces, k \in Keys : owner[env][k] = p => bytes[i][k] <= total

Counted(owner) ==
    /\ \A p \in PeerIds : Present(p) => BytesAtMost(owner, p, carried[p])
    /\ poll.pc = "rows" => \A p \in PeerIds : Present(p) => AtMost(poll.stats, owner, p, carried[p])
    /\ poll.pc \in {"record", "find", "save", "remove"} =>
          \A p \in PeerIds : poll.rows[p] # NoPeer =>
              owner[env][poll.rows[p].key] = p /\ AtMost(poll.stats, owner, p, carried[p])
    /\ NotOvercounted

CountInv(owner) ==
    IF "quota" \in env.ops THEN Placed(owner) /\ Counted(owner)
    ELSE poll.pc = "sleep" /\ \A p \in PeerIds : recorded[p] = 0


(* A row is pushed to its own place; an entry that is removed is admitted nowhere. *)
LEMMA PushSeen ==
    ASSUME TypeOK, NEW S, AdmittedIn(S), NEW row \in Peer, PlaceOf(row) \in S, Push(row)
    PROVE  AdmittedIn(S)'
<1>0. row.iface \in Ifaces /\ row.key \in Keys /\ <<row.iface, row.key>> \in S
  BY DEF Peer, PlaceOf
<1>1. ASSUME NEW i \in Ifaces, NEW k \in Keys, Admits(i, k)'
      PROVE  Admits(i, k) \/ (i = row.iface /\ k = row.key)
  <2>1. kern'[i] # NoLink /\ kern'[i][k] # NoPeer
    BY <1>1 DEF Admits
  <2> QED BY <1>0, <2>1, NoneAssumption DEF Push, apply_peer, remove_peer, SetEntry, EntryFails, Admits, TypeOK, Entries
<1> QED BY <1>0, <1>1 DEF AdmittedIn

LEMMA RowsSeen ==
    ASSUME TypeInv, NEW S, Seen(S), [Next]_vars, used' = used
    PROVE  \A p \in PeerIds : peers'[p] # NoPeer => PlaceOf(peers'[p]) \in S
<1> SUFFICES ASSUME NEW p \in PeerIds, peers'[p] # NoPeer PROVE PlaceOf(peers'[p]) \in S
  OBVIOUS
<1>1. RowStep(p)
  BY RowSteps
<1>2. CASE peers'[p] = peers[p]
  BY <1>2 DEF Seen, Live
<1>3. CASE Scheduled(p)
  <2>1. PICK row \in Peer : row = peers[p] /\ peers'[p] = [row EXCEPT !.sched = TRUE]
    BY <1>3 DEF Scheduled
  <2>2. PlaceOf(peers'[p]) = PlaceOf(peers[p]) /\ peers[p] # NoPeer
    BY <2>1, NoneAssumption DEF PlaceOf, Peer
  <2> QED BY <2>2 DEF Seen, Live
<1>4. CASE Overwritten(p)
  <2>1. CASE \E w \in Workers : At(w, {"update", "toggle"}, "save") /\ peers'[p] = req[w].row
    BY <2>1 DEF Seen, RequestSeen, At
  <2>2. CASE tick.pc = "save" /\ p = Due /\ peers'[p] = tick.todo[p]
    BY <2>2, DueProps DEF Seen, TypeInv
  <2> QED BY <1>4, <2>1, <2>2 DEF Overwritten
<1> QED BY <1>1, <1>2, <1>3, <1>4 DEF RowStep, Inserted

LEMMA TodoSeen ==
    ASSUME TypeInv, NEW S, Seen(S), [Next]_vars
    PROVE  \A p \in PeerIds : tick'.todo[p] # NoPeer => PlaceOf(tick'.todo[p]) \in S
<1> SUFFICES ASSUME NEW p \in PeerIds, tick'.todo[p] # NoPeer PROVE PlaceOf(tick'.todo[p]) \in S
  OBVIOUS
<1>1. CASE run_once
  <2>1. p \in Live /\ tick'.todo[p].iface = peers[p].iface /\ tick'.todo[p].key = peers[p].key
    BY <1>1, RunOnceFacts DEF TypeInv
  <2> QED BY <2>1 DEF Seen, PlaceOf
<1>2. CASE ~run_once
  <2>1. tick'.todo[p] = tick.todo[p]
    BY <1>2, TodoShrinks
  <2> QED BY <2>1 DEF Seen
<1> QED BY <1>1, <1>2

LEMMA KernelSeen ==
    ASSUME TypeInv, NEW S, Seen(S), [Next]_vars
    PROVE  AdmittedIn(S)'
<1>0. TypeOK /\ AdmittedIn(S)
  BY DEF TypeInv, Seen
<1>1. ASSUME NEW w \in Workers, PushPeer(w) PROVE AdmittedIn(S)'
  <2>1. CASE UNCHANGED kern
    BY <1>0, <2>1 DEF AdmittedIn, Admits
  <2>2. CASE Push(Copy(w)) /\ req[w].op \in {"create", "update", "toggle", "delete"}
    <3>1. req[w].pc = "push" /\ RequestSeen(req[w], S)
      BY <1>1 DEF PushPeer, Seen
    <3>2. PlaceOf(Copy(w)) \in S /\ Copy(w) \in Peer
      BY <1>0, <2>2, <3>1 DEF RequestSeen, Copy, TypeOK, Request
    <3> QED BY <1>0, <2>2, <3>2, PushSeen
  <2> QED BY <1>1, <2>1, <2>2 DEF PushPeer
<1>2. ASSUME NEW w \in Workers, interface_up(w) PROVE AdmittedIn(S)'
  <2>1. PICK i \in Ifaces : i = req[w].iface
    BY <1>0 DEF TypeOK, Request
  <2>2. kern' = [kern EXCEPT ![i] = req[w].list] /\ \A k \in Keys : req[w].list[k] # NoPeer => <<i, k>> \in S
    BY <1>2, <2>1 DEF interface_up, At, Seen, RequestSeen
  <2>3. \A j \in Ifaces, k \in Keys : Admits(j, k)' => (Admits(j, k) \/ (j = i /\ req[w].list[k] # NoPeer))
    BY <1>0, <2>1, <2>2 DEF Admits, TypeOK
  <2> QED BY <1>0, <2>2, <2>3 DEF AdmittedIn
<1>3. ASSUME NEW w \in Workers, interface_down(w) PROVE AdmittedIn(S)'
  <2>1. PICK i \in Ifaces : i = req[w].iface
    BY <1>0 DEF TypeOK, Request
  <2>2. kern' = [kern EXCEPT ![i] = NoLink]
    BY <1>3, <2>1 DEF interface_down
  <2>3. \A j \in Ifaces, k \in Keys : Admits(j, k)' => Admits(j, k)
    BY <1>0, <2>1, <2>2 DEF Admits, TypeOK
  <2> QED BY <1>0, <2>3 DEF AdmittedIn
<1>4. ASSUME PushDue PROVE AdmittedIn(S)'
  <2>1. CASE UNCHANGED kern
    BY <1>0, <2>1 DEF AdmittedIn, Admits
  <2>2. CASE Push(tick.todo[Due])
    <3>1. Due \in PeerIds /\ tick.todo[Due] # NoPeer /\ tick.todo[Due] \in Peer
      BY <1>4, DueProps DEF TypeInv, PushDue
    <3>2. PlaceOf(tick.todo[Due]) \in S
      BY <3>1 DEF Seen
    <3> QED BY <1>0, <2>2, <3>1, <3>2, PushSeen
  <2> QED BY <1>4, <2>1, <2>2 DEF PushDue
<1>5. CASE UNCHANGED kern
  BY <1>0, <1>5 DEF AdmittedIn, Admits
<1>6. ASSUME NEW w \in Workers, RemoveStale(w) PROVE FALSE
  BY <1>6 DEF RemoveStale, At, Seen, RequestSeen
<1>7. ASSUME NEW w \in Workers, UpFails(w) PROVE AdmittedIn(S)'
  <2>1. PICK i \in Ifaces : i = req[w].iface
    BY <1>0 DEF TypeOK, Request
  <2>2. kern' = kern \/ kern' = [kern EXCEPT ![i] = Nobody]
    BY <1>7, <2>1 DEF UpFails
  <2>3. \A j \in Ifaces, k \in Keys : Admits(j, k)' => Admits(j, k)
    BY <1>0, <2>1, <2>2 DEF Admits, TypeOK, Nobody
  <2> QED BY <1>0, <2>3 DEF AdmittedIn
<1> QED BY <1>1, <1>2, <1>3, <1>4, <1>5, <1>6, <1>7
        DEF Next, Tend, Enforce, run_once, SaveDue, SetSchedule, ClockTurns, vars, Handle, BeginCreate,
            Begin, BeginIface, PlanCreate, InsertPeer, get, PlanUpdate, SavePeer, DeletePeer,
            ListPeers, DownFails, MarkStatus, DeleteIface, Abandon

LEMMA HandleSeen ==
    ASSUME TypeInv, NEW S, Seen(S), "update" \notin env.ops, NEW w \in Workers, Handle(w) \/ interface_up(w),
           used' = used
    PROVE  \E q : Becomes(w, q) /\ RequestSeen(q, S)
<1>0. TypeOK /\ RequestSeen(req[w], S) /\ RequestSeen(Idle, S)
  BY DEF TypeInv, Seen, Idle, RequestSeen
<1>1. CASE End(w)
  BY <1>0, <1>1, EndBecomes
<1>2. CASE SavePeer(w) /\ ~End(w)
  <2>1. PICK q : /\ Becomes(w, q) /\ q.op = req[w].op /\ q.row = req[w].row
    BY <1>0, <1>2, GotoBecomes DEF SavePeer
  <2>2. RequestSeen(q, S)
    BY <1>0, <1>2, <2>1 DEF RequestSeen, SavePeer, At
  <2> QED BY <2>1, <2>2
<1>3. CASE Goto(w, "drop") \/ Goto(w, "mark")
  <2>1. PICK q : Becomes(w, q) /\ q.pc \in {"drop", "mark"} /\ q.op = req[w].op
    BY <1>0, <1>3, GotoBecomes
  <2>2. RequestSeen(q, S)
    BY <1>0, <2>1 DEF RequestSeen
  <2> QED BY <2>1, <2>2
<1>4. CASE BeginCreate(w)
  <2>1. PICK q : Becomes(w, q) /\ q.op = "create" /\ q.pc = "plan"
    BY <1>0, <1>4, BeginCreateBecomes
  <2> QED BY <2>1 DEF RequestSeen
<1>5. CASE \E op \in {"update", "toggle", "delete"} : Begin(w, op)
  <2>1. PICK op \in {"toggle", "delete"} : Begin(w, op)
    BY <1>5 DEF Begin
  <2>2. PICK q : Becomes(w, q) /\ q.op = op /\ q.pc = "get"
    BY <1>0, <2>1, BeginBecomes
  <2> QED BY <2>2 DEF RequestSeen
<1>6. CASE BeginIface(w, "start", "list") \/ BeginIface(w, "stop", "push") \/ BeginIface(w, "drop", "push")
  <2>1. PICK q : Becomes(w, q) /\ ((q.op = "start" /\ q.pc = "list") \/ q.op \in {"stop", "drop"})
    BY <1>0, <1>6, BeginIfaceBecomes
  <2> QED BY <2>1 DEF RequestSeen
<1>7. CASE PlanCreate(w) /\ ~End(w)
  <2>1. PICK q : Becomes(w, q) /\ q.op = "create" /\ q.pc = "save"
    BY <1>0, <1>7, PlanCreateBecomes
  <2> QED BY <2>1 DEF RequestSeen
<1>8. CASE InsertPeer(w) /\ ~End(w)
  BY <1>8, InsertBecomes
<1>9. CASE get(w) /\ ~End(w)
  <2>1. PICK q : \E row \in Peer :
                 /\ Becomes(w, q) /\ row = peers[req[w].id] /\ q.op = req[w].op
                 /\ q.row.iface = row.iface /\ q.row.key = row.key
                 /\ \/ q.op = "update"
                    \/ q.op = "toggle" /\ q.pc = "save"
                    \/ q.op = "delete" /\ q.pc = "push"
    BY <1>0, <1>9, GetBecomes
  <2>2. req[w].id \in Live
    BY <1>0, <2>1, NoneAssumption DEF Live, TypeOK, Request
  <2>3. PlaceOf(q.row) \in S /\ q.op # "update"
    BY <1>0, <2>1, <2>2 DEF PlaceOf, Seen, RequestSeen
  <2> QED BY <2>1, <2>3 DEF RequestSeen
<1>10. CASE ListPeers(w)
  <2>1. PICK q : Becomes(w, q) /\ q.op = "start" /\ q.pc = "push" /\ q.iface = req[w].iface
                 /\ q.list = Configured(q.iface)
    BY <1>0, <1>10, ListBecomes
  <2>2. PICK i \in Ifaces : i = req[w].iface
    BY <1>0 DEF TypeOK, Request
  <2>3. ASSUME NEW k \in Keys, q.list[k] # NoPeer PROVE <<i, k>> \in S
    <3>1. PICK p \in OnIface(i) : peers[p].key = k
      BY <1>0, <2>1, <2>2, <2>3, ConfiguredType
    <3> QED BY <3>1 DEF OnIface, Seen, PlaceOf
  <2> QED BY <2>1, <2>2, <2>3 DEF RequestSeen
<1>11. ASSUME PlanUpdate(w) \/ RemoveStale(w) PROVE FALSE
  BY <1>0, <1>11 DEF PlanUpdate, RemoveStale, At, RequestSeen
<1> QED BY <1>1, <1>2, <1>3, <1>4, <1>5, <1>6, <1>7, <1>8, <1>9, <1>10, <1>11
        DEF Handle, interface_up, PushPeer, DeletePeer, interface_down, UpFails, DownFails, MarkStatus, DeleteIface, Abandon

LEMMA SeenNext ==
    ASSUME TypeInv, NEW S, Seen(S), "update" \notin env.ops, [Next]_vars, used' = used
    PROVE  Seen(S)'
<1>1. \A p \in Live' : PlaceOf(peers'[p]) \in S
  BY RowsSeen DEF Live
<1>2. ASSUME NEW v \in Workers PROVE RequestSeen(req'[v], S)
  <2>1. CASE \E w \in Workers : Handle(w) \/ interface_up(w)
    <3>1. PICK w \in Workers : Handle(w) \/ interface_up(w)
      BY <2>1
    <3>2. PICK q : Becomes(w, q) /\ RequestSeen(q, S)
      BY <3>1, HandleSeen
    <3>3. req'[w] = q /\ \A x \in Workers \ {w} : req'[x] = req[x]
      BY <3>2, BecomesFacts DEF TypeInv
    <3> QED BY <3>2, <3>3 DEF Seen
  <2> QED BY <2>1, OneRequest DEF Seen
<1> QED BY <1>1, <1>2, TodoSeen, KernelSeen DEF Seen


(* The only step that gives out an id is an insert. *)
LEMMA UsedGrows ==
    ASSUME TypeInv, [Next]_vars, used' # used
    PROVE  \E w \in Workers : InsertPeer(w)
BY DEF Next, Tend, Enforce, run_once, SaveDue, PushDue, SetSchedule, ClockTurns, vars, Handle, interface_up,
       BeginCreate, Begin, BeginIface, PlanCreate, get, PlanUpdate, SavePeer, RemoveStale, PushPeer, DeletePeer,
       ListPeers, interface_down, UpFails, DownFails, MarkStatus, DeleteIface, Abandon

LEMMA SeenMore ==
    ASSUME NEW S, NEW T, S \subseteq T, NEW r, RequestSeen(r, S)
    PROVE  RequestSeen(r, T)
BY DEF RequestSeen

(* The insert: the copy goes to the table and is yet to be pushed, and its place is a new one. *)
LEMMA InsertSeen ==
    ASSUME TypeInv, NEW S, Seen(S), [Next]_vars, used' # used
    PROVE  \E p \in PeerIds \ used, i \in Ifaces, k \in Keys, row \in Peer :
              /\ PlaceOf(row) = <<i, k>> /\ row.key = k
              /\ used' = used \cup {p} /\ peers' = [peers EXCEPT ![p] = row]
              /\ Seen(S \cup {<<i, k>>})'
<1>0. TypeOK
  BY DEF TypeInv
<1>1. PICK w \in Workers : InsertPeer(w)
  BY UsedGrows
<1>2. PICK p \in PeerIds \ used :
         /\ peers' = [peers EXCEPT ![p] = req[w].row] /\ used' = used \cup {p}
         /\ \E q : Becomes(w, q) /\ q.op = "create" /\ q.pc = "push" /\ q.row = req[w].row
  BY <1>1, InsertBecomes
<1>3. PICK q : Becomes(w, q) /\ q.op = "create" /\ q.pc = "push" /\ q.row = req[w].row
  BY <1>2
<1>4. PICK row \in Peer : row = req[w].row
  BY <1>0 DEF TypeOK, Request
<1>5. PICK i \in Ifaces, k \in Keys : i = row.iface /\ k = row.key
  BY DEF Peer
<1>6. PICK T : T = S \cup {<<i, k>>}
  OBVIOUS
<1>7. PlaceOf(row) = <<i, k>> /\ PlaceOf(row) \in T /\ S \subseteq T
  BY <1>5, <1>6 DEF PlaceOf
<1>8. UNCHANGED <<kern, missed, tick>>
  BY <1>1 DEF InsertPeer
<1>9. ASSUME NEW x \in PeerIds, peers'[x] # NoPeer PROVE PlaceOf(peers'[x]) \in T
  <2>1. CASE x = p
    BY <1>0, <1>2, <1>4, <1>7, <2>1 DEF TypeOK
  <2>2. CASE x # p
    <3>1. peers'[x] = peers[x]
      BY <1>2, <2>2
    <3> QED BY <1>7, <1>9, <3>1 DEF Seen, Live
  <2> QED BY <2>1, <2>2
<1>10. ASSUME NEW v \in Workers PROVE RequestSeen(req'[v], T)
  <2>1. req'[w] = q /\ \A x \in Workers \ {w} : req'[x] = req[x]
    BY <1>0, <1>3, BecomesFacts
  <2>2. RequestSeen(q, T)
    BY <1>3, <1>4, <1>7 DEF RequestSeen
  <2>3. RequestSeen(req[v], T)
    BY <1>7, SeenMore DEF Seen
  <2> QED BY <2>1, <2>2, <2>3
<1>11. AdmittedIn(T)'
  BY <1>7, <1>8 DEF Seen, AdmittedIn, Admits
<1>12. \A x \in PeerIds : tick'.todo[x] # NoPeer => PlaceOf(tick'.todo[x]) \in T
  BY <1>7, <1>8 DEF Seen
<1>13. Seen(T)'
  BY <1>9, <1>10, <1>11, <1>12 DEF Seen, Live
<1> QED BY <1>2, <1>4, <1>5, <1>6, <1>7, <1>13

LEMMA PollSeen ==
    ASSUME PollerInv, NEW S, Seen(S), poll.pc = "save" => PlaceOf(poll.row) \in S, PollStep
    PROVE  Seen(S)' /\ (poll'.pc = "save" => PlaceOf(poll'.row) \in S)
<1>1. UNCHANGED <<req, tick>> /\ AdmittedIn(S)'
  BY PollAside DEF Seen, AdmittedIn
<1>2. ASSUME NEW p \in PeerIds, peers'[p] # NoPeer PROVE PlaceOf(peers'[p]) \in S
  <2>1. \/ peers[p] # NoPeer /\ PlaceOf(peers'[p]) = PlaceOf(peers[p])
        \/ poll.pc = "save" /\ peers'[p] = poll.row
    BY <1>2, PollAside DEF PlaceOf
  <2> QED BY <2>1 DEF Seen, Live
<1>3. ASSUME poll'.pc = "save" PROVE PlaceOf(poll'.row) \in S
  <2>1. CASE find_by_id
    <3>1. PICK p \in Live : poll'.row.iface = peers[p].iface /\ poll'.row.key = peers[p].key
      BY <1>3, <2>1, FindTypes
    <3> QED BY <3>1 DEF Seen, PlaceOf
  <2>2. CASE UNCHANGED poll
    BY <1>3, <2>2
  <2>3. CASE skip \/ ListIfaces \/ peer_stats \/ list_for_interface \/ Record \/ SaveDisabled \/ RemoveDisabled
    BY <1>3, <2>3, PollElsewhere
  <2> QED BY <2>1, <2>2, <2>3 DEF PollStep, poll_once, SetQuota, SwitchMetering, Transfer
<1> QED BY <1>1, <1>2, <1>3 DEF Seen, Live

-----------------------------------------------------------------------------
(* Counting *)

(* Surroundings do not change, ids stay given out, and a row under an old id was there before. *)
LEMMA Givens ==
    ASSUME PollerInv, [PollerNext]_pollVars
    PROVE  /\ env' = env /\ used \subseteq used'
           /\ \A p \in PeerIds : Present(p)' => Present(p)
           /\ \A p \in PeerIds : peers'[p] # NoPeer => peers[p] # NoPeer \/ p \in used' \ used
<1>0. TypeInv
  BY DEF PollerInv
<1>1. CASE PollStep
  BY <1>1, PollAside DEF Present
<1>2. CASE [Next]_vars
  <2>1. env' = env
    BY <1>2 DEF Next, Tend, Enforce, run_once, SaveDue, PushDue, SetSchedule, ClockTurns, vars, Handle, interface_up,
                BeginCreate, Begin, BeginIface, PlanCreate, InsertPeer, get, PlanUpdate, SavePeer, RemoveStale,
                PushPeer, DeletePeer, ListPeers, interface_down, UpFails, DownFails, MarkStatus, DeleteIface, Abandon
  <2>2. used \subseteq used' /\ \A p \in PeerIds : RowStep(p)
    BY <1>0, <1>2, RowSteps DEF Cascades
  <2>3. \A p \in PeerIds : peers'[p] # NoPeer => peers[p] # NoPeer \/ p \in used' \ used
    BY <2>2, NoneAssumption DEF RowStep, Inserted, Overwritten, Scheduled
  <2> QED BY <2>1, <2>2, <2>3 DEF Present
<1>3. PollStep \/ [Next]_vars
  BY PollerSteps, BesideTypes DEF pollVars
<1> QED BY <1>1, <1>2, <1>3

(* No insert: the places stay, and nobody changes to another's or to another of its own. *)
LEMMA SettledStays ==
    ASSUME NEW owner, HeldBy(owner)', "quota" \in env.ops, env' = env, used' = used, NEW S, Settled(owner, S),
           peers' \in [PeerIds -> Peer \cup {NoPeer}], owner \in Owners, env \in Envs,
           \A p \in PeerIds : peers'[p] # NoPeer => peers[p] # NoPeer /\ PlaceOf(peers'[p]) \in S
    PROVE  Settled(owner, S)'
<1> SUFFICES ASSUME NEW i \in Ifaces, NEW k \in Keys, <<i, k>> \in S
             PROVE  /\ owner[env][k] \in used
                    /\ peers'[owner[env][k]] # NoPeer => PlaceOf(peers'[owner[env][k]]) = <<i, k>>
  BY DEF Settled
<1>1. PICK p \in PeerIds : p = owner[env][k]
  BY DEF Owners
<1>2. p \in used /\ (peers[p] # NoPeer => PlaceOf(peers[p]) = <<i, k>>)
  BY <1>1 DEF Settled
<1>3. ASSUME peers'[p] # NoPeer PROVE PlaceOf(peers'[p]) = <<i, k>>
  <2>1. PICK j \in Ifaces, l \in Keys : j = peers'[p].iface /\ l = peers'[p].key
    BY <1>3 DEF Peer
  <2>2. PlaceOf(peers'[p]) = <<j, l>> /\ <<j, l>> \in S
    BY <1>3, <2>1 DEF PlaceOf
  <2>3. owner[env][l] = p
    BY <1>3, <2>1 DEF HeldBy, Live
  <2>4. PlaceOf(peers[p]) = <<j, l>>
    BY <1>3, <2>2, <2>3 DEF Settled
  <2> QED BY <1>2, <1>3, <2>2, <2>4
<1> QED BY <1>1, <1>2, <1>3

(* An insert: the new row's place is its owner's first. *)
LEMMA SettledGrows ==
    ASSUME NEW owner \in Owners, HeldBy(owner)', "quota" \in env.ops, env' = env, env \in Envs,
           NEW S, Settled(owner, S), TypeOK,
           NEW p \in PeerIds \ used, NEW i \in Ifaces, NEW k \in Keys, NEW row \in Peer,
           PlaceOf(row) = <<i, k>>, row.key = k, used' = used \cup {p}, peers' = [peers EXCEPT ![p] = row]
    PROVE  Settled(owner, S \cup {<<i, k>>})'
<1> SUFFICES ASSUME NEW j \in Ifaces, NEW l \in Keys, <<j, l>> \in S \cup {<<i, k>>}
             PROVE  /\ owner[env][l] \in used'
                    /\ peers'[owner[env][l]] # NoPeer => PlaceOf(peers'[owner[env][l]]) = <<j, l>>
  BY DEF Settled
<1>1. peers'[p] = row /\ row # NoPeer /\ \A q \in PeerIds \ {p} : peers'[q] = peers[q]
  BY NoneAssumption DEF TypeOK
<1>2. owner[env][k] = p
  BY <1>1 DEF HeldBy, Live
<1>3. CASE <<j, l>> = <<i, k>>
  BY <1>1, <1>2, <1>3
<1>4. CASE <<j, l>> \in S
  <2>1. PICK q \in PeerIds : q = owner[env][l]
    BY DEF Owners
  <2>2. q \in used /\ q # p /\ (peers[q] # NoPeer => PlaceOf(peers[q]) = <<j, l>>)
    BY <1>4, <2>1 DEF Settled
  <2> QED BY <1>1, <2>1, <2>2
<1> QED BY <1>3, <1>4

(* Every step keeps everything where a peer was given its key. *)
LEMMA PlacedNext ==
    ASSUME Unedited, NEW owner \in Owners, HeldBy(owner)', PollerInv, PollerInv', "quota" \in env.ops,
           Placed(owner), [PollerNext]_pollVars
    PROVE  Placed(owner)'
<1>0. /\ TypeInv /\ TypeOK /\ env \in Envs /\ env' = env /\ "update" \notin env.ops
      /\ peers' \in [PeerIds -> Peer \cup {NoPeer}]
  BY Givens DEF PollerInv, TypeInv, TypeOK, Unedited
<1>1. PICK S \in SUBSET (Ifaces \X Keys) :
         Seen(S) /\ (poll.pc = "save" => PlaceOf(poll.row) \in S) /\ Settled(owner, S)
  BY DEF Placed
<1>2. ASSUME Seen(S)', poll'.pc = "save" => PlaceOf(poll'.row) \in S, used' = used PROVE Placed(owner)'
  <2>1. \A p \in PeerIds : peers'[p] # NoPeer => peers[p] # NoPeer /\ PlaceOf(peers'[p]) \in S
    BY <1>2, Givens DEF Seen, Live
  <2>2. Settled(owner, S)'
    BY <1>0, <1>1, <1>2, <2>1, SettledStays
  <2> QED BY <1>2, <2>2 DEF Placed
<1>3. CASE PollStep
  <2>1. used' = used
    BY <1>3, PollAside
  <2>2. Seen(S)' /\ (poll'.pc = "save" => PlaceOf(poll'.row) \in S)
    BY <1>1, <1>3, PollSeen
  <2> QED BY <1>2, <2>1, <2>2
<1>4. CASE [Next]_vars /\ UNCHANGED poll /\ used' = used
  <2>1. Seen(S)'
    BY <1>0, <1>1, <1>4, SeenNext
  <2> QED BY <1>1, <1>2, <1>4, <2>1
<1>5. CASE [Next]_vars /\ UNCHANGED poll /\ used' # used
  <2>1. PICK p \in PeerIds \ used, i \in Ifaces, k \in Keys, row \in Peer :
           /\ PlaceOf(row) = <<i, k>> /\ row.key = k
           /\ used' = used \cup {p} /\ peers' = [peers EXCEPT ![p] = row]
           /\ Seen(S \cup {<<i, k>>})'
    BY <1>0, <1>1, <1>5, InsertSeen
  <2>2. Settled(owner, S \cup {<<i, k>>})'
    BY <1>0, <1>1, <2>1, SettledGrows
  <2>3. S \cup {<<i, k>>} \in SUBSET (Ifaces \X Keys)
    OBVIOUS
  <2> QED BY <1>1, <1>5, <2>1, <2>2, <2>3 DEF Placed
<1>6. PollStep \/ ([Next]_vars /\ UNCHANGED poll)
  BY PollerSteps, BesideTypes DEF pollVars
<1> QED BY <1>3, <1>4, <1>5, <1>6


LEMMA Numbers ==
    ASSUME PollerInv
    PROVE  /\ \A p \in PeerIds : carried[p] \in Nat /\ recorded[p] \in Nat
           /\ \A i \in Ifaces, k \in Keys : bytes[i][k] \in Nat
           /\ \A k \in Keys : poll.stats[k] # NoPeer => poll.stats[k] \in Nat
BY BytesAssumption DEF PollerInv, PollerTypeOK, Counters, Poller

\* The counters are no more than what their peer has transferred, and grow with it.
CountersNext(owner) ==
    /\ \A p \in PeerIds : carried[p] <= carried'[p]
    /\ \A p \in PeerIds : Present(p)' => BytesAtMost(owner, p, carried[p])'

LEMMA TransferCounts ==
    ASSUME PollerInv, NEW owner \in Owners, Placed(owner), Counted(owner),
           NEW i \in Ifaces, NEW k \in Keys, Transfer(i, k)
    PROVE  CountersNext(owner)
<1>0. /\ bytes \in [Ifaces -> Counters] /\ carried \in [PeerIds -> 0..MaxBytes] /\ TypeOK /\ env \in Envs
  BY DEF PollerInv, PollerTypeOK, TypeOK
<1>1. PICK S \in SUBSET (Ifaces \X Keys) : Seen(S) /\ Settled(owner, S)
  BY DEF Placed
<1>2. <<i, k>> \in S
  BY <1>1 DEF Transfer, Seen, AdmittedIn
<1>3. PICK H : H = Holder(i, k)
  OBVIOUS
<1>4. /\ bytes' = [bytes EXCEPT ![i][k] = @ + 1]
      /\ carried' = [p \in PeerIds |-> IF p \in H THEN carried[p] + 1 ELSE carried[p]]
      /\ UNCHANGED <<used, peers, env>>
  BY <1>3 DEF Transfer, vars
<1>5. \A p \in PeerIds : carried[p] \in Nat /\ carried'[p] \in Nat /\ carried[p] <= carried'[p]
  BY <1>4, Numbers
<1>6. ASSUME NEW p \in PeerIds, Present(p), p = owner[env][k] PROVE carried'[p] = carried[p] + 1
  <2>1. p \in Live /\ PlaceOf(peers[p]) = <<i, k>>
    BY <1>1, <1>2, <1>6 DEF Settled, Present, Live
  <2>2. p \in H
    BY <1>3, <2>1 DEF PlaceOf, Holder, OnIface
  <2> QED BY <1>4, <2>2
<1>7. \A j \in Ifaces, l \in Keys : bytes'[j][l] = IF j = i /\ l = k THEN bytes[j][l] + 1 ELSE bytes[j][l]
  BY <1>0, <1>4 DEF Counters
<1>8. ASSUME NEW p \in PeerIds, Present(p), NEW j \in Ifaces, NEW l \in Keys, owner[env][l] = p
      PROVE  bytes'[j][l] <= carried'[p]
  <2>1. bytes[j][l] <= carried[p]
    BY <1>8 DEF Counted, BytesAtMost
  <2>2. bytes[j][l] \in Nat
    BY Numbers
  <2>3. CASE j = i /\ l = k
    BY <1>5, <1>6, <1>7, <1>8, <2>1, <2>2, <2>3
  <2>4. CASE ~(j = i /\ l = k)
    BY <1>5, <1>7, <2>1, <2>2, <2>4
  <2> QED BY <2>3, <2>4
<1>9. \A p \in PeerIds : Present(p)' => Present(p)
  BY <1>4 DEF Present
<1>10. ASSUME NEW p \in PeerIds, Present(p)' PROVE BytesAtMost(owner, p, carried[p])'
  BY <1>4, <1>8, <1>9, <1>10 DEF BytesAtMost
<1> QED BY <1>5, <1>10 DEF CountersNext

LEMMA OtherCounts ==
    ASSUME PollerInv, NEW owner, Counted(owner), [PollerNext]_pollVars,
           ~(\E i \in Ifaces, k \in Keys : Transfer(i, k))
    PROVE  CountersNext(owner) /\ UNCHANGED carried
<1>1. UNCHANGED carried
  BY BesideTypes DEF PollerNext, pollVars, skip, poll_once, SetQuota, SwitchMetering, ListIfaces, peer_stats,
                     list_for_interface, Record, find_by_id, SaveDisabled, RemoveDisabled
<1>2. \A i \in Ifaces, k \in Keys : bytes'[i][k] \in {0, bytes[i][k]}
  <2>0. bytes \in [Ifaces -> Counters]
    BY DEF PollerInv, PollerTypeOK
  <2>1. CASE EntriesCount
    BY <2>0, <2>1, EntriesCountType
  <2>2. CASE UNCHANGED bytes
    BY <2>2
  <2>3. CASE \E w \in Workers : BringUp(w)
    <3>1. PICK i \in Ifaces : bytes' = [bytes EXCEPT ![i] = [k \in Keys |-> 0]]
      BY <2>3 DEF BringUp, PollerInv, TypeInv, TypeOK, Request
    <3> QED BY <2>0, <3>1
  <2> QED BY <2>1, <2>2, <2>3
          DEF PollerNext, pollVars, Beside, skip, poll_once, SetQuota, SwitchMetering, ListIfaces, peer_stats,
              list_for_interface, Record, find_by_id, SaveDisabled, RemoveDisabled
<1>3. ASSUME NEW p \in PeerIds, Present(p)' PROVE BytesAtMost(owner, p, carried[p])'
  <2> SUFFICES ASSUME NEW i \in Ifaces, NEW k \in Keys, owner[env'][k] = p PROVE bytes'[i][k] <= carried'[p]
    BY DEF BytesAtMost
  <2>1. bytes[i][k] <= carried[p]
    BY <1>3, Givens DEF Counted, BytesAtMost
  <2> QED BY <1>1, <1>2, <2>1, Numbers
<1> QED BY <1>1, <1>3, Numbers DEF CountersNext

(* What the poller holds and has written is no more than that either. *)
LEMMA PollCounts ==
    ASSUME PollerInv, PollerInv', NEW owner, HeldBy(owner), "quota" \in env.ops, Counted(owner),
           CountersNext(owner), [PollerNext]_pollVars
    PROVE  Counted(owner)'
<1>0. /\ poll \in Poller /\ up \subseteq Ifaces /\ recorded \in [PeerIds -> 0..MaxBytes] /\ env' = env
      /\ traffic_enabled \in BOOLEAN
  BY Givens DEF PollerInv, PollerTypeOK, TypeOK
<1>1. \A p \in PeerIds : carried[p] \in Nat /\ carried'[p] \in Nat /\ carried[p] <= carried'[p] /\ recorded[p] \in Nat
  <2>1. carried' \in [PeerIds -> 0..MaxBytes]
    BY DEF PollerInv, PollerTypeOK
  <2> QED BY <2>1, Numbers DEF CountersNext
<1>2. ASSUME NEW p \in PeerIds, AtMost(poll.stats, owner, p, carried[p]), NEW s,
             \A k \in Keys : s[k] # NoPeer => s[k] = poll.stats[k]
      PROVE  AtMost(s, owner, p, carried'[p])
  <2> SUFFICES ASSUME NEW k \in Keys, owner[env][k] = p, s[k] # NoPeer PROVE s[k] <= carried'[p]
    BY DEF AtMost
  <2>1. s[k] = poll.stats[k] /\ poll.stats[k] <= carried[p] /\ poll.stats[k] \in Nat
    BY <1>2, Numbers DEF AtMost
  <2> QED BY <1>1, <2>1
<1>3. ASSUME UNCHANGED recorded PROVE NotOvercounted'
  BY <1>1, <1>3 DEF Counted, NotOvercounted
<1>4. ASSUME poll'.pc \in {"sleep", "stats"}, UNCHANGED recorded PROVE Counted(owner)'
  BY <1>3, <1>4 DEF Counted, CountersNext
<1>5. ASSUME poll' = poll, UNCHANGED recorded PROVE Counted(owner)'
  <2>1. ASSUME poll.pc = "rows", NEW p \in PeerIds, Present(p)' PROVE AtMost(poll.stats, owner, p, carried'[p])
    <3>1. AtMost(poll.stats, owner, p, carried[p])
      BY <2>1, Givens DEF Counted
    <3> QED BY <1>2, <3>1
  <2>2. ASSUME poll.pc \in {"record", "find", "save", "remove"}, NEW p \in PeerIds, poll.rows[p] # NoPeer
        PROVE  owner[env][poll.rows[p].key] = p /\ AtMost(poll.stats, owner, p, carried'[p])
    <3>1. owner[env][poll.rows[p].key] = p /\ AtMost(poll.stats, owner, p, carried[p])
      BY <2>2 DEF Counted
    <3> QED BY <1>2, <3>1
  <2> QED BY <1>0, <1>3, <1>5, <2>1, <2>2 DEF Counted, CountersNext, AtMost
<1>6. CASE peer_stats
  <2>1. UNCHANGED <<recorded, carried, used, peers>>
    BY <1>6 DEF peer_stats, vars
  <2>2. CASE NextIface(poll.todo)
    BY <1>0, <1>4, <2>1, <2>2, NextIfaceType DEF Poller
  <2>3. CASE /\ poll'.pc = "rows"
             /\ \A k \in Keys : poll'.stats[k] # NoPeer => poll'.stats[k] = bytes[poll.iface][k]
    <3>1. ASSUME NEW p \in PeerIds, Present(p)' PROVE AtMost(poll'.stats, owner, p, carried'[p])
      <4>1. BytesAtMost(owner, p, carried[p]) /\ poll.iface \in Ifaces
        BY <1>0, <3>1, Givens DEF Counted, Poller
      <4> QED BY <2>1, <2>3, <4>1 DEF BytesAtMost, AtMost
    <3> QED BY <1>0, <1>3, <2>1, <2>3, <3>1 DEF Counted, CountersNext, AtMost
  <2> QED BY <1>6, <2>2, <2>3, StatsTypes
<1>7. CASE list_for_interface
  <2>1. UNCHANGED <<recorded, carried>> /\ poll.pc = "rows"
    BY <1>7 DEF list_for_interface
  <2>2. ASSUME NEW p \in PeerIds, poll'.rows[p] # NoPeer
        PROVE  owner[env][poll'.rows[p].key] = p /\ AtMost(poll'.stats, owner, p, carried'[p])
    <3>1. p \in Live /\ poll'.rows[p] = peers[p] /\ poll'.stats = poll.stats
      BY <1>7, <2>2, RowsTypes
    <3>2. Present(p) /\ owner[env][peers[p].key] = p
      BY <3>1 DEF Live, Present, HeldBy
    <3> QED BY <2>1, <3>1, <3>2 DEF Counted
  <2>3. poll'.pc = "record"
    BY <1>7, RowsTypes
  <2> QED BY <1>0, <1>3, <2>1, <2>2, <2>3 DEF Counted, CountersNext, AtMost
<1>8. ASSUME poll.pc \in {"record", "find", "save", "remove"}, poll'.pc \in {"record", "find", "save", "remove"},
             poll'.rows = poll.rows, \A k \in Keys : poll'.stats[k] # NoPeer => poll'.stats[k] = poll.stats[k],
             NotOvercounted'
      PROVE  Counted(owner)'
  <2>1. ASSUME NEW p \in PeerIds, poll.rows[p] # NoPeer
        PROVE  owner[env][poll.rows[p].key] = p /\ AtMost(poll'.stats, owner, p, carried'[p])
    <3>1. owner[env][poll.rows[p].key] = p /\ AtMost(poll.stats, owner, p, carried[p])
      BY <1>8, <2>1 DEF Counted
    <3>2. PICK s : s = poll'.stats
      OBVIOUS
    <3> QED BY <1>2, <1>8, <3>1, <3>2
  <2> QED BY <1>0, <1>8, <2>1 DEF Counted, CountersNext, AtMost
<1>9. CASE Record
  <2>1. CASE NextIface(poll.todo) /\ UNCHANGED recorded
    BY <1>0, <1>4, <2>1, NextIfaceType DEF Poller
  <2>2. CASE ~(NextIface(poll.todo) /\ UNCHANGED <<recorded, charted>>)
    <3>1. /\ poll'.rows = poll.rows /\ poll'.pc \in {"record", "find"} /\ poll.pc = "record"
          /\ \A k \in Keys : poll'.stats[k] # NoPeer => poll'.stats[k] = poll.stats[k]
      BY <1>9, <2>2, RecordFacts DEF Record
    <3>2. NotOvercounted'
      <4>1. CASE UNCHANGED recorded
        BY <1>3, <4>1
      <4>2. CASE \E p \in PeerIds, k \in Keys :
                    /\ poll.rows[p] # NoPeer /\ poll.rows[p].key = k /\ poll.stats[k] # NoPeer
                    /\ recorded' = [recorded EXCEPT ![p] = IF peers[p] = NoPeer THEN @ ELSE poll.stats[k]]
        <5>1. PICK p \in PeerIds, k \in Keys :
                    /\ poll.rows[p] # NoPeer /\ poll.rows[p].key = k /\ poll.stats[k] # NoPeer
                    /\ recorded' = [recorded EXCEPT ![p] = IF peers[p] = NoPeer THEN @ ELSE poll.stats[k]]
          BY <4>2
        <5>2. poll.stats[k] <= carried[p] /\ poll.stats[k] \in Nat
          <6>1. owner[env][k] = p /\ AtMost(poll.stats, owner, p, carried[p])
            BY <3>1, <5>1 DEF Counted
          <6> QED BY <5>1, <6>1, Numbers DEF AtMost
        <5>3. \A q \in PeerIds : recorded'[q] = recorded[q] \/ (q = p /\ recorded'[q] = poll.stats[k])
          BY <1>0, <5>1
        <5>4. \A q \in PeerIds : recorded[q] <= carried[q]
          BY DEF Counted, NotOvercounted
        <5>5. \A q \in PeerIds : recorded'[q] <= carried'[q]
          BY <1>1, <5>2, <5>3, <5>4
        <5> QED BY <5>5 DEF NotOvercounted
      <4> QED BY <1>9, <2>2, <4>1, <4>2, RecordFacts
    <3> QED BY <1>8, <3>1, <3>2
  <2> QED BY <2>1, <2>2
<1>10. CASE find_by_id
  <2>1. poll.pc = "find" /\ UNCHANGED recorded
    BY <1>10 DEF find_by_id
  <2>2. poll'.rows = poll.rows /\ poll'.stats = poll.stats /\ poll'.pc \in {"record", "save"}
    BY <1>10, FindTypes
  <2> QED BY <1>3, <1>8, <2>1, <2>2
<1>11. CASE SaveDisabled \/ RemoveDisabled
  <2>1. /\ poll.pc \in {"save", "remove"} /\ UNCHANGED recorded
        /\ Resume \/ poll' = [poll EXCEPT !.pc = "remove"]
    BY <1>11 DEF SaveDisabled, RemoveDisabled
  <2>2. poll'.rows = poll.rows /\ poll'.stats = poll.stats /\ poll'.pc \in {"record", "remove"}
    BY <1>0, <2>1, ResumeType DEF Poller
  <2> QED BY <1>3, <1>8, <2>1, <2>2
<1>12. CASE ListIfaces
  <2>1. UNCHANGED recorded /\ NextIface(up)
    BY <1>12 DEF ListIfaces
  <2> QED BY <1>0, <1>4, <2>1, NextIfaceType
<1>13. CASE UNCHANGED <<poll, recorded>>
  BY <1>5, <1>13
<1>14. CASE skip
  BY <1>4, <1>14, SkipFacts
<1> QED BY <1>6, <1>7, <1>9, <1>10, <1>11, <1>12, <1>13, <1>14, BesideTypes, PollerSteps
        DEF PollStep, SetQuota, SwitchMetering, Transfer, poll_once, pollVars

LEMMA CountNext ==
    ASSUME Unedited, NEW owner \in Owners, HeldBy(owner), HeldBy(owner)', PollerInv, PollerInv', CountInv(owner),
           [PollerNext]_pollVars
    PROVE  CountInv(owner)'
<1>1. env' = env
  BY Givens
<1>2. CASE "quota" \in env.ops
  <2>1. Placed(owner) /\ Counted(owner)
    BY <1>2 DEF CountInv
  <2>2. Placed(owner)'
    BY <1>2, <2>1, PlacedNext
  <2>3. CountersNext(owner)
    BY <2>1, TransferCounts, OtherCounts
  <2>4. Counted(owner)'
    BY <1>2, <2>1, <2>3, PollCounts
  <2> QED BY <1>1, <1>2, <2>2, <2>4 DEF CountInv
<1>3. CASE "quota" \notin env.ops
  <2>1. poll.pc = "sleep" /\ \A p \in PeerIds : recorded[p] = 0
    BY <1>3 DEF CountInv
  <2>2. UNCHANGED <<poll, recorded>>
    BY <1>3, <2>1, BesideTypes
       DEF PollerNext, pollVars, skip, poll_once, SetQuota, SwitchMetering, Transfer, ListIfaces, peer_stats,
           list_for_interface, Record, find_by_id, SaveDisabled, RemoveDisabled
  <2> QED BY <1>1, <1>3, <2>1, <2>2 DEF CountInv
<1> QED BY <1>2, <1>3

LEMMA CountStarts ==
    ASSUME NEW owner, PollerInit
    PROVE  CountInv(owner)
<1>0. PollerInv /\ Init
  BY PollerStarts DEF PollerInit
<1>1. Seen({})
  <2>1. Live = {}
    BY <1>0 DEF Init, Live, Nothing
  <2>2. \A w \in Workers : RequestSeen(req[w], {})
    BY <1>0 DEF Init, Idle, RequestSeen
  <2>3. \A p \in PeerIds : tick.todo[p] = NoPeer
    BY <1>0 DEF Init, Asleep, Nothing
  <2>4. AdmittedIn({})
    BY <1>0 DEF Init, AdmittedIn, Admits, Nobody
  <2> QED BY <2>1, <2>2, <2>3, <2>4 DEF Seen
<1>2. poll.pc = "sleep"
  BY DEF PollerInit, Sleeping
<1>3. Placed(owner)
  BY <1>1, <1>2 DEF Placed, Settled
<1>4. /\ \A p \in PeerIds : recorded[p] = 0 /\ carried[p] = 0
      /\ \A i \in Ifaces, k \in Keys : bytes[i][k] = 0
  BY DEF PollerInit
<1>5. Counted(owner)
  BY <1>2, <1>4 DEF Counted, NotOvercounted, BytesAtMost
<1> QED BY <1>2, <1>3, <1>4, <1>5 DEF CountInv

LEMMA CountClaims ==
    ASSUME NEW owner, PollerInv, CountInv(owner)
    PROVE  NotOvercounted
<1>1. CASE "quota" \in env.ops
  BY <1>1 DEF CountInv, Counted
<1>2. CASE "quota" \notin env.ops
  BY <1>2, Numbers DEF CountInv, NotOvercounted
<1> QED BY <1>1, <1>2

(* Whatever the order in which the poller, restarts of links, creates, toggles and deletes of *)
(* any number of peers read and write: as long as no key is given to a second peer,           *)
(* bandwidth_used_bytes is never more than the peer transferred.                              *)
THEOREM NeverOvercounted ==
    ASSUME Unedited, NEW owner \in Owners
    PROVE  FairSpec /\ []HeldBy(owner) => []NotOvercounted
<1>1. PollerInv /\ CountInv(owner) => NotOvercounted
  BY CountClaims
<1>2. /\ PollerInv /\ PollerInv' /\ CountInv(owner) /\ HeldBy(owner) /\ HeldBy(owner)' /\ [PollerNext]_pollVars
      => CountInv(owner)'
  BY CountNext
<1>3. PollerInit => CountInv(owner)
  BY CountStarts
<1> QED BY <1>1, <1>2, <1>3, PollerInvariant, PTL DEF FairSpec

-----------------------------------------------------------------------------
(* One peer, at most, where there is traffic: all keys are its own. *)
OneMetered == \A e \in Envs : "quota" \in e.ops => \A p, q \in e.peers : p = q

OnlyOne == [e \in Envs |-> [k \in Keys |-> CHOOSE p \in PeerIds : e.peers # {} => p \in e.peers]]

IdsKnown == used \subseteq env.peers /\ Live \subseteq used

LEMMA IdsKnownNext ==
    ASSUME PollerInv, IdsKnown, [PollerNext]_pollVars
    PROVE  IdsKnown'
<1>0. TypeInv
  BY DEF PollerInv
<1>1. used' \subseteq env'.peers
  <2>1. CASE used' = used
    BY <2>1, Givens DEF IdsKnown
  <2>2. CASE used' # used
    <3>1. [Next]_vars
      BY <2>2, PollerSteps, BesideTypes, PollAside DEF pollVars
    <3>2. PICK w \in Workers : InsertPeer(w)
      BY <1>0, <2>2, <3>1, UsedGrows
    <3>3. used' = used \/ \E p \in env.peers : used' = used \cup {p}
      BY <1>0, <3>2, InsertBecomes
    <3> QED BY <3>3, Givens DEF IdsKnown
  <2> QED BY <2>1, <2>2
<1>2. Live' \subseteq used'
  BY Givens DEF IdsKnown, Live
<1> QED BY <1>1, <1>2 DEF IdsKnown

(* A peer that is the only one with traffic is not overcounted, whatever keys are typed in.   *)
THEOREM AloneNotOvercounted ==
    ASSUME Unedited, OneMetered
    PROVE  FairSpec => []NotOvercounted
<1>1. OnlyOne \in Owners
  <2>1. \A e \in Envs : \E p \in PeerIds : e.peers # {} => p \in e.peers
    BY EnvsAssumption, SomeAssumption DEF Environment
  <2> QED BY <2>1 DEF OnlyOne, Owners
<1>2. PollerInv /\ IdsKnown => HeldBy(OnlyOne)
  <2> SUFFICES ASSUME PollerInv, IdsKnown, "quota" \in env.ops, NEW p \in Live
               PROVE  OnlyOne[env][peers[p].key] = p
    BY DEF HeldBy
  <2>1. env \in Envs /\ p \in PeerIds /\ p \in env.peers /\ peers[p].key \in Keys
    BY DEF PollerInv, TypeInv, TypeOK, IdsKnown, Live, Peer
  <2>2. (CHOOSE q \in PeerIds : env.peers # {} => q \in env.peers) \in env.peers
    BY <2>1
  <2>3. (CHOOSE q \in PeerIds : env.peers # {} => q \in env.peers) = p
    BY <2>1, <2>2 DEF OneMetered
  <2> QED BY <2>1, <2>3 DEF OnlyOne
<1>3. PollerInit => IdsKnown
  BY DEF PollerInit, Init, IdsKnown, Live, Nothing
<1>4. PollerInv /\ IdsKnown /\ [PollerNext]_pollVars => IdsKnown'
  BY IdsKnownNext
<1>5. PollerInit => CountInv(OnlyOne)
  BY CountStarts
<1>6. /\ PollerInv /\ PollerInv' /\ CountInv(OnlyOne) /\ HeldBy(OnlyOne) /\ HeldBy(OnlyOne)'
      /\ [PollerNext]_pollVars
      => CountInv(OnlyOne)'
  BY <1>1, CountNext
<1>7. PollerInv /\ CountInv(OnlyOne) => NotOvercounted
  BY CountClaims
<1> QED BY <1>2, <1>3, <1>4, <1>5, <1>6, <1>7, PollerInvariant, PTL DEF FairSpec
=============================================================================
