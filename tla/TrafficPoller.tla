--------------------------- MODULE TrafficPoller ---------------------------
(***************************************************************************)
(* The background tasks on peers: the traffic poller                       *)
(* (crates/wireforge-bin/src/poller.rs) beside the schedule enforcer and   *)
(* the requests of PeerService.  A round of the poller reads the           *)
(* interfaces, and for each one that is up the kernel's counters and then  *)
(* the rows; it records the counters and disables the peers that have      *)
(* reached their quota, all from these copies.  Between rounds it reads    *)
(* the setting traffic_enabled, sleeps, and skips the next round when the  *)
(* setting was off.  The kernel counts per entry: the counter starts at 0  *)
(* with the entry, and interface_up makes every entry of its link anew.    *)
(***************************************************************************)
EXTENDS PeerService

CONSTANTS
    Quota,      \* bandwidth_quota_bytes of the peers that have one
    MaxBytes    \* bound: what peers transfer, in all

ASSUME BytesAssumption == Quota \in Nat \ {0} /\ MaxBytes \in Nat

VARIABLES
    bytes,      \* the kernel's counter of every entry: received and sent
    recorded,   \* bandwidth_used_bytes of every row
    charted,    \* peers with rows in traffic_snapshots
    poll,       \* what the poller is doing
    traffic_enabled,  \* the setting of that name, in the memory of the server
    carried     \* history: what the entries of each peer have transferred so far

pollVars == <<vars, bytes, recorded, charted, poll, traffic_enabled, carried>>

Counters == [Keys -> 0..MaxBytes]

Rows == [PeerIds -> Peer \cup {NoPeer}]

\* todo: the interfaces still to visit; stats: the counters read and not yet dealt
\* with; rows: the peers of the interface; id, row: the peer to disable; on: the
\* setting as it was read before the sleep
Poller == [pc : {"sleep", "stats", "rows", "record", "find", "save", "remove"}, todo : SUBSET Ifaces,
           iface : Ifaces, stats : [Keys -> 0..MaxBytes \cup {NoPeer}], rows : Rows,
           id : PeerIds, row : Peer, on : BOOLEAN]

PollerTypeOK ==
    /\ TypeOK
    /\ bytes \in [Ifaces -> Counters]
    /\ recorded \in [PeerIds -> 0..MaxBytes]
    /\ charted \subseteq Live
    /\ poll \in Poller
    /\ traffic_enabled \in BOOLEAN
    /\ carried \in [PeerIds -> 0..MaxBytes]

Sleeping == [pc |-> "sleep", todo |-> {}, iface |-> SomeIface, stats |-> Nobody, rows |-> Nothing,
             id |-> Min(PeerIds), row |-> SomeRow, on |-> TRUE]

PollerInit ==
    /\ Init
    /\ bytes = [i \in Ifaces |-> [k \in Keys |-> 0]]
    /\ recorded = [p \in PeerIds |-> 0]
    /\ charted = {}
    /\ poll = Sleeping
    /\ traffic_enabled = TRUE
    /\ carried = [p \in PeerIds |-> 0]

-----------------------------------------------------------------------------
(* The kernel *)

Admits(i, k) == kern[i] # NoLink /\ kern[i][k] # NoPeer

\* An entry that stays keeps its counter.
EntriesCount == bytes' = [i \in Ifaces |-> [k \in Keys |-> IF Admits(i, k)' THEN bytes[i][k] ELSE 0]]

\* Mutant: snapshots of a deleted peer stay.
RowsStay == UNCHANGED charted

\* ON DELETE CASCADE
RowsCascade == charted' = {p \in charted : peers'[p] # NoPeer}

\* Everything else that requests and the enforcer do.
Beside ==
    /\ Tend
    /\ EntriesCount
    /\ RowsCascade
    /\ UNCHANGED <<recorded, poll, traffic_enabled, carried>>

\* replace_peers: the entries are made anew
BringUp(w) ==
    /\ interface_up(w)
    /\ bytes' = [bytes EXCEPT ![req[w].iface] = [k \in Keys |-> 0]]
    /\ UNCHANGED <<recorded, charted, poll, traffic_enabled, carried>>

\* No form sets a quota: a row written by hand, or restored.
SetQuota ==
    /\ "quota" \in env.ops
    /\ \E p \in Live : ~peers[p].quota /\ peers' = [peers EXCEPT ![p].quota = TRUE]
    /\ UNCHANGED <<ifaces, up, used, kern, missed, req, tick, open, env, bytes, recorded, charted, poll, traffic_enabled, carried>>

\* The peer whose traffic an entry counts.
Holder(i, k) == {p \in OnIface(i) : peers[p].key = k}

\* A packet of an admitted key.
Transfer(i, k) ==
    /\ "quota" \in env.ops
    /\ Admits(i, k) /\ bytes[i][k] < MaxBytes
    /\ \A p \in Holder(i, k) : carried[p] < MaxBytes
    /\ bytes' = [bytes EXCEPT ![i][k] = @ + 1]
    /\ carried' = [p \in PeerIds |-> IF p \in Holder(i, k) THEN carried[p] + 1 ELSE carried[p]]
    /\ UNCHANGED <<vars, recorded, charted, poll, traffic_enabled>>

\* The form of the settings is saved.
SwitchMetering ==
    /\ "metering" \in env.ops
    /\ traffic_enabled' = ~traffic_enabled
    /\ UNCHANGED <<vars, bytes, recorded, charted, poll, carried>>

-----------------------------------------------------------------------------
(* spawn: the loop around poll_once *)

\* the setting was off: no round, and the setting is read again
skip ==
    /\ "quota" \in env.ops
    /\ poll.pc = "sleep" /\ ~poll.on
    /\ poll' = [poll EXCEPT !.on = traffic_enabled]
    /\ UNCHANGED <<vars, bytes, recorded, charted, traffic_enabled, carried>>

-----------------------------------------------------------------------------
(* poll_once *)

\* after the last interface the setting is read for the next round
NextIface(todo) ==
    poll' = IF todo = {} THEN [Sleeping EXCEPT !.on = traffic_enabled]
            ELSE LET i == CHOOSE i \in todo : TRUE
                 IN  [Sleeping EXCEPT !.pc = "stats", !.iface = i, !.todo = todo \ {i}]

\* the interfaces that are up, by their rows
ListIfaces ==
    /\ "quota" \in env.ops
    /\ poll.pc = "sleep" /\ poll.on
    /\ NextIface(up)
    /\ UNCHANGED <<vars, bytes, recorded, charted, traffic_enabled, carried>>

\* an interface without a link is skipped
peer_stats ==
    /\ poll.pc = "stats"
    /\ IF kern[poll.iface] = NoLink THEN NextIface(poll.todo)
       ELSE poll' = [poll EXCEPT !.pc = "rows",
               !.stats = [k \in Keys |-> IF Admits(poll.iface, k) THEN bytes[poll.iface][k] ELSE NoPeer]]
    /\ UNCHANGED <<vars, bytes, recorded, charted, traffic_enabled, carried>>

list_for_interface ==
    /\ poll.pc = "rows"
    /\ poll' = [poll EXCEPT !.pc = "record",
          !.rows = [p \in PeerIds |-> IF p \in OnIface(poll.iface) THEN peers[p] ELSE NoPeer]]
    /\ UNCHANGED <<vars, bytes, recorded, charted, traffic_enabled, carried>>

\* by_pubkey: of two rows with one key the later one counts
Matches(k) == {p \in PeerIds : poll.rows[p] # NoPeer /\ poll.rows[p].key = k}

\* INSERT INTO traffic_snapshots: refused for a peer that is gone
snapshot(p) == charted \cup ({p} \cap Live)

\* Mutant: the totals of every round are added up.
AddUp(p, total) == [recorded EXCEPT ![p] = Min({MaxBytes, @ + total})]

\* UPDATE peers SET bandwidth_used_bytes: the total as the kernel has it
record_bandwidth(p, total) == [recorded EXCEPT ![p] = IF peers[p] = NoPeer THEN @ ELSE total]

\* Mutant: the quota is reached one byte late.
PastQuota(row, total) == row.quota /\ total > Quota /\ row.enabled

\* the row is the one read at the start of the interface's turn
OverQuota(row, total) == row.quota /\ total >= Quota /\ row.enabled

\* One entry of the stats: snapshot and record_bandwidth, whose errors are ignored
\* and which find no row of a peer that is gone, then the quota.
Record ==
    /\ poll.pc = "record"
    /\ \/ poll.stats = Nobody /\ NextIface(poll.todo) /\ UNCHANGED <<recorded, charted>>
       \/ \E k \in Keys :
             /\ poll.stats[k] # NoPeer
             /\ LET rest == [poll EXCEPT !.stats[k] = NoPeer] IN
                IF Matches(k) = {} THEN poll' = rest /\ UNCHANGED <<recorded, charted>>
                ELSE LET p == Max(Matches(k)) IN
                     /\ charted' = snapshot(p)
                     /\ recorded' = record_bandwidth(p, poll.stats[k])
                     /\ poll' = IF OverQuota(poll.rows[p], poll.stats[k])
                                THEN [rest EXCEPT !.pc = "find", !.id = p] ELSE rest
    /\ UNCHANGED <<vars, bytes, traffic_enabled, carried>>

\* disable_peer ended, well or not: on with the stats
Resume == poll' = [poll EXCEPT !.pc = "record", !.id = Sleeping.id, !.row = SomeRow]

\* disable_peer reads the row again, and its interface, which cascades
find_by_id ==
    /\ poll.pc = "find"
    /\ IF peers[poll.id] = NoPeer THEN Resume
       ELSE poll' = [poll EXCEPT !.pc = "save", !.row = [peers[poll.id] EXCEPT !.enabled = FALSE]]
    /\ UNCHANGED <<vars, bytes, recorded, charted, traffic_enabled, carried>>

SaveDisabled ==
    /\ poll.pc = "save"
    /\ IF Dangling(poll.id, poll.row) THEN Resume /\ UNCHANGED peers
       ELSE Update(poll.id, poll.row) /\ poll' = [poll EXCEPT !.pc = "remove"]
    /\ UNCHANGED <<ifaces, up, used, kern, missed, req, tick, open, env, bytes, recorded, charted, traffic_enabled, carried>>

RemoveDisabled ==
    /\ poll.pc = "remove"
    /\ remove_peer(poll.row.iface, poll.row.key)
    /\ EntriesCount
    /\ Resume
    /\ UNCHANGED <<ifaces, up, peers, used, req, tick, open, env, recorded, charted, traffic_enabled, carried>>

poll_once ==
    \/ ListIfaces \/ peer_stats \/ list_for_interface \/ Record
    \/ find_by_id \/ SaveDisabled \/ RemoveDisabled

PollerNext ==
    \/ Beside
    \/ \E w \in Workers : BringUp(w)
    \/ SetQuota \/ SwitchMetering
    \/ \E i \in Ifaces, k \in Keys : Transfer(i, k)
    \/ skip \/ poll_once

\* Both tasks run until shutdown: the enforcer's 60 s interval keeps ticking, and the
\* poller sleeps traffic_poller_interval_secs, at least 1, before it skips a round or
\* runs it.
FairSpec ==
    /\ PollerInit /\ [][PollerNext]_pollVars
    /\ WF_pollVars(Enforce /\ EntriesCount /\ UNCHANGED <<recorded, charted, poll, traffic_enabled, carried>>)
    /\ WF_pollVars(skip \/ poll_once)

-----------------------------------------------------------------------------
(***************************************************************************)
(* "enforces `bandwidth_quota_bytes` by auto-disabling peers that crossed  *)
(* their quota": whatever the requests and the schedule enforcer do to the *)
(* peer meanwhile, one that stays enabled on an interface that is up while *)
(* its kernel counter is at the quota is disabled by a later round, unless *)
(* traffic_enabled is off: from the moment it stays on, the rounds are run *)
(* again.                                                                  *)
(***************************************************************************)
QuotaEnforced ==
    \A p \in PeerIds, i \in Ifaces, k \in Keys :
        LET Over == /\ p \in Live /\ i \in up
                    /\ peers[p].quota /\ peers[p].iface = i /\ peers[p].key = k
                    /\ bytes[i][k] >= Quota
        IN  Over ~> (~Over \/ ~peers[p].enabled \/ ~traffic_enabled)

(***************************************************************************)
(* The counter that record_bandwidth writes, and /metrics sums up, never   *)
(* claims more than the peer has transferred, although rounds overlap with *)
(* restarts of the link, deletes and toggles and read the kernel's totals  *)
(* again and again.                                                        *)
(***************************************************************************)
NotOvercounted == \A p \in PeerIds : recorded[p] <= carried[p]

(***************************************************************************)
(* "If `schedule` is set and the current time falls outside the window,    *)
(* the peer is auto-disabled; when it re-enters the window the peer is     *)
(* re-enabled": the enforcer catches up with every change of the clock,    *)
(* next to the poller, toggles and deletes.                                *)
(***************************************************************************)
ScheduleEnforced ==
    \A p \in PeerIds, now \in BOOLEAN :
        (p \in Live /\ peers[p].sched /\ open = now) ~>
            (open # now \/ p \notin Live \/ ~peers[p].sched \/ peers[p].enabled = now)
=============================================================================
