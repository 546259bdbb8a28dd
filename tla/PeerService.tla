---------------------------- MODULE PeerService ----------------------------
(***************************************************************************)
(* Peers: PeerService (services/peer.rs), the schedule enforcer            *)
(* (wireforge-bin/src/scheduler.rs), and what InterfaceService does        *)
(* to peers (start pushes the list it read, stop drops the link, delete    *)
(* cascades).  All of them read a row, await, write the whole row back and *)
(* then push their own copy to the kernel, one step per await.             *)
(* A key names a key pair: "key" is the pair whose public half a row or a  *)
(* kernel entry holds, "sealed" the pair whose private half the server     *)
(* keeps.  An allowed_ips list is represented by its one network.          *)
(***************************************************************************)
EXTENDS Naturals, FiniteSets, FiniteSetsExt

CONSTANTS
    Ifaces,     \* interface ids
    PeerIds,    \* peer ids, numbered in creation order
    Keys,       \* key pairs
    Hosts,      \* addresses: the pool hands out the least free one
    Workers,    \* tasks that serve requests
    Envs,       \* the environments to consider: subset of Environment
    Blank,      \* an empty form field; no private key kept
    NoPeer,     \* no such row, no such kernel entry
    NoLink      \* the interface has no link

\* "abandon": requests may end at an await; "wg": netlink calls may fail on a link that
\* is there; "schedule", "quota": peers may have one; "metering": the setting may change
WorkerOps == {"create", "update", "toggle", "delete", "start", "stop", "drop", "abandon", "wg",
              "schedule", "quota", "metering"}

ASSUME HostsAssumption == Hosts \subseteq Nat /\ PeerIds \subseteq Nat \ {0}
ASSUME SomeAssumption == Ifaces # {} /\ Keys # {} /\ Hosts # {} /\ PeerIds # {}
ASSUME FiniteAssumption == IsFiniteSet(PeerIds) /\ IsFiniteSet(Workers)

\* What the properties assume of the surroundings.  ops: what happens; width: requests
\* and rounds of the enforcer that may overlap; reuse: a form may repeat the key of
\* another peer; flags: what the enabled box of a form may say; typed: the keys a form
\* may hold; peers, hosts: the ids and addresses there are.
Environment == [ops : SUBSET WorkerOps, width : Nat \ {0}, reuse : BOOLEAN, flags : SUBSET BOOLEAN,
                typed : SUBSET Keys, peers : SUBSET PeerIds, hosts : SUBSET Hosts]

ASSUME EnvsAssumption == \A e \in Envs : e \in Environment /\ e.hosts # {}
ASSUME BlankAssumption == Blank \notin Keys /\ NoPeer \notin Hosts

VARIABLES
    ifaces,     \* rows of the interfaces table
    up,         \* the interfaces whose row has the status Up
    peers,      \* the peers table
    used,       \* peer ids given out
    kern,       \* kernel peers of every link, by public key
    missed,     \* history: the kernel entries whose last push or removal failed
    req,        \* what each worker is doing
    tick,       \* what the schedule enforcer is doing
    open,       \* now is inside the window of the scheduled peers
    env         \* the environment, which does not change

vars == <<ifaces, up, peers, used, kern, missed, req, tick, open, env>>

Peer == [iface : Ifaces, key : Keys, sealed : Keys \cup {Blank}, ip : Hosts,
         enabled : BOOLEAN, sched : BOOLEAN, quota : BOOLEAN]

\* The kernel's view of the peers of one link.
Entries == [Keys -> Hosts \cup {NoPeer}]

ASSUME NoneAssumption == NoPeer \notin Peer /\ NoLink \notin Entries

Request == [op : WorkerOps \cup {"none"}, pc : {"idle", "get", "list", "plan", "save", "clean", "push", "drop", "mark"},
            id : PeerIds, iface : Ifaces, row : Peer, old : [iface : Ifaces, key : Keys],
            list : Entries]

\* todo: the copies the enforcer still has to write; pc "save" or "push" of the next
Enforcer == [pc : {"idle", "save", "push"}, todo : [PeerIds -> Peer \cup {NoPeer}]]

TypeOK ==
    /\ ifaces \subseteq Ifaces /\ up \subseteq ifaces
    /\ peers \in [PeerIds -> Peer \cup {NoPeer}]
    /\ used \subseteq PeerIds
    /\ kern \in [Ifaces -> Entries \cup {NoLink}]
    /\ missed \subseteq Ifaces \X Keys
    /\ req \in [Workers -> Request]
    /\ tick \in Enforcer
    /\ open \in BOOLEAN
    /\ env \in Envs

Nobody == [k \in Keys |-> NoPeer]
Nothing == [p \in PeerIds |-> NoPeer]
SomeIface == CHOOSE i \in Ifaces : TRUE
SomeKey == CHOOSE k \in Keys : TRUE
SomeRow == [iface |-> SomeIface, key |-> SomeKey, sealed |-> Blank, ip |-> Min(Hosts),
            enabled |-> FALSE, sched |-> FALSE, quota |-> FALSE]

Idle == [op |-> "none", pc |-> "idle", id |-> Min(PeerIds), iface |-> SomeIface, row |-> SomeRow,
         old |-> [iface |-> SomeIface, key |-> SomeKey], list |-> Nobody]

Asleep == [pc |-> "idle", todo |-> Nothing]

Init ==
    /\ ifaces = Ifaces /\ up = Ifaces
    /\ peers = Nothing
    /\ used = {}
    /\ kern = [i \in Ifaces |-> Nobody]
    /\ missed = {}
    /\ req = [w \in Workers |-> Idle]
    /\ tick = Asleep
    /\ open = TRUE
    /\ env \in Envs

Live == {p \in PeerIds : peers[p] # NoPeer}
OnIface(i) == {p \in Live : peers[p].iface = i}
End(w) == req' = [req EXCEPT ![w] = Idle]
Goto(w, pc) == req' = [req EXCEPT ![w].pc = pc]
At(w, ops, pc) == req[w].op \in ops /\ req[w].pc = pc
Copy(w) == req[w].row

\* Another request or round may begin.
Admitted ==
    Cardinality({w \in Workers : req[w].pc # "idle"}) + (IF tick.pc = "idle" THEN 0 ELSE 1) < env.width

-----------------------------------------------------------------------------
(* The ports *)

\* Mutant: INSERT OR REPLACE.
Upsert(p, row) == peers' = [peers EXCEPT ![p] = row]

\* UPDATE peers SET <every column> WHERE id: no row, no effect.
Update(p, row) == peers' = [peers EXCEPT ![p] = IF @ = NoPeer THEN NoPeer ELSE row]

\* Mutant: foreign keys are off.
NoForeignKeys(p, row) == FALSE

\* FOREIGN KEY (interface_id): the write is refused.
Dangling(p, row) == peers[p] # NoPeer /\ row.iface \notin ifaces

\* Every caller ignores the result: without a link nothing happens.
SetEntry(i, key, entry) ==
    /\ kern' = [kern EXCEPT ![i] = IF @ = NoLink THEN NoLink ELSE [@ EXCEPT ![key] = entry]]
    /\ missed' = missed \ {<<i, key>>}

\* The device cannot be opened or refuses: the error is ignored as well.
EntryFails(i, key) ==
    /\ "wg" \in env.ops
    /\ kern' = kern
    /\ missed' = missed \cup {<<i, key>>}

apply_peer(i, row) == SetEntry(i, row.key, row.ip) \/ EntryFails(i, row.key)

remove_peer(i, key) == SetEntry(i, key, NoPeer) \/ EntryFails(i, key)

\* Push a copy to its interface: apply or remove by the flag.
Push(row) == IF row.enabled THEN apply_peer(row.iface, row) ELSE remove_peer(row.iface, row.key)

\* Mutant: no check.
AnyAddress(ip, i, p) == TRUE

\* The network is in the list of another peer of the interface.
ensure_no_conflict(ip, i, p) == \A q \in OnIface(i) \ {p} : peers[q].ip # ip

Free(i) == env.hosts \ {peers[q].ip : q \in OnIface(i)}

next_free_ipv4(i) == Min(Free(i))

\* The enabled peers of an interface as interface_up configures them; of two
\* rows with one key the later one counts.
Configured(i) ==
    [k \in Keys |->
        LET same == {q \in OnIface(i) : peers[q].enabled /\ peers[q].key = k}
        IN  IF same = {} THEN NoPeer ELSE peers[Max(same)].ip]

\* A key pair that exists nowhere yet.
Unused(k) ==
    /\ \A p \in Live : k \notin {peers[p].key, peers[p].sealed}
    /\ \A i \in ifaces : kern[i] # NoLink => kern[i][k] = NoPeer
    /\ \A w \in Workers : req[w].op \in {"create", "update"} => k \notin {Copy(w).key, Copy(w).sealed}

\* generate_keypair: which of the unused pairs does not matter.
Fresh(k) == Unused(k) /\ k = CHOOSE j \in Keys : Unused(j)

\* What can stand in a key field of peer p's form.
Field(p) == {Blank} \cup {k \in env.typed : env.reuse \/ \A q \in Live \ {p} : peers[q].key # k}

-----------------------------------------------------------------------------
(* create_with_server_keypair *)

\* bound: a create begins only while an id is left for it
BeginCreate(w) ==
    /\ "create" \in env.ops /\ req[w].pc = "idle" /\ Admitted
    /\ Cardinality({v \in Workers : req[v].op = "create"}) < Cardinality(env.peers \ used)
    /\ \E i \in Ifaces : req' = [req EXCEPT ![w] = [Idle EXCEPT !.op = "create", !.pc = "plan", !.iface = i]]
    /\ UNCHANGED <<ifaces, up, peers, used, kern, missed, tick, open, env>>

\* BYOK: a private key decides, then a public key, else a fresh pair.
NewKeys(prv, pub, k) ==
    \/ prv # Blank /\ k = [key |-> prv, sealed |-> prv]
    \/ prv = Blank /\ pub # Blank /\ k = [key |-> pub, sealed |-> Blank]
    \/ prv = Blank /\ pub = Blank /\ Fresh(k.key) /\ k.sealed = k.key

\* The address asked for, or the next free one of the pool.
Allocation(i, want) == IF want = Blank THEN next_free_ipv4(i) ELSE want

Refused(i, want) ==
    \/ i \notin ifaces
    \/ want = Blank /\ Free(i) = {}
    \/ want # Blank /\ ~ensure_no_conflict(want, i, 0)

PlanCreate(w) ==
    /\ At(w, {"create"}, "plan")
    /\ LET i == req[w].iface IN
       \E want \in env.hosts \cup {Blank} :
          \/ Refused(i, want) /\ End(w)
          \/ /\ ~Refused(i, want)
             /\ \E prv, pub \in Field(0), k \in [key : Keys, sealed : Keys \cup {Blank}] :
                   /\ NewKeys(prv, pub, k)
                   /\ req' = [req EXCEPT ![w].pc = "save",
                         ![w].row = [iface |-> i, key |-> k.key, sealed |-> k.sealed,
                                     ip |-> Allocation(i, want), enabled |-> TRUE, sched |-> FALSE,
                                     quota |-> FALSE]]
    /\ UNCHANGED <<ifaces, up, peers, used, kern, missed, tick, open, env>>

InsertPeer(w) ==
    /\ At(w, {"create"}, "save")
    /\ \/ /\ Copy(w).iface \notin ifaces
          /\ End(w)
          /\ UNCHANGED <<peers, used>>
       \/ /\ Copy(w).iface \in ifaces
          /\ LET p == Min(env.peers \ used) IN
             /\ peers' = [peers EXCEPT ![p] = Copy(w)]
             /\ used' = used \cup {p}
             /\ req' = [req EXCEPT ![w].id = p, ![w].pc = "push"]
    /\ UNCHANGED <<ifaces, up, kern, missed, tick, open, env>>

-----------------------------------------------------------------------------
(* update, set_enabled and delete *)

Begin(w, op) ==
    /\ op \in env.ops /\ req[w].pc = "idle" /\ Admitted
    /\ \E p \in used : req' = [req EXCEPT ![w] = [Idle EXCEPT !.op = op, !.pc = "get", !.id = p]]
    /\ UNCHANGED <<ifaces, up, peers, used, kern, missed, tick, open, env>>

get(w) ==
    /\ At(w, {"update", "toggle", "delete"}, "get")
    /\ LET row == peers[req[w].id]
           old == [iface |-> row.iface, key |-> row.key]
       IN  \/ row = NoPeer /\ End(w)
           \/ row # NoPeer /\ req[w].op = "update"
              /\ req' = [req EXCEPT ![w].row = row, ![w].old = old, ![w].pc = "plan"]
           \/ row # NoPeer /\ req[w].op = "toggle"
              /\ \E enabled \in BOOLEAN :
                    req' = [req EXCEPT ![w].row = [row EXCEPT !.enabled = enabled], ![w].pc = "save"]
           \/ row # NoPeer /\ req[w].op = "delete"
              /\ req' = [req EXCEPT ![w].row = [row EXCEPT !.enabled = FALSE], ![w].pc = "push"]
    /\ UNCHANGED <<ifaces, up, peers, used, kern, missed, tick, open, env>>

\* Mutant: an empty private key field counts as a changed key.
BlankCounts(row, prv, pub) ==
    IF prv # row.sealed THEN [key |-> prv, sealed |-> prv] ELSE [key |-> row.key, sealed |-> row.sealed]

\* Mutant: a new public key keeps the old private one.
KeepsSealed(row, prv, pub) ==
    IF prv # Blank THEN [key |-> prv, sealed |-> prv]
    ELSE [key |-> IF pub = Blank THEN row.key ELSE pub, sealed |-> row.sealed]

\* BYOK: a changed private key decides; a changed public key drops the private one.
ChangedKeys(row, prv, pub) ==
    IF prv # Blank /\ prv # row.sealed THEN [key |-> prv, sealed |-> prv]
    ELSE IF prv = Blank /\ pub # Blank /\ pub # row.key THEN [key |-> pub, sealed |-> Blank]
    ELSE [key |-> row.key, sealed |-> row.sealed]

PlanUpdate(w) ==
    /\ At(w, {"update"}, "plan")
    /\ \E i \in Ifaces, ip \in env.hosts, enabled \in env.flags, prv, pub \in Field(req[w].id) :
          IF i \notin ifaces \/ ~ensure_no_conflict(ip, i, req[w].id) THEN End(w)
          ELSE LET k == ChangedKeys(Copy(w), prv, pub) IN
               req' = [req EXCEPT ![w].pc = "save",
                         ![w].row = [@ EXCEPT !.iface = i, !.ip = ip, !.enabled = enabled,
                                              !.key = k.key, !.sealed = k.sealed]]
    /\ UNCHANGED <<ifaces, up, peers, used, kern, missed, tick, open, env>>

SavePeer(w) ==
    /\ At(w, {"update", "toggle"}, "save")
    /\ IF Dangling(req[w].id, Copy(w))
       THEN End(w) /\ UNCHANGED peers
       ELSE /\ Update(req[w].id, Copy(w))
            /\ Goto(w, IF req[w].op = "update" THEN "clean" ELSE "push")
    /\ UNCHANGED <<ifaces, up, used, kern, missed, tick, open, env>>

\* Mutant: leaves the old kernel entry.
KeepStale(w) ==
    /\ At(w, {"update"}, "clean")
    /\ Goto(w, "push")
    /\ UNCHANGED <<ifaces, up, peers, used, kern, missed, tick, open, env>>

\* update moved the peer or changed its key: remove the old kernel entry
RemoveStale(w) ==
    /\ At(w, {"update"}, "clean")
    /\ LET old == req[w].old IN
       IF (old.iface # Copy(w).iface /\ old.iface \in ifaces) \/
          (old.iface = Copy(w).iface /\ old.key # Copy(w).key)
       THEN remove_peer(old.iface, old.key)
       ELSE UNCHANGED <<kern, missed>>
    /\ Goto(w, "push")
    /\ UNCHANGED <<ifaces, up, peers, used, tick, open, env>>

\* The last step of create and update, which found the interface earlier, and of
\* set_enabled, and the middle one of delete, which find it now.
PushPeer(w) ==
    /\ req[w].pc = "push"
    /\ \/ req[w].op \in {"create", "update"} /\ Push(Copy(w)) /\ End(w)
       \/ /\ req[w].op \in {"toggle", "delete"} /\ Copy(w).iface \in ifaces
          /\ Push(Copy(w))
          /\ IF req[w].op = "delete" THEN Goto(w, "drop") ELSE End(w)
       \/ /\ req[w].op \in {"toggle", "delete"} /\ Copy(w).iface \notin ifaces
          /\ End(w)
          /\ UNCHANGED <<kern, missed>>
    /\ UNCHANGED <<ifaces, up, peers, used, tick, open, env>>

DeletePeer(w) ==
    /\ At(w, {"delete"}, "drop")
    /\ peers' = [peers EXCEPT ![req[w].id] = NoPeer]
    /\ End(w)
    /\ UNCHANGED <<ifaces, up, used, kern, missed, tick, open, env>>

-----------------------------------------------------------------------------
(* What InterfaceService does to peers; see InterfaceService for the rest *)

BeginIface(w, op, pc) ==
    /\ op \in env.ops /\ req[w].pc = "idle" /\ Admitted
    /\ \E i \in ifaces : req' = [req EXCEPT ![w] = [Idle EXCEPT !.op = op, !.pc = pc, !.iface = i]]
    /\ UNCHANGED <<ifaces, up, peers, used, kern, missed, tick, open, env>>

\* start: list_for_interface ...
ListPeers(w) ==
    /\ At(w, {"start"}, "list")
    /\ req' = [req EXCEPT ![w].list = Configured(req[w].iface), ![w].pc = "push"]
    /\ UNCHANGED <<ifaces, up, peers, used, kern, missed, tick, open, env>>

\* ... then interface_up replaces what the link had; its later steps may still fail
interface_up(w) ==
    /\ At(w, {"start"}, "push")
    /\ kern' = [kern EXCEPT ![req[w].iface] = req[w].list]
    /\ missed' = missed \ ({req[w].iface} \X Keys)
    /\ Goto(w, "mark") \/ ("wg" \in env.ops /\ End(w))
    /\ UNCHANGED <<ifaces, up, peers, used, tick, open, env>>

\* stop, and the first half of delete
interface_down(w) ==
    /\ At(w, {"stop", "drop"}, "push")
    /\ kern' = [kern EXCEPT ![req[w].iface] = NoLink]
    /\ Goto(w, IF req[w].op = "drop" THEN "drop" ELSE "mark")
    /\ UNCHANGED <<ifaces, up, peers, used, missed, tick, open, env>>

\* interface_up fails before it has replaced the peers: start ends, and has perhaps
\* made the link
UpFails(w) ==
    /\ "wg" \in env.ops /\ At(w, {"start"}, "push")
    /\ \/ kern[req[w].iface] = NoLink /\ kern' = [kern EXCEPT ![req[w].iface] = Nobody]
       \/ kern' = kern
    /\ missed' = missed \cup ({req[w].iface} \X Keys)
    /\ End(w)
    /\ UNCHANGED <<ifaces, up, peers, used, tick, open, env>>

\* interface_down fails: stop ends, delete goes on
DownFails(w) ==
    /\ "wg" \in env.ops /\ At(w, {"stop", "drop"}, "push")
    /\ IF req[w].op = "drop" THEN Goto(w, "drop") ELSE End(w)
    /\ UNCHANGED <<ifaces, up, peers, used, kern, missed, tick, open, env>>

\* the last step of start and stop: the row gets its status
MarkStatus(w) ==
    /\ At(w, {"start", "stop"}, "mark")
    /\ up' = ifaces \cap IF req[w].op = "start" THEN up \cup {req[w].iface} ELSE up \ {req[w].iface}
    /\ End(w)
    /\ UNCHANGED <<ifaces, peers, used, kern, missed, tick, open, env>>

\* DELETE FROM interfaces, ON DELETE CASCADE
DeleteIface(w) ==
    /\ At(w, {"drop"}, "drop")
    /\ ifaces' = ifaces \ {req[w].iface} /\ up' = up \ {req[w].iface}
    /\ peers' = [p \in PeerIds |-> IF p \in OnIface(req[w].iface) THEN NoPeer ELSE peers[p]]
    /\ End(w)
    /\ UNCHANGED <<used, kern, missed, tick, open, env>>

\* a request is dropped at an await, or a repository call fails; a call that still runs
\* counts as the request's last step
Abandon(w) ==
    /\ "abandon" \in env.ops
    /\ req[w].pc # "idle"
    /\ End(w)
    /\ UNCHANGED <<ifaces, up, peers, used, kern, missed, tick, open, env>>

-----------------------------------------------------------------------------
(* The schedule enforcer *)

\* Mutant: disables outside the window and never enables again.
DisableOnly ==
    /\ tick.pc = "idle" /\ Admitted
    /\ LET due == {p \in Live : peers[p].sched /\ peers[p].enabled /\ ~open} IN
       /\ due # {}
       /\ tick' = [pc |-> "save", todo |-> [p \in PeerIds |->
                     IF p \in due THEN [peers[p] EXCEPT !.enabled = FALSE] ELSE NoPeer]]
    /\ UNCHANGED <<ifaces, up, peers, used, kern, missed, req, open, env>>

\* run_once reads the clock and all rows once; later ones are written from these copies.
run_once ==
    /\ tick.pc = "idle" /\ Admitted
    /\ LET due == {p \in Live : peers[p].sched /\ peers[p].enabled # open} IN
       /\ due # {}
       /\ tick' = [pc |-> "save", todo |-> [p \in PeerIds |->
                     IF p \in due THEN [peers[p] EXCEPT !.enabled = open] ELSE NoPeer]]
    /\ UNCHANGED <<ifaces, up, peers, used, kern, missed, req, open, env>>

Due == Min({p \in PeerIds : tick.todo[p] # NoPeer})

NextDue == LET rest == [tick.todo EXCEPT ![Due] = NoPeer]
           IN  tick' = IF rest = Nothing THEN Asleep ELSE [pc |-> "save", todo |-> rest]

SaveDue ==
    /\ tick.pc = "save"
    /\ IF Dangling(Due, tick.todo[Due])
       THEN tick' = Asleep /\ UNCHANGED peers
       ELSE Update(Due, tick.todo[Due]) /\ tick' = [tick EXCEPT !.pc = "push"]
    /\ UNCHANGED <<ifaces, up, used, kern, missed, req, open, env>>

\* an interface that vanished ends the round
PushDue ==
    /\ tick.pc = "push"
    /\ \/ tick.todo[Due].iface \in ifaces /\ Push(tick.todo[Due]) /\ NextDue
       \/ tick.todo[Due].iface \notin ifaces /\ tick' = Asleep /\ UNCHANGED <<kern, missed>>
    /\ UNCHANGED <<ifaces, up, peers, used, req, open, env>>

\* The column is written by hand or by a restored backup: no form sets it.
SetSchedule ==
    /\ "schedule" \in env.ops
    /\ \E p \in Live : ~peers[p].sched /\ peers' = [peers EXCEPT ![p].sched = TRUE]
    /\ UNCHANGED <<ifaces, up, used, kern, missed, req, tick, open, env>>

ClockTurns ==
    /\ "schedule" \in env.ops /\ open' = ~open
    /\ UNCHANGED <<ifaces, up, peers, used, kern, missed, req, tick, env>>

Enforce == run_once \/ SaveDue \/ PushDue

\* The steps of requests other than interface_up, which replaces a link's peers.
Handle(w) ==
    \/ BeginCreate(w) \/ \E op \in {"update", "toggle", "delete"} : Begin(w, op)
    \/ BeginIface(w, "start", "list") \/ BeginIface(w, "stop", "push") \/ BeginIface(w, "drop", "push")
    \/ PlanCreate(w) \/ InsertPeer(w) \/ get(w) \/ PlanUpdate(w) \/ SavePeer(w) \/ RemoveStale(w)
    \/ PushPeer(w) \/ DeletePeer(w) \/ ListPeers(w) \/ interface_down(w) \/ UpFails(w)
    \/ DownFails(w) \/ MarkStatus(w) \/ DeleteIface(w) \/ Abandon(w)

\* What leaves the kernel's entries in place or changes one of them, or drops a link.
Tend == (\E w \in Workers : Handle(w)) \/ Enforce \/ SetSchedule \/ ClockTurns

Next == Tend \/ \E w \in Workers : interface_up(w)

Spec == Init /\ [][Next]_vars

-----------------------------------------------------------------------------
Quiet == (\A w \in Workers : req[w].pc = "idle") /\ tick.pc = "idle"

(***************************************************************************)
(* BYOK: whatever edits race, a private key the server keeps for a peer    *)
(* belongs to the public key in the same row, so the .conf it renders      *)
(* works.                                                                  *)
(***************************************************************************)
KeyPairsMatch == \A p \in Live : peers[p].sealed \in {Blank, peers[p].key}

(***************************************************************************)
(* Stale whole-row writes of edits and of the enforcer never attach a peer *)
(* to an interface that was deleted meanwhile.                             *)
(***************************************************************************)
NoOrphans == \A p \in Live : peers[p].iface \in ifaces

\* A step gives no row back to an id that was given out.
StaysDeleted == \A p \in used : peers[p] = NoPeer => peers'[p] = NoPeer

(***************************************************************************)
(* A deleted peer, or one that went with its interface, never comes back.  *)
(***************************************************************************)
NoResurrection == [][StaysDeleted]_vars

\* One thing at a time, to its end.
Orderly == env.width = 1 /\ "abandon" \notin env.ops

\* A kernel entry of an interface is an enabled peer's, with that peer's address.
EntryBacked(i, k) ==
    kern[i][k] # NoPeer =>
        \E p \in OnIface(i) : peers[p].enabled /\ peers[p].key = k /\ peers[p].ip = kern[i][k]

(***************************************************************************)
(* While requests and rounds of the enforcer do not overlap, whatever      *)
(* sequence of creates, moves, key changes, toggles, starts and deletes    *)
(* there was, the kernel lets in exactly the enabled peers of each         *)
(* interface that has a link, each with its own address.  Rows that were   *)
(* given one key share a kernel entry, which either one's removal takes    *)
(* away; it still never lets in a peer that is disabled or gone.  Pushes   *)
(* and removals ignore their errors: an entry whose last call failed may   *)
(* be anything, in the kernel of a peer that was disabled, say, but the    *)
(* failure spoils no other entry, and the next call that succeeds, for     *)
(* that entry or for the whole link, mends it.                             *)
(***************************************************************************)
KernelMatchesTable ==
    (Orderly /\ Quiet) =>
        \A i \in ifaces, k \in Keys : kern[i] # NoLink /\ <<i, k>> \notin missed =>
            EntryBacked(i, k) /\ (~env.reuse => kern[i][k] = Configured(i)[k])

(***************************************************************************)
(* Removing a peer, disabling it, moving it or changing its key ends its   *)
(* access, however the requests overlap.  The comment in update, "Remove   *)
(* the peer's stale kernel entry".                                         *)
(***************************************************************************)
NoStaleAccess == Quiet => \A i \in ifaces, k \in Keys : kern[i] # NoLink => EntryBacked(i, k)

(***************************************************************************)
(* ensure_no_conflict and next_free_ipv4: while requests do not overlap,   *)
(* no two peers of an interface have the same address.                     *)
(***************************************************************************)
UniqueAddresses ==
    env.width = 1 => \A i \in ifaces : \A p, q \in OnIface(i) : peers[p].ip = peers[q].ip => p = q
=============================================================================
