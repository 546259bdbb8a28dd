-------------------------- MODULE InterfaceService --------------------------
(***************************************************************************)
(* InterfaceService (crates/wireforge-core/src/application/services/       *)
(* interface.rs) with the interfaces table, the WireGuard links of the     *)
(* kernel and the NAT state of the host.  A request is an async task: it   *)
(* can be interleaved with others, and dropped, at every await, so each    *)
(* port call is one step.  The call that a dropped request has under way   *)
(* still takes its effect, whenever that is.  NAT calls are the atomic     *)
(* ones of NatHost, which NatAdapter implements while they do not overlap. *)
(***************************************************************************)
EXTENDS NatHost, FiniteSets

CONSTANTS
    Ids,        \* row ids; Uuid::now_v7 never repeats one
    Requests,   \* tasks that serve web and REST requests
    NoGw,       \* no gateway configured
    NoRow,      \* no such row
    Envs        \* the environments to consider: subset of Environment

\* "abandon": a request goes no further than an await because the 30 s TimeoutLayer
\* or a closed connection drops it, because a repository or key call fails, or because
\* interface_up configures the link but fails to set the routes.
\* "wg": a WireGuard call whose result is ignored fails.  "gateway": the gateway
\* is no host interface any more.  "restart", "reboot": of the server, the host.
SvcMishaps == {"abandon", "wg", "gateway", "restart", "reboot"}

\* What the properties assume of the surroundings.  faults: host calls that may fail
\* in NAT calls; mishaps: what else may go wrong; width: requests served at once;
\* gws: the gateways a form may name; dual: whether the IPv6 CIDR of a form may be
\* left out, set, or either.
Environment == [faults : SUBSET Faults, mishaps : SUBSET SvcMishaps, width : Nat \ {0},
                gws : SUBSET Gateways, dual : SUBSET BOOLEAN]

ASSUME EnvsAssumption == \A e \in Envs : e \in Environment /\ e.dual # {}
ASSUME NoRowAssumption == NoGw \notin Gateways
ASSUME TasksAssumption == Ids # {} /\ IsFiniteSet(Requests)

VARIABLES
    rows,       \* the interfaces table
    used,       \* ids that have been given out
    link,       \* the kernel's WireGuard links
    host,       \* NAT state, see NatHost
    bootFwd,    \* the sysctls the host booted with
    req,        \* what each request is doing
    env         \* the environment, which does not change

vars == <<rows, used, link, host, bootFwd, req, env>>

Row == [name : Wgs, gw : Gateways \cup {NoGw}, v6 : BOOLEAN, status : {"up", "down"}]

ASSUME NoRowTypeAssumption == NoRow \notin Row

Links == {"absent", "bare", "up"}

Pcs == {"idle", "find", "insert", "link", "get", "up", "nat", "rollback", "save",
        "unnat", "down", "destroy", "drop", "reup", "reunnat", "renat"}

Request == [op : {"none", "create", "start", "stop", "update", "delete"}, pc : Pcs,
            id : Ids, row : Row, old : Gateways \cup {NoGw},
            gone : BOOLEAN,     \* dropped, and its last call still runs
            alone : BOOLEAN]    \* history: no call of a dropped one was left when it came

TypeOK ==
    /\ rows \in [Ids -> Row \cup {NoRow}]
    /\ used \subseteq Ids
    /\ link \in [Wgs -> Links]
    /\ host \in Host
    /\ bootFwd \in [Fams -> BOOLEAN]
    /\ req \in [Requests -> Request]
    /\ env \in Envs

Idle == [op |-> "none", pc |-> "idle", id |-> CHOOSE i \in Ids : TRUE, old |-> NoGw,
         gone |-> FALSE, alone |-> FALSE,
         row |-> [name |-> CHOOSE w \in Wgs : TRUE, gw |-> NoGw, v6 |-> FALSE, status |-> "down"]]

Init ==
    /\ rows = [i \in Ids |-> NoRow]
    /\ used = {}
    /\ link = [w \in Wgs |-> "absent"]
    /\ bootFwd \in [Fams -> BOOLEAN]
    /\ host = FreshHost(bootFwd)
    /\ req = [r \in Requests |-> Idle]
    /\ env \in Envs

End(r) == req' = [req EXCEPT ![r] = Idle]
\* Nobody polls a dropped request: its call was the last.
Goto(r, pc) == IF req[r].gone THEN End(r) ELSE req' = [req EXCEPT ![r].pc = pc]
At(r, op, pc) == req[r].op = op /\ req[r].pc = pc
Copy(r) == req[r].row
HasGw(row) == row.gw # NoGw

\* A task is there to take the request; a dropped one occupies none.
Admitted(r) ==
    /\ req[r].pc = "idle"
    /\ Cardinality({s \in Requests : req[s].pc # "idle" /\ ~req[s].gone}) < env.width

\* No call is under way, not even one of a dropped request.
NoCalls == \A s \in Requests : req[s].pc = "idle"

-----------------------------------------------------------------------------
(* The ports *)

\* SELECT * FROM interfaces WHERE name
NameTaken(name) == \E i \in Ids : rows[i] # NoRow /\ rows[i].name = name

\* Mutant: a schema without UNIQUE(name).
NoConstraint(name) == FALSE

\* INSERT INTO interfaces fails: the UNIQUE(name) of the schema
InsertFails(name) == NameTaken(name)

\* Mutant: INSERT OR REPLACE.
Upsert(i, row) == rows' = [rows EXCEPT ![i] = row]

\* Mutant: stores the state of the link for the status.
RawStatus(i, row) ==
    rows' = [rows EXCEPT ![i] = IF @ = NoRow THEN NoRow ELSE [row EXCEPT !.status = link[row.name]]]

\* UPDATE interfaces SET <every column but the name> WHERE id: it overwrites what
\* others wrote since the row was read, and does nothing when the row is gone.
Update(i, row) == rows' = [rows EXCEPT ![i] = IF @ = NoRow THEN NoRow ELSE row]

\* interface_up: configure_interface re-establishes the link
Up(name) == link' = [link EXCEPT ![name] = "up"]

\* interface_down: remove_interface deletes the link
Down(name) == link' = [link EXCEPT ![name] = "absent"]

\* a WireGuard call whose error is ignored
BestEffort(effect) == effect \/ ("wg" \in env.mishaps /\ UNCHANGED link)

Remove(row, gw) == host' \in RemoveOutcomes(host, row.name, gw, row.v6, env.faults)

-----------------------------------------------------------------------------
(* create *)

BeginCreate(r) ==
    /\ Admitted(r)
    /\ \E i \in Ids \ used, name \in Wgs, gw \in env.gws \cup {NoGw}, v6 \in env.dual :
          /\ \A s \in Requests : req[s].op = "create" => req[s].id # i
          /\ req' = [req EXCEPT ![r] = [op |-> "create", pc |-> "find", id |-> i, old |-> NoGw,
                         gone |-> FALSE, alone |-> NoCalls,
                         row |-> [name |-> name, gw |-> gw, v6 |-> v6, status |-> "down"]]]
    /\ UNCHANGED <<rows, used, link, host, bootFwd, env>>

find_by_name(r) ==
    /\ At(r, "create", "find")
    /\ IF NameTaken(Copy(r).name) THEN End(r) ELSE Goto(r, "insert")
    /\ UNCHANGED <<rows, used, link, host, bootFwd, env>>

InsertRow(r) ==
    /\ At(r, "create", "insert")
    /\ \/ /\ InsertFails(Copy(r).name)
          /\ End(r)
          /\ UNCHANGED <<rows, used>>
       \/ /\ ~InsertFails(Copy(r).name)
          /\ rows' = [rows EXCEPT ![req[r].id] = Copy(r)]
          /\ used' = used \cup {req[r].id}
          /\ Goto(r, "link")
    /\ UNCHANGED <<link, host, bootFwd, env>>

create_interface(r) ==
    /\ At(r, "create", "link")
    /\ BestEffort(link' = [link EXCEPT ![Copy(r).name] = IF @ = "absent" THEN "bare" ELSE @])
    /\ End(r)
    /\ UNCHANGED <<rows, used, host, bootFwd, env>>

-----------------------------------------------------------------------------
(* start, stop, update and delete begin with get; update also merges the form *)

Begin(r, op) ==
    /\ Admitted(r)
    /\ \E i \in used : req' = [req EXCEPT ![r] = [Idle EXCEPT !.op = op, !.pc = "get", !.id = i,
                                                              !.alone = NoCalls]]
    /\ UNCHANGED <<rows, used, link, host, bootFwd, env>>

\* The first port call after get: NAT comes down only if a gateway is configured.
AfterGet(op, row) ==
    CASE op = "start"  -> "up"
      [] op = "update" -> "save"
      [] OTHER         -> IF HasGw(row) THEN "unnat" ELSE "down"

get(r) ==
    /\ req[r].pc = "get"
    /\ LET row == rows[req[r].id] IN
       \/ row = NoRow /\ End(r)
       \/ /\ row # NoRow
          /\ req[r].op # "update"
          /\ req' = [req EXCEPT ![r].row = row, ![r].pc = AfterGet(req[r].op, row)]
       \/ /\ row # NoRow
          /\ req[r].op = "update"
          /\ \E gw \in env.gws \cup {NoGw}, v6 \in env.dual :
                req' = [req EXCEPT ![r].row = [row EXCEPT !.gw = gw, !.v6 = v6],
                                   ![r].old = row.gw,
                                   ![r].pc  = AfterGet("update", row)]
    /\ UNCHANGED <<rows, used, link, host, bootFwd, env>>

(* start *)

\* configure_interface on a link that is gone may fail, which ends the request
interface_up(r) ==
    /\ At(r, "start", "up")
    /\ \/ Up(Copy(r).name) /\ Goto(r, IF HasGw(Copy(r)) THEN "nat" ELSE "save")
       \/ link[Copy(r).name] = "absent" /\ End(r) /\ UNCHANGED link
    /\ UNCHANGED <<rows, used, host, bootFwd, env>>

\* Mutant: drops the error of apply.
IgnoreApplyError(r) ==
    /\ At(r, "start", "nat")
    /\ \E o \in ApplyOutcomes(host, Copy(r).name, Copy(r).gw, Copy(r).v6, env.faults) : host' = o.host
    /\ Goto(r, "save")
    /\ UNCHANGED <<rows, used, link, bootFwd, env>>

\* validate_gateway, then NatPort::apply
ApplyNat(r) ==
    /\ At(r, "start", "nat")
    /\ \/ \E o \in ApplyOutcomes(host, Copy(r).name, Copy(r).gw, Copy(r).v6, env.faults) :
             /\ host' = o.host
             /\ Goto(r, IF o.ok THEN "save" ELSE "rollback")
       \/ "gateway" \in env.mishaps /\ Goto(r, "rollback") /\ UNCHANGED host
    /\ UNCHANGED <<rows, used, link, bootFwd, env>>

RollBack(r) ==
    /\ At(r, "start", "rollback")
    /\ BestEffort(Down(Copy(r).name))
    /\ End(r)
    /\ UNCHANGED <<rows, used, host, bootFwd, env>>

MarkUp(r) ==
    /\ At(r, "start", "save")
    /\ Update(req[r].id, [Copy(r) EXCEPT !.status = "up"])
    /\ End(r)
    /\ UNCHANGED <<used, link, host, bootFwd, env>>

(* stop *)

\* also the first step of delete
RemoveNat(r) ==
    /\ req[r].op \in {"stop", "delete"} /\ req[r].pc = "unnat"
    /\ Remove(Copy(r), Copy(r).gw)
    /\ Goto(r, "down")
    /\ UNCHANGED <<rows, used, link, bootFwd, env>>

\* removing a link that is gone may fail, which ends the request
interface_down(r) ==
    /\ At(r, "stop", "down")
    /\ \/ Down(Copy(r).name) /\ Goto(r, "save")
       \/ link[Copy(r).name] = "absent" /\ End(r) /\ UNCHANGED link
    /\ UNCHANGED <<rows, used, host, bootFwd, env>>

MarkDown(r) ==
    /\ At(r, "stop", "save")
    /\ Update(req[r].id, [Copy(r) EXCEPT !.status = "down"])
    /\ End(r)
    /\ UNCHANGED <<used, link, host, bootFwd, env>>

(* update *)

SaveForm(r) ==
    /\ At(r, "update", "save")
    /\ Update(req[r].id, Copy(r))
    /\ IF Copy(r).status = "up" THEN Goto(r, "reup") ELSE End(r)
    /\ UNCHANGED <<used, link, host, bootFwd, env>>

\* NAT: remove through the old gateway, apply through the new one
AfterReup(r) == IF req[r].old # NoGw THEN "reunnat" ELSE "renat"

Reconfigure(r) ==
    /\ At(r, "update", "reup")
    /\ BestEffort(Up(Copy(r).name))
    /\ Goto(r, AfterReup(r))
    /\ UNCHANGED <<rows, used, host, bootFwd, env>>

\* Mutant: removes through the gateway of the form.
RemoveNewGateway(r) ==
    /\ At(r, "update", "reunnat")
    /\ Remove(Copy(r), Copy(r).gw)
    /\ Goto(r, "renat")
    /\ UNCHANGED <<rows, used, link, bootFwd, env>>

RemoveOldNat(r) ==
    /\ At(r, "update", "reunnat")
    /\ Remove(Copy(r), req[r].old)
    /\ Goto(r, "renat")
    /\ UNCHANGED <<rows, used, link, bootFwd, env>>

\* Mutant: takes an unchanged gateway to be in place already.
SkipUnchanged(r) ==
    /\ At(r, "update", "renat")
    /\ IF Copy(r).gw \in {NoGw, req[r].old} THEN UNCHANGED host
       ELSE \E o \in ApplyOutcomes(host, Copy(r).name, Copy(r).gw, Copy(r).v6, env.faults) : host' = o.host
    /\ End(r)
    /\ UNCHANGED <<rows, used, link, bootFwd, env>>

\* an error of this apply is ignored
ApplyNewNat(r) ==
    /\ At(r, "update", "renat")
    /\ \/ ~HasGw(Copy(r)) /\ UNCHANGED host
       \/ /\ HasGw(Copy(r))
          /\ \E o \in ApplyOutcomes(host, Copy(r).name, Copy(r).gw, Copy(r).v6, env.faults) :
                host' = o.host
    /\ End(r)
    /\ UNCHANGED <<rows, used, link, bootFwd, env>>

(* delete *)

TakeDown(r) ==
    /\ req[r].op = "delete" /\ req[r].pc \in {"down", "destroy"}
    /\ BestEffort(Down(Copy(r).name))
    /\ Goto(r, IF req[r].pc = "down" THEN "destroy" ELSE "drop")
    /\ UNCHANGED <<rows, used, host, bootFwd, env>>

DeleteRow(r) ==
    /\ At(r, "delete", "drop")
    /\ rows' = [rows EXCEPT ![req[r].id] = NoRow]
    /\ End(r)
    /\ UNCHANGED <<used, link, host, bootFwd, env>>

-----------------------------------------------------------------------------
(* What interrupts the service *)

\* The future goes away, but a call that a blocking thread or the database worker has
\* taken up runs to its end, perhaps after later requests: it only loses its caller.
Abandon(r) ==
    /\ "abandon" \in env.mishaps
    /\ req[r].pc # "idle" /\ ~req[r].gone
    /\ \/ End(r)
       \/ /\ req[r].pc \notin {"find", "get"}    \* which change nothing
          /\ req' = [req EXCEPT ![r].gone = TRUE]
    /\ UNCHANGED <<rows, used, link, host, bootFwd, env>>

\* Nothing reconciles the host with the table when the server comes back.
Restart ==
    /\ "restart" \in env.mishaps
    /\ host' = Forgotten(host)
    /\ req' = [r \in Requests |-> Idle]
    /\ UNCHANGED <<rows, used, link, bootFwd, env>>

Reboot ==
    /\ "reboot" \in env.mishaps
    /\ host' = FreshHost(bootFwd)
    /\ link' = [w \in Wgs |-> "absent"]
    /\ req' = [r \in Requests |-> Idle]
    /\ UNCHANGED <<rows, used, bootFwd, env>>

Next ==
    \/ \E r \in Requests :
          \/ BeginCreate(r) \/ \E op \in {"start", "stop", "update", "delete"} : Begin(r, op)
          \/ find_by_name(r) \/ InsertRow(r) \/ create_interface(r) \/ get(r)
          \/ interface_up(r) \/ ApplyNat(r) \/ RollBack(r) \/ MarkUp(r)
          \/ RemoveNat(r) \/ interface_down(r) \/ MarkDown(r)
          \/ SaveForm(r) \/ Reconfigure(r) \/ RemoveOldNat(r) \/ ApplyNewNat(r)
          \/ TakeDown(r) \/ DeleteRow(r) \/ Abandon(r)
    \/ Restart
    \/ Reboot

Spec == Init /\ [][Next]_vars

-----------------------------------------------------------------------------
Live == {i \in Ids : rows[i] # NoRow}

\* No request is being served.
Quiet == \A r \in Requests : req[r].pc = "idle"

\* Requests come one after the other and nothing fails.
Peaceful == env.faults = {} /\ env.mishaps = {} /\ env.width = 1

\* The tunnel of a row is up with everything its gateway needs.
Served(row) ==
    /\ link[row.name] = "up"
    /\ HasGw(row) => Masqueraded(host, row.name, row.gw, row.v6)

(***************************************************************************)
(* create checks the name, awaits, and inserts: two racing creates of one  *)
(* name never leave two rows, so kernel links and NAT rules, which are     *)
(* keyed by name, belong to one row at most.                               *)
(***************************************************************************)
UniqueNames == \A i, j \in Live : rows[i].name = rows[j].name => i = j

(***************************************************************************)
(* start, stop and update write back a whole row that they read before     *)
(* several awaits: a row deleted in between never comes back.              *)
(***************************************************************************)
StaysDeleted == \A i \in used : rows[i] = NoRow => rows'[i] = NoRow
NoResurrection == [][StaysDeleted]_vars

(***************************************************************************)
(* start reports success, and records "up", only when the link is up and   *)
(* the gateway masqueraded, whatever failed, was dropped or was restarted  *)
(* before, as long as nothing else runs at the same time: no other request *)
(* and no call that a dropped request has left behind.                     *)
(***************************************************************************)
StartedIsServed ==
    env.width = 1 => \A r \in Requests :
        At(r, "start", "save") /\ req[r].alone /\ ~req[r].gone => Served(Copy(r))

(***************************************************************************)
(* While nothing fails, an interface the table calls up is served, also    *)
(* after update has moved it to another gateway or to none.                *)
(***************************************************************************)
UpIsServed == (Peaceful /\ Quiet) => \A i \in Live : rows[i].status = "up" => Served(rows[i])

\* What an interface that is not up may not leave in the tables of family f.
Leftovers(f) ==
    \/ \E w \in Wgs :
          /\ \A i \in Live : rows[i].name = w => rows[i].status = "down"
          /\ \/ link[w] = "up"
             \/ \E chain \in {"in", "out"} : host.rules[f][[chain |-> chain, dev |-> w]] > 0
    \/ \E g \in Gateways :
          /\ \A i \in Live : rows[i].gw = g => rows[i].status = "down"
          /\ host.rules[f][[chain |-> "masq", dev |-> g]] > 0

(***************************************************************************)
(* While nothing fails, no sequence of create, start, update, stop and     *)
(* delete leaves a tunnel or an iptables rule of an interface that is down *)
(* or deleted.                                                             *)
(***************************************************************************)
NoLeftoversV4 == (Peaceful /\ Quiet) => ~Leftovers("v4")

(***************************************************************************)
(* The comment in start, "so we never leave it up but unmasqueraded": no   *)
(* interface with a gateway has its link up without the masquerade.        *)
(***************************************************************************)
NeverUpUnmasqueraded ==
    Quiet => \A i \in Live : link[rows[i].name] = "up" => Served(rows[i])
=============================================================================
