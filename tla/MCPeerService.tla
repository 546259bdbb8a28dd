--------------------------- MODULE MCPeerService ---------------------------
\* Model-checking instances of PeerService.
EXTENDS PeerService, TLC

\* Everything that succeeds, one at a time.
Serial == [ops |-> WorkerOps \ {"abandon", "wg", "quota", "metering"}, width |-> 1, reuse |-> FALSE,
           flags |-> BOOLEAN, typed |-> Keys, peers |-> PeerIds, hosts |-> Hosts]

\* One at a time, and forms may repeat the key of another peer.
Repeated == [Serial EXCEPT !.ops = {"create", "update", "toggle", "delete", "start"}, !.reuse = TRUE]

\* One at a time, and netlink calls may fail.
Failing == [Serial EXCEPT !.ops = {"create", "update", "toggle", "delete", "start", "stop", "drop", "wg"},
                          !.flags = {TRUE}, !.hosts = {Min(Hosts)}]

\* Two requests race for one peer and may be dropped.
Racing == [ops |-> {"create", "update", "delete", "drop", "abandon"}, width |-> 2, reuse |-> TRUE,
           flags |-> {TRUE}, typed |-> Keys, peers |-> {Min(PeerIds)}, hosts |-> {Min(Hosts)}]

\* Two requests, nothing dropped.
Toggled == [Racing EXCEPT !.ops = {"create", "toggle"}, !.reuse = FALSE]

RequestEnvs == {Serial, Repeated, Failing, Racing}
OnlyToggled == {Toggled}

TaskSymmetry == Permutations(Workers)
============================================================================
