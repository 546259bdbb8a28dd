-------------------------- MODULE MCTrafficPoller --------------------------
\* Model-checking instances of TrafficPoller.
EXTENDS TrafficPoller

\* The enforcer beside one request, for two peers without quotas: the poller sleeps.
Enforced == [ops |-> {"create", "toggle", "delete", "start", "stop", "drop", "schedule"}, width |-> 2,
             reuse |-> FALSE, flags |-> {TRUE}, typed |-> {}, peers |-> PeerIds, hosts |-> Hosts]

\* The poller beside one request, for one peer.
Metered == [Enforced EXCEPT !.ops = {"create", "toggle", "delete", "start", "stop", "drop", "quota"},
                            !.width = 1, !.peers = {Min(PeerIds)}, !.hosts = {Min(Hosts)}]

\* The poller beside the enforcer.
Scheduled == [Metered EXCEPT !.ops = {"create", "schedule", "quota"}, !.width = 2]

\* The poller for two peers, each with a key that no other gets: nothing is deleted.
Shared == [Metered EXCEPT !.ops = {"create", "start", "stop", "quota"}, !.peers = PeerIds, !.hosts = Hosts]

\* The poller while the setting is switched and netlink calls may fail.
Paused == [Metered EXCEPT !.ops = {"create", "toggle", "wg", "quota", "metering"}]

BackgroundEnvs == {Enforced, Metered, Scheduled, Shared, Paused}
=============================================================================
