------------------------ MODULE MCInterfaceService ------------------------
\* Model-checking instances of InterfaceService.
EXTENDS InterfaceService, TLC

CallFaults == {"read", "sysctl", "iptables"}
OneGateway == {CHOOSE g \in Gateways : TRUE}

\* One request at a time: nothing fails; every host call may fail; or requests are dropped, and
\* the server restarts, while their last call may still be under way.
Calm == [faults |-> {}, mishaps |-> {}, width |-> 1, gws |-> Gateways, dual |-> BOOLEAN]
Stormy == [Calm EXCEPT !.faults = CallFaults, !.mishaps = SvcMishaps \ {"abandon"}, !.gws = OneGateway,
                       !.dual = {TRUE}]
Dropping == [Calm EXCEPT !.mishaps = {"abandon", "restart"}, !.gws = OneGateway, !.dual = {FALSE}]

\* Two requests at a time, which may be dropped.
Crowded == [Calm EXCEPT !.mishaps = {"abandon"}, !.width = 2, !.gws = OneGateway, !.dual = {FALSE}]

AllEnvs == {Calm, Stormy, Dropping, Crowded}
CalmV4 == {[Calm EXCEPT !.dual = {FALSE}]}

\* Bounds: ids are stored in a fixed order, since renaming them changes nothing; and where no
\* row has IPv6, nothing reads its sysctl, which is off then.
Bounds ==
    /\ used # {} => Idle.id \in used
    /\ env.dual = {FALSE} => ~bootFwd["v6"]

Tasks == Permutations(Requests)
===========================================================================
