------------------------------- MODULE MCDiscovery -------------------------------
(* Discovery for TLC: a sweep of two addresses and a broadcast on one      *)
(* network, or two tasks that register HTTP tasks and are cancelled, run   *)
(* by one thread, or a sweep that is cancelled.  The packet of ip2 has the  *)
(* name of its file server twice.                                          *)
EXTENDS Discovery

CONSTANTS sweep, broadcast, request, other, ip1, ip2, net, a, b, c, k1, k2, p1, p2

MCAsks == [o \in {sweep, broadcast} |-> IF o = sweep THEN <<ip1, ip2>> ELSE <<net>>]
MCNames == [ip \in {ip1, ip2} |-> IF ip = ip1 THEN <<a, b>> ELSE <<c, c>>]
MCReached == [o \in {sweep, broadcast} |->
                 IF o = sweep THEN <<{ip1}, {ip2}>> ELSE <<{ip1, ip2}>>]
MCCasts == {[starts |-> {sweep, broadcast}, threads |-> {p1, p2}, cancels |-> {}],
            [starts |-> {request, other}, threads |-> {p1}, cancels |-> {k1, k2} \X {request}],
            [starts |-> {sweep}, threads |-> {p1}, cancels |-> {<<k1, sweep>>}]}
===============================================================================
