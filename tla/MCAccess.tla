------------------------------ MODULE MCAccess ------------------------------
(* TLC's instance of Access.                                               *)
EXTENDS Access, TLC

CONSTANTS i1, i2, w1, w2, s1, t1, d1

Nobody == [ips |-> {}, workers |-> {}, keys |-> {"right"}, ticks |-> 0,
           before |-> {}, browsers |-> {}, aging |-> {}, emitters |-> {},
           sockets |-> {}, directs |-> {}, entries |-> 0]

Feed == [Nobody EXCEPT !.before = {s1}, !.emitters = {"loop"}, !.sockets = Sockets,
                         !.entries = 2]

(* Two addresses; two requests of one; one address for longer; two         *)
(* browsers; a feed of two sockets with a thread that logs, and with a     *)
(* broadcast beside it.                                                    *)
MCConfigs ==
    {[Nobody EXCEPT !.ips = {i1, i2}, !.workers = {w1}, !.ticks = 2],
     [Nobody EXCEPT !.ips = {i1}, !.workers = {w1, w2}, !.keys = {"wrong", "right"},
                    !.ticks = 2],
     [Nobody EXCEPT !.ips = {i1}, !.workers = {w1}, !.keys = {"wrong", "right"},
                    !.ticks = 4],
     [Nobody EXCEPT !.browsers = Browsers, !.aging = Sessions],
     [Feed EXCEPT !.emitters = {"loop", t1}, !.entries = 3],
     [Feed EXCEPT !.directs = {d1}]}

Symmetry == Permutations(Sockets)
=============================================================================
