------------------------------- MODULE Access -------------------------------
(***************************************************************************)
(* What stands in front of the service: the rate limiter with the API      *)
(* keys, and the dashboard's sessions with its live feed.                  *)
(***************************************************************************)
EXTENDS RateLimiter, AdminFeed

CONSTANT
    Configs  \* who is about: [ips, workers, keys, ticks, before, browsers,
             \*                aging, emitters, sockets, directs, entries]

ASSUME AccessAssumption ==
    /\ {MaxQueue, MaxBuffer} \subseteq Nat \ {0}
    /\ "loop" \notin Threads /\ "feed" \notin Directs
    /\ \A c \in Configs :
           /\ c.ips \subseteq Ips /\ c.workers \subseteq Workers
           /\ c.keys \subseteq {"wrong", "right"} /\ c.ticks \in 0 .. MaxClock
           /\ c.before \subseteq Sessions /\ c.aging \subseteq Sessions
           /\ c.browsers \subseteq Browsers
           /\ c.emitters \subseteq Emitters /\ c.sockets \subseteq Sockets
           /\ c.directs \subseteq Directs

VARIABLE about

accessVars == <<limiterVars, feedVars, about>>

Init == about \in Configs /\ LimiterInit /\ SessionsInit(about.before) /\ FeedInit

Next ==
    /\ UNCHANGED about
    /\ \/ Limiter(about.ips, about.workers, about.keys, about.ticks) /\ UNCHANGED feedVars
       \/ /\ SessionWork(about.browsers, about.aging)
          /\ UNCHANGED <<limiterVars, logVars, socketVars>>
       \/ /\ FeedWork(about.emitters, about.sockets, about.directs, about.entries)
          /\ UNCHANGED limiterVars

Spec == Init /\ [][Next]_accessVars

TypeOK ==
    /\ LimiterTypeOK /\ SessionsTypeOK /\ FeedTypeOK
    /\ about \in Configs

(* What the dashboard may rely on: a session that ended stays ended, a     *)
(* connected socket misses nothing of the feed, and ids keep their order.  *)
DashboardHolds == EndedStays /\ NoneMissed /\ InOrder
=============================================================================
