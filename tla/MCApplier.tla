------------------------------ MODULE MCApplier ------------------------------
EXTENDS Applier

\* Peers: this one on store 1, one on store 2, a new one on store 3, and a
\* second peer id on store 2.
MCSelf == [id |-> 1, store |-> 1]
P2  == [id |-> 2, store |-> 2]
P3  == [id |-> 3, store |-> 3]
P2b == [id |-> 4, store |-> 2]

\* Keys 1 and 2 are in the region; key 3 belongs to the next region.
MCInitRegion == [start |-> 0, end |-> 3, peers |-> {MCSelf, P2}, confVer |-> 1, version |-> 1]

Put(k, v) == [op |-> "put", key |-> k, val |-> v]
Del(k)    == [op |-> "delete", key |-> k, val |-> Nil]

Cmd == [type |-> "normal", stale |-> FALSE, reqs |-> <<>>, change |-> "add", peer |-> MCSelf,
        splitKey |-> 0, peerCountOk |-> TRUE, index |-> 0, term |-> 1]

Normal(reqs)       == [Cmd EXCEPT !.reqs = reqs]
ChangePeer(kind, p) == [Cmd EXCEPT !.type = "changePeer", !.change = kind, !.peer = p]
Split(k, ok)       == [Cmd EXCEPT !.type = "split", !.splitKey = k, !.peerCountOk = ok]
CompactLog(i, t)   == [Cmd EXCEPT !.type = "compact", !.index = i, !.term = t]

\* Commands covering each outcome of each handler.
MCCmds ==
    { Normal(<<Put(1, "a")>>),
      Normal(<<Put(2, "b"), Put(3, "b")>>),      \* the last request fails
      Normal(<<Del(1)>>),
      [Normal(<<Put(2, "a")>>) EXCEPT !.stale = TRUE],
      ChangePeer("add", P3),
      ChangePeer("remove", P2b),                 \* unmatched peer
      ChangePeer("remove", MCSelf),
      Split(2, TRUE),
      Split(0, TRUE),                            \* missing split key
      CompactLog(2, 1),
      CompactLog(3, 1),
      CompactLog(3, 0),                          \* old format
      [Cmd EXCEPT !.type = "transferLeader"] }

\* A command whose first request is outside the region and whose second is
\* inside.
MCStraddling == { Normal(<<Put(3, "a"), Put(1, "a")>>) }
================================================================================
