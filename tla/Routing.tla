------------------------------- MODULE Routing -------------------------------
(***************************************************************************)
(* Route computation of the simulator (scratch/third.cc) and the ECMP      *)
(* table lookup of a switch (SwitchNode::GetOutDev).                       *)
(*                                                                         *)
(* CalculateRoute runs a BFS from every host over the links that are up,   *)
(* recording for every node the next hops on all shortest paths towards    *)
(* the host, and the delay, transmission delay and bottleneck bandwidth   *)
(* of the path by which the BFS first reached it.  Only switches are       *)
(* enqueued, so no route passes through a host.  The BFS visits the        *)
(* neighbours of a node in the order of std::map<Ptr<Node>, ...>, that is  *)
(* by heap address: an order fixed for a run but not by the program, and   *)
(* chosen here in Init.  Interfaces are named by the neighbour they lead   *)
(* to (nbr2if[node][next].idx is one-to-one).                              *)
(***************************************************************************)
EXTENDS Naturals, FiniteSets, Sequences, SequencesExt, FiniteSetsExt

CONSTANTS
    Hosts,          \* nodes of type 0
    Switches,       \* nodes of type 1
    Links,          \* the links of the topology file, as sets {a, b}
    LinkDelay,      \* channel delay of a link (ns)
    LinkBw,         \* data rate of a link (bit/s)
    DownLinks,      \* links the configuration may take down (link_down_A/B)
    PayloadSize,    \* packet_payload_size
    NsPerSec,       \* 1000000000lu in the transmission-delay formula
    BwMax,          \* 0xffffffffffffffff: bw[host] in the BFS
    MaxLinkDowns,   \* bound: main schedules TakeDownLink at most once
    Orders          \* the heap-address orders (ranks of the nodes) checked

Nodes == Hosts \cup Switches

ASSUME RoutingAssumption ==
    /\ Hosts \cap Switches = {}
    /\ Links \subseteq {l \in SUBSET Nodes : Cardinality(l) = 2}
    /\ DownLinks \subseteq Links
    /\ \A l \in Links : LinkDelay[l] \in Nat /\ LinkBw[l] \in Nat \ {0}
    /\ \A n \in {PayloadSize, NsPerSec, BwMax, MaxLinkDowns} : n \in Nat
    /\ Orders \subseteq {r \in [Nodes -> 1..Cardinality(Nodes)] :
                          Cardinality({r[n] : n \in Nodes}) = Cardinality(Nodes)}

Unvisited == -1

VARIABLES
    up,             \* nbr2if[a][b].up
    rank,           \* the heap-address order of the nodes
    nextHop,        \* nextHop[node][dst]: sequence of next-hop nodes
    pairDelay,      \* pairDelay[node][host]
    pairTxDelay,    \* pairTxDelay[node][host]
    pairBw,         \* pairBw[node][host]
    table,          \* the switch / host routing tables, per (node, dst)
    pairRtt,        \* pairRtt[i][j] computed once by main
    linkDowns       \* TakeDownLink calls so far

vars == <<up, rank, nextHop, pairDelay, pairTxDelay, pairBw, table, pairRtt,
          linkDowns>>

Nbrs(n) == {m \in Nodes : {n, m} \in Links}

\* The transmission delay of one payload over link l.
TxDelay(l) == (PayloadSize * NsPerSec * 8) \div LinkBw[l]

-----------------------------------------------------------------------------
(* CalculateRoute(host), as a fold over the BFS queue.  The state st has   *)
(* the queue q and, per node, dis (Unvisited until reached), delay, tx,    *)
(* bw and the next-hop sequence nh towards host.                           *)

BfsInit(host) ==
    [ q     |-> <<host>>,
      dis   |-> [n \in Nodes |-> IF n = host THEN 0 ELSE Unvisited],
      delay |-> [n \in Nodes |-> 0],
      tx    |-> [n \in Nodes |-> 0],
      bw    |-> [n \in Nodes |-> IF n = host THEN BwMax ELSE 0],
      nh    |-> [n \in Nodes |-> <<>>] ]

\* Mutant: the up flag of the link is not consulted.
RelaxIgnoreDown(st, now, next, upf) ==
    LET st1 == IF st.dis[next] # Unvisited THEN st
               ELSE [st EXCEPT !.dis[next]   = st.dis[now] + 1,
                               !.delay[next] = st.delay[now] + LinkDelay[{now, next}],
                               !.tx[next]    = st.tx[now] + TxDelay({now, next}),
                               !.bw[next]    = Min({st.bw[now], LinkBw[{now, next}]}),
                               !.q = IF next \in Switches THEN Append(@, next) ELSE @]
    IN IF st.dis[now] + 1 = st1.dis[next]
       THEN [st1 EXCEPT !.nh[next] = Append(@, now)] ELSE st1

\* Mutant: the bandwidth of the last link, not the bottleneck.
RelaxNoMin(st, now, next, upf) ==
    LET st1 == IF st.dis[next] # Unvisited THEN st
               ELSE [st EXCEPT !.dis[next]   = st.dis[now] + 1,
                               !.delay[next] = st.delay[now] + LinkDelay[{now, next}],
                               !.tx[next]    = st.tx[now] + TxDelay({now, next}),
                               !.bw[next]    = LinkBw[{now, next}],
                               !.q = IF next \in Switches THEN Append(@, next) ELSE @]
    IN IF ~ upf[{now, next}] THEN st
       ELSE IF st.dis[now] + 1 = st1.dis[next]
            THEN [st1 EXCEPT !.nh[next] = Append(@, now)] ELSE st1

\* One neighbour next of the dequeued node now: skip a down link; a node
\* reached for the first time gets its distance and path figures (and is
\* enqueued if it is a switch); now is a next hop of next when it lies on
\* a shortest path from next.
Relax(st, now, next, upf) ==
    LET l   == {now, next}
        d   == st.dis[now]
        st1 == IF st.dis[next] # Unvisited THEN st
               ELSE [st EXCEPT !.dis[next]   = d + 1,
                               !.delay[next] = st.delay[now] + LinkDelay[l],
                               !.tx[next]    = st.tx[now] + TxDelay(l),
                               !.bw[next]    = Min({st.bw[now], LinkBw[l]}),
                               !.q = IF next \in Switches THEN Append(@, next) ELSE @]
    IN IF ~ upf[l] THEN st
       ELSE IF d + 1 = st1.dis[next]
            THEN [st1 EXCEPT !.nh[next] = Append(@, now)]
            ELSE st1

RECURSIVE BfsLoop(_, _, _, _)
BfsLoop(st, i, upf, rk) ==
    IF i > Len(st.q) THEN st
    ELSE LET now   == st.q[i]
             order == SetToSortSeq(Nbrs(now), LAMBDA a, b : rk[a] < rk[b])
         IN BfsLoop(FoldLeft(LAMBDA acc, nx : Relax(acc, now, nx, upf), st, order),
                    i + 1, upf, rk)

CalculateRoute(host, upf, rk) == BfsLoop(BfsInit(host), 1, upf, rk)

\* CalculateRoutes: one BFS per host.
CalculateRoutes(upf, rk) == [h \in Hosts |-> CalculateRoute(h, upf, rk)]

\* The nextHop map the BFS runs build; nextHop is cleared before them.
NextHopOf(R) == [xh \in Nodes \X Hosts |-> R[xh[2]].nh[xh[1]]]

\* pairDelay/pairTxDelay/pairBw are written for the nodes a BFS reached,
\* and keep their previous value for the others (0 if never written).
PairOf(R, field, old) ==
    [xh \in Nodes \X Hosts |->
        IF R[xh[2]].dis[xh[1]] # Unvisited THEN R[xh[2]][field][xh[1]]
        ELSE old[xh]]

\* SetRoutingEntries: every next hop of nextHop becomes a table entry.
SetRoutingEntries(tbl, nh) == [xh \in Nodes \X Hosts |-> tbl[xh] \o nh[xh]]

\* main: rtt = delay * 2 + txDelay for every pair of hosts.
RttOf(delay, txDelay) ==
    [ij \in Hosts \X Hosts |-> delay[ij] * 2 + txDelay[ij]]

\* GetOutDev: no entry for the destination is -1; otherwise the entry the
\* ECMP hash selects.
GetOutDev(x, h, hash) ==
    IF table[x, h] = <<>> THEN Unvisited
    ELSE table[x, h][(hash % Len(table[x, h])) + 1]

-----------------------------------------------------------------------------
EmptyTables == [xh \in Nodes \X Hosts |-> <<>>]
Zero        == [xh \in Nodes \X Hosts |-> 0]

Init ==
    /\ up = [l \in Links |-> TRUE]
    /\ rank \in Orders
    /\ LET R == CalculateRoutes(up, rank) IN
       /\ nextHop = NextHopOf(R)
       /\ pairDelay = PairOf(R, "delay", Zero)
       /\ pairTxDelay = PairOf(R, "tx", Zero)
       /\ pairBw = PairOf(R, "bw", Zero)
       /\ table = SetRoutingEntries(EmptyTables, nextHop)
       /\ pairRtt = RttOf(pairDelay, pairTxDelay)
    /\ linkDowns = 0

(***************************************************************************)
(* TakeDownLink(a, b): mark the link down, clear nextHop and recompute     *)
(* every route, clear every table and refill it.  pairRtt, computed once   *)
(* by main, is left alone.                                                 *)
(***************************************************************************)
TakeDownLink(l) ==
    /\ linkDowns < MaxLinkDowns
    /\ up[l]
    /\ linkDowns' = linkDowns + 1
    /\ LET up2 == [up EXCEPT ![l] = FALSE]
           R   == CalculateRoutes(up2, rank)
       IN /\ up' = up2
          /\ nextHop' = NextHopOf(R)
          /\ pairDelay' = PairOf(R, "delay", pairDelay)
          /\ pairTxDelay' = PairOf(R, "tx", pairTxDelay)
          /\ pairBw' = PairOf(R, "bw", pairBw)
          /\ table' = SetRoutingEntries(EmptyTables, NextHopOf(R))
    /\ UNCHANGED <<rank, pairRtt>>

-----------------------------------------------------------------------------
(* Reference: hop distance to host h over up links whose inner nodes are   *)
(* switches, level by level and independent of any visiting order.         *)

RECURSIVE Level(_, _, _)
Level(h, upf, k) ==
    IF k = 0 THEN {h}
    ELSE LET seen  == UNION {Level(h, upf, j) : j \in 0..(k - 1)}
             front == Level(h, upf, k - 1) \cap (Switches \cup {h})
         IN {m \in Nodes \ seen :
                \E n \in front : {n, m} \in Links /\ upf[{n, m}]}

RefDist(h, upf) ==
    LET lv == [k \in 0..Cardinality(Nodes) |-> Level(h, upf, k)]
    IN [x \in Nodes |-> IF \E k \in DOMAIN lv : x \in lv[k]
                        THEN CHOOSE k \in DOMAIN lv : x \in lv[k]
                        ELSE Unvisited]

\* The figures (delay, tx delay, bottleneck bandwidth) of the shortest
\* paths from x to h, given the reference distances D.
RECURSIVE PathFigures(_, _, _)
PathFigures(x, h, D) ==
    IF x = h THEN {<<0, 0, BwMax>>}
    ELSE UNION {{<<LinkDelay[{x, n}] + v[1], TxDelay({x, n}) + v[2],
                   Min({LinkBw[{x, n}], v[3]})>> : v \in PathFigures(n, h, D)} :
                n \in {m \in Nbrs(x) : up[{x, m}] /\ D[m] = D[x] - 1 /\
                                       (m = h \/ m \in Switches)}}

TypeOK ==
    /\ up \in [Links -> BOOLEAN]
    /\ rank \in [Nodes -> 1..Cardinality(Nodes)]
    /\ nextHop \in [Nodes \X Hosts -> Seq(Nodes)]
    /\ table \in [Nodes \X Hosts -> Seq(Nodes)]
    /\ \A f \in {pairDelay, pairTxDelay, pairBw} : f \in [Nodes \X Hosts -> Nat]
    /\ pairRtt \in [Hosts \X Hosts -> Nat]
    /\ linkDowns \in 0..MaxLinkDowns

(***************************************************************************)
(* ECMP routes after any link failure: for every node and destination host *)
(* the table of the node (filled by SetRoutingEntries after CalculateRoute *)
(* and, on TakeDownLink, after ClearTable) holds each neighbour one hop    *)
(* closer over an up link exactly once, and nothing else; a node that      *)
(* cannot reach the host has no entry, so GetOutDev returns -1 there.      *)
(* Whatever hash GetOutDev applies, a packet thus reaches its host.        *)
(***************************************************************************)
RoutesFollowShortestUpPaths ==
    \A h \in Hosts :
      LET D == RefDist(h, up) IN
      \A x \in Nodes \ {h} :
        IF D[x] = Unvisited THEN GetOutDev(x, h, 0) = Unvisited
        ELSE /\ Len(table[x, h]) = Cardinality(ToSet(table[x, h]))
             /\ ToSet(table[x, h]) =
                  {m \in Nbrs(x) : up[{x, m}] /\ D[m] = D[x] - 1 /\
                                   (m = h \/ m \in Switches)}

(***************************************************************************)
(* The path figures CalculateRoute records for a node reachable from a     *)
(* host (pairDelay, pairTxDelay, pairBw) belong together to one shortest   *)
(* up path: the one by which the BFS first reached the node, whatever the  *)
(* map order of the neighbours and after a link has gone down.             *)
(***************************************************************************)
PairFiguresOnOnePath ==
    \A h \in Hosts :
      LET D == RefDist(h, up) IN
      \A x \in Nodes \ {h} :
        D[x] # Unvisited =>
          <<pairDelay[x, h], pairTxDelay[x, h], pairBw[x, h]>>
              \in PathFigures(x, h, D)

====
