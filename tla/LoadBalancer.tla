--------------------------- MODULE LoadBalancer ---------------------------
(***************************************************************************)
(* GlobalRequestLoadBalancer of verl/workers/rollout/llm_server.py: the    *)
(* actor through which every conversation finds the server of its next     *)
(* generation, while the hybrid servers join and leave the pool.           *)
(*                                                                         *)
(* The actor executes one method at a time, so a method is an action.  A   *)
(* conversation (a request_id) acquires a server, generates on it, and     *)
(* releases it by a message nobody waits for; its messages arrive in the   *)
(* order it sent them, so its next acquire follows that release.           *)
(*                                                                         *)
(* Servers are numbered in the order of the actor's dictionaries.  The     *)
(* standalone servers are there from the start and never leave; the hybrid *)
(* ones are added behind them and removed all together.                    *)
(***************************************************************************)
EXTENDS Integers, FiniteSets, Sequences, SequencesExt

CONSTANTS
    Request,        \* conversations, each with the request_id of all its turns
    StandaloneCount,
    HybridCount,
    CacheSize       \* max_cache_size of the routing cache

ASSUME RequestAssumption == IsFiniteSet(Request)
ASSUME CountAssumption == StandaloneCount \in Nat \ {0} /\ HybridCount \in Nat
ASSUME CacheAssumption == CacheSize \in Nat \ {0}

Standalone == 1..StandaloneCount
Hybrid == (StandaloneCount + 1)..(StandaloneCount + HybridCount)
Server == Standalone \union Hybrid
NoServer == 0

VARIABLES
    inflight,   \* _inflight_requests; _servers always has the same keys
    route,      \* _request_id_to_server, NoServer for a request not cached
    recent,     \* the cached requests, least recently used first
    holds,      \* the server a request acquired and whose release is not done
    last,       \* history: the server of the request's previous generation
    since,      \* history: requests that acquired after the request last did
    displaced   \* history: the request's last server has left the pool

balancer == <<inflight, route, recent>>
history == <<last, since, displaced>>
vars == <<balancer, holds, history>>

Pool == DOMAIN inflight

Init ==
    /\ inflight = [s \in Standalone |-> 0]
    /\ route = [r \in Request |-> NoServer]
    /\ recent = <<>>
    /\ holds = [r \in Request |-> NoServer]
    /\ last = [r \in Request |-> NoServer]
    /\ since = [r \in Request |-> {}]
    /\ displaced = [r \in Request |-> FALSE]

-----------------------------------------------------------------------------
(* acquire_server                                                          *)

\* The mutant takes the most loaded server.
MostLoaded(s) ==
    /\ s \in Pool
    /\ \A t \in Pool :
        /\ inflight[s] >= inflight[t]
        /\ inflight[s] = inflight[t] => s <= t

\* A server with the fewest counted requests, the first one among equals.
LeastLoaded(s) ==
    /\ s \in Pool
    /\ \A t \in Pool :
        /\ inflight[s] <= inflight[t]
        /\ inflight[s] = inflight[t] => s <= t

\* The cached requests but r, in their order.
Others(r) ==
    IF \E i \in DOMAIN recent : recent[i] = r
    THEN RemoveAt(recent, CHOOSE i \in DOMAIN recent : recent[i] = r)
    ELSE recent

\* The mutant does not refresh an entry it reads.
TouchNot(r) == UNCHANGED recent

\* The request becomes the most recently used one.
Touch(r) == recent' = Append(Others(r), r)

\* The mutant never evicts.
InsertUnbounded(r, s) ==
    /\ recent' = Append(Others(r), r)
    /\ route' = [route EXCEPT ![r] = s]

\* A new entry; a full cache first drops its least recently used one.
Insert(r, s) ==
    LET kept == IF Len(Others(r)) = CacheSize
                THEN Tail(Others(r)) ELSE Others(r)
    IN  /\ recent' = Append(kept, r)
        /\ route' = [q \in Request |->
                        IF q = r THEN s
                        ELSE IF \E i \in DOMAIN kept : kept[i] = q
                             THEN route[q] ELSE NoServer]

\* The conversation gets server s, whose counter goes up.
Grant(r, s) ==
    /\ inflight' = [inflight EXCEPT ![s] = @ + 1]
    /\ holds' = [holds EXCEPT ![r] = s]
    /\ last' = [last EXCEPT ![r] = s]
    /\ since' = [q \in Request |->
                    IF q = r THEN {} ELSE since[q] \union {r}]
    /\ displaced' = [displaced EXCEPT ![r] = FALSE]

\* A cached server that is still in the pool is used again.
AcquireSticky(r) ==
    /\ holds[r] = NoServer
    /\ route[r] \in Pool
    /\ Touch(r)
    /\ Grant(r, route[r])
    /\ UNCHANGED route

\* Otherwise the least loaded server is cached and used.  The pool is never
\* empty, so the RuntimeError of an empty pool cannot be raised.
AcquireNew(r) ==
    /\ holds[r] = NoServer
    /\ route[r] \notin Pool
    /\ \E s \in Pool :
        /\ LeastLoaded(s)
        /\ Insert(r, s)
        /\ Grant(r, s)

Acquire(r) == AcquireSticky(r) \/ AcquireNew(r)

-----------------------------------------------------------------------------
(* release_server, add_servers, remove_servers                             *)

\* A release of a server that left, or whose counter is zero, is ignored.
Decrement(s) ==
    IF s \in Pool /\ inflight[s] > 0
    THEN [inflight EXCEPT ![s] = @ - 1] ELSE inflight

\* The "finally" of LLMServerClient.generate, when the answer came and when
\* the call raised: the release message arrives.
Release(r) ==
    /\ holds[r] # NoServer
    /\ inflight' = Decrement(holds[r])
    /\ holds' = [holds EXCEPT ![r] = NoServer]
    /\ UNCHANGED <<route, recent, history>>

\* add_servers: the new servers start at zero, the others keep their counters.
Registered(servers) ==
    [s \in Pool \union servers |-> IF s \in servers THEN 0 ELSE inflight[s]]

\* remove_servers: the counters of the servers go with them.
Unregistered(servers) == [s \in Pool \ servers |-> inflight[s]]

\* The mutant starts every counter afresh.
AddServersResetAll ==
    /\ Hybrid # {}
    /\ Hybrid \intersect Pool = {}
    /\ inflight' = [s \in Pool \union Hybrid |-> 0]
    /\ UNCHANGED <<route, recent, holds, history>>

\* FullyAsyncLLMServerManager.add_replicas skips replicas that are active,
\* then adds the others.
AddServers ==
    /\ Hybrid # {}
    /\ Hybrid \intersect Pool = {}
    /\ inflight' = Registered(Hybrid)
    /\ UNCHANGED <<route, recent, holds, history>>

\* FullyAsyncLLMServerManager.remove_replicas skips replicas that are not
\* active.  The routing cache keeps its entries.
RemoveServers ==
    /\ Hybrid # {}
    /\ Hybrid \subseteq Pool
    /\ inflight' = Unregistered(Hybrid)
    /\ displaced' = [r \in Request |-> displaced[r] \/ last[r] \in Hybrid]
    /\ UNCHANGED <<route, recent, holds, last, since>>

Next ==
    \/ \E r \in Request : Acquire(r) \/ Release(r)
    \/ AddServers
    \/ RemoveServers

Spec == Init /\ [][Next]_vars

-----------------------------------------------------------------------------
(* Properties.                                                             *)

Holders(s) == {r \in Request : holds[r] = s}

\* The type of the state.
TypeOK ==
    /\ Pool \in {Standalone, Server}
    /\ inflight \in [Pool -> Nat]
    /\ holds \in [Request -> Server \union {NoServer}]
    /\ route \in [Request -> Server \union {NoServer}]
    /\ last \in [Request -> Server \union {NoServer}]
    /\ since \in [Request -> SUBSET Request]
    /\ displaced \in [Request -> BOOLEAN]

\* The routing cache holds each request once, in one order, and never more
\* than CacheSize of them: route and recent stay one cache.
CacheCoherent ==
    /\ recent \in Seq(Request)
    /\ Len(recent) <= CacheSize
    /\ \A i, j \in DOMAIN recent : recent[i] = recent[j] => i = j
    /\ {recent[i] : i \in DOMAIN recent} =
            {r \in Request : route[r] # NoServer}

\* A counter never exceeds the generations really out on the server.
NeverOvercounts ==
    \A s \in Pool : inflight[s] <= Cardinality(Holders(s))

\* The counters of the servers that never leave are exact.
StandaloneExact ==
    \A s \in Standalone : inflight[s] = Cardinality(Holders(s))

\* However releases, removals and additions interleave, an idle server is
\* never taken for a busy one, and the counters of the servers that never
\* leave do not drift at all.
CountersHonest == NeverOvercounts /\ StandaloneExact

Selects(r, s) == holds[r] = NoServer /\ holds'[r] = s

\* A conversation stays on its server from turn to turn, unless that server
\* left in between or CacheSize other conversations were routed meanwhile;
\* and it is never sent to a server that has left, whatever the cache
\* remembers.
StaysUnlessDisplaced ==
    [][\A r \in Request, s \in Server :
        Selects(r, s) =>
            /\ s \in Pool
            /\ \/ s = last[r]
               \/ last[r] = NoServer \/ displaced[r]
               \/ Cardinality(since[r]) >= CacheSize]_vars

\* Among the standalone servers a new conversation really gets one with the
\* fewest generations in flight.
StandaloneBalanced ==
    [][\A r \in Request, s \in Standalone :
        Selects(r, s) /\ route[r] \notin Pool =>
            \A t \in Standalone :
                Cardinality(Holders(s)) <= Cardinality(Holders(t))]_vars

=============================================================================
