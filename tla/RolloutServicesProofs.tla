----------------------- MODULE RolloutServicesProofs -----------------------
(***************************************************************************)
(* Proofs about the two services a trainer shares with its rollout         *)
(* workers: LoadBalancer, for any finite set of conversations, any number  *)
(* of servers and any cache size, and ReplayBuffer, for any finite sets of *)
(* prompts, sessions and workers and any schedule of rounds.               *)
(*                                                                         *)
(* LoadBalancer: the counters need the number of holders of a server       *)
(* (IInv).  That a conversation stays on its server is a fact about the    *)
(* order of the routing cache: the entries behind a conversation's are     *)
(* exactly the conversations that acquired since it did, so it is the      *)
(* oldest entry, and evicted, only after CacheSize - 1 of them (CacheInv). *)
(*                                                                         *)
(* ReplayBuffer: the trainer reads a buffer that a poll thread fills from  *)
(* snapshots of the queue, so the invariant (ReplayInv) says of queue,     *)
(* snapshot and buffer separately what an entry tells of the prompt or     *)
(* session it is about.  The heart of it is StoredUntilSampled: nothing of *)
(* a round leaves the queue before its sample, so that a snapshot with     *)
(* the end of a prompt has everything its sessions put.                    *)
(***************************************************************************)
EXTENDS LoadBalancer, ReplayBuffer, FiniteSetTheorems, SequenceTheorems, TLAPS

\* The counters are typed, never too high, and exact where nothing resets
\* them.
IInv == TypeOK /\ NeverOvercounts /\ StandaloneExact

-----------------------------------------------------------------------------
(* How the conversations that hold a server change.                        *)

\* The holders of a server can be counted.
LEMMA HoldersFinite ==
    ASSUME NEW s
    PROVE  /\ IsFiniteSet(Holders(s))
           /\ Cardinality(Holders(s)) \in Nat
<1>1. Holders(s) \subseteq Request
    BY DEF Holders
<1> QED
    BY <1>1, RequestAssumption, FS_Subset, FS_CardinalityType

\* The hybrid servers are none of the standalone ones, and none is NoServer.
LEMMA ServerNumbers ==
    /\ Standalone \subseteq Nat \ {0}
    /\ Hybrid \subseteq Nat \ {0}
    /\ Standalone \intersect Hybrid = {}
    /\ NoServer \notin Server
BY CountAssumption DEF Standalone, Hybrid, Server, NoServer

\* Granting a server adds one holder to it and to no other server.
LEMMA GrantHolders ==
    ASSUME TypeOK, NEW r \in Request, NEW s \in Pool,
           holds[r] = NoServer, Grant(r, s), NEW t \in Server
    PROVE  Cardinality(Holders(t)') =
                IF t = s THEN Cardinality(Holders(t)) + 1
                         ELSE Cardinality(Holders(t))
<1>1. s \in Server /\ s # NoServer
    BY ServerNumbers DEF TypeOK, Server
<1>2. CASE t = s
  <2>1. Holders(t)' = Holders(t) \union {r} /\ r \notin Holders(t)
    BY <1>1, <1>2 DEF TypeOK, Grant, Holders
  <2> QED
    BY <1>2, <2>1, HoldersFinite, FS_AddElement
<1>3. CASE t # s
  <2>1. Holders(t)' = Holders(t)
    BY <1>1, <1>3, ServerNumbers DEF TypeOK, Grant, Holders
  <2> QED
    BY <1>3, <2>1
<1> QED
    BY <1>2, <1>3

\* Releasing takes one holder away from the server and from no other.
LEMMA ReleaseHolders ==
    ASSUME TypeOK, NEW r \in Request, Release(r), NEW t \in Server
    PROVE  Cardinality(Holders(t)') =
                IF t = holds[r] THEN Cardinality(Holders(t)) - 1
                                ELSE Cardinality(Holders(t))
<1>1. CASE t = holds[r]
  <2>1. Holders(t)' = Holders(t) \ {r} /\ r \in Holders(t)
    BY <1>1, ServerNumbers DEF TypeOK, Release, Holders
  <2> QED
    BY <1>1, <2>1, HoldersFinite, FS_RemoveElement
<1>2. CASE t # holds[r]
  <2>1. Holders(t)' = Holders(t)
    BY <1>2, ServerNumbers DEF TypeOK, Release, Holders
  <2> QED
    BY <1>2, <2>1
<1> QED
    BY <1>1, <1>2

-----------------------------------------------------------------------------
(* The invariant is inductive.                                             *)

\* Nothing is counted at first.
LEMMA InitHolds == Init => IInv
<1> SUFFICES ASSUME Init PROVE IInv
    OBVIOUS
<1>1. TypeOK
    BY DEF Init, TypeOK, Pool
<1>2. ASSUME NEW s \in Standalone PROVE Cardinality(Holders(s)) = 0
  <2>1. Holders(s) = {}
    BY <1>2, ServerNumbers DEF Init, Holders, NoServer
  <2> QED
    BY <2>1, FS_EmptySet
<1>3. NeverOvercounts /\ StandaloneExact
    BY <1>2 DEF Init, NeverOvercounts, StandaloneExact, Pool
<1> QED
    BY <1>1, <1>3 DEF IInv

\* Acquiring, sticky or not, grants a server of the pool.
LEMMA AcquireGrants ==
    ASSUME TypeOK, NEW r \in Request, Acquire(r)
    PROVE  /\ holds[r] = NoServer
           /\ \E s \in Pool : Grant(r, s)
           /\ route' \in [Request -> Server \union {NoServer}]
<1>1. CASE AcquireSticky(r)
    BY <1>1 DEF AcquireSticky, TypeOK
<1>2. CASE AcquireNew(r)
  <2>1. PICK s \in Pool : Insert(r, s) /\ Grant(r, s)
    BY <1>2 DEF AcquireNew
  <2>2. s \in Server
    BY DEF TypeOK, Server
  <2>3. route' \in [Request -> Server \union {NoServer}]
    BY <2>1, <2>2 DEF Insert, TypeOK
  <2> QED
    BY <1>2, <2>1, <2>3 DEF AcquireNew
<1> QED
    BY <1>1, <1>2 DEF Acquire

\* Acquiring raises the counter and the number of holders together.
LEMMA AcquireKeeps ==
    ASSUME IInv, NEW r \in Request, Acquire(r)
    PROVE  IInv'
<1> USE DEF IInv
<1>1. holds[r] = NoServer /\ route' \in [Request -> Server \union {NoServer}]
    BY AcquireGrants
<1>2. PICK s \in Pool : Grant(r, s)
    BY AcquireGrants
<1>3. s \in Server
    BY DEF TypeOK, Server
<1>4. Pool' = Pool /\ inflight' \in [Pool -> Nat]
      /\ \A t \in Pool : inflight'[t] = IF t = s THEN inflight[t] + 1
                                                 ELSE inflight[t]
    BY <1>2 DEF TypeOK, Grant, Pool
<1>5. TypeOK'
  <2>1. /\ holds' \in [Request -> Server \union {NoServer}]
        /\ last' \in [Request -> Server \union {NoServer}]
        /\ displaced' \in [Request -> BOOLEAN]
    BY <1>2, <1>3 DEF TypeOK, Grant
  <2>2. since' \in [Request -> SUBSET Request]
    BY <1>2 DEF TypeOK, Grant
  <2> QED
    BY <1>1, <1>4, <2>1, <2>2 DEF TypeOK
<1>6. Pool \subseteq Server /\ Standalone \subseteq Pool
    BY DEF TypeOK, Server
<1>7. NeverOvercounts'
  <2> SUFFICES ASSUME NEW t \in Pool
               PROVE  inflight'[t] <= Cardinality(Holders(t)')
    BY <1>4 DEF NeverOvercounts
  <2>1. inflight[t] <= Cardinality(Holders(t)) /\ inflight[t] \in Nat
    BY DEF NeverOvercounts, TypeOK
  <2>2. Cardinality(Holders(t)') = IF t = s THEN Cardinality(Holders(t)) + 1
                                            ELSE Cardinality(Holders(t))
    BY <1>1, <1>2, <1>6, GrantHolders
  <2> QED
    BY <1>4, <2>1, <2>2, HoldersFinite
<1>8. StandaloneExact'
  <2> SUFFICES ASSUME NEW t \in Standalone
               PROVE  inflight'[t] = Cardinality(Holders(t)')
    BY DEF StandaloneExact
  <2>1. inflight[t] = Cardinality(Holders(t)) /\ t \in Pool
    BY <1>6 DEF StandaloneExact
  <2>2. Cardinality(Holders(t)') = IF t = s THEN Cardinality(Holders(t)) + 1
                                            ELSE Cardinality(Holders(t))
    BY <1>1, <1>2, <1>6, GrantHolders
  <2> QED
    BY <1>4, <2>1, <2>2
<1> QED
    BY <1>5, <1>7, <1>8

\* Releasing lowers the number of holders, and the counter unless it is zero.
LEMMA ReleaseKeeps ==
    ASSUME IInv, NEW r \in Request, Release(r)
    PROVE  IInv'
<1> USE DEF IInv
<1>1. Pool \subseteq Server /\ Standalone \subseteq Pool
    BY DEF TypeOK, Server
<1>2. /\ Pool' = Pool
      /\ inflight' \in [Pool -> Nat]
      /\ \A t \in Pool :
            inflight'[t] = IF t = holds[r] /\ inflight[t] > 0
                           THEN inflight[t] - 1 ELSE inflight[t]
  <2>1. inflight' = Decrement(holds[r])
    BY DEF Release
  <2>2. CASE holds[r] \in Pool /\ inflight[holds[r]] > 0
    BY <2>1, <2>2 DEF Decrement, TypeOK, Pool
  <2>3. CASE ~(holds[r] \in Pool /\ inflight[holds[r]] > 0)
    BY <2>1, <2>3 DEF Decrement, TypeOK, Pool
  <2> QED
    BY <2>2, <2>3
<1>3. TypeOK'
    BY <1>2 DEF TypeOK, Release, history
<1>4. NeverOvercounts'
  <2> SUFFICES ASSUME NEW t \in Pool
               PROVE  inflight'[t] <= Cardinality(Holders(t)')
    BY <1>2 DEF NeverOvercounts
  <2>1. inflight[t] <= Cardinality(Holders(t)) /\ inflight[t] \in Nat
    BY DEF NeverOvercounts, TypeOK
  <2>2. Cardinality(Holders(t)') =
            IF t = holds[r] THEN Cardinality(Holders(t)) - 1
                            ELSE Cardinality(Holders(t))
    BY <1>1, ReleaseHolders
  <2>3. t = holds[r] => Cardinality(Holders(t)) > 0
    <3>1. t = holds[r] => Holders(t) # {}
      BY DEF Holders
    <3> QED
      BY <3>1, HoldersFinite, FS_EmptySet
  <2> QED
    BY <1>2, <2>1, <2>2, <2>3, HoldersFinite
<1>5. StandaloneExact'
  <2> SUFFICES ASSUME NEW t \in Standalone
               PROVE  inflight'[t] = Cardinality(Holders(t)')
    BY DEF StandaloneExact
  <2>1. inflight[t] = Cardinality(Holders(t)) /\ t \in Pool
    BY <1>1 DEF StandaloneExact
  <2>2. Cardinality(Holders(t)') =
            IF t = holds[r] THEN Cardinality(Holders(t)) - 1
                            ELSE Cardinality(Holders(t))
    BY <1>1, <2>1, ReleaseHolders
  <2>3. t = holds[r] => Cardinality(Holders(t)) > 0
    <3>1. t = holds[r] => Holders(t) # {}
      BY DEF Holders
    <3> QED
      BY <3>1, HoldersFinite, FS_EmptySet
  <2> QED
    BY <1>2, <2>1, <2>2, <2>3, HoldersFinite
<1> QED
    BY <1>3, <1>4, <1>5

\* Added servers start at zero, which no number of holders is below.
LEMMA AddKeeps == IInv /\ AddServers => IInv'
<1> SUFFICES ASSUME IInv, AddServers PROVE IInv'
    OBVIOUS
<1> USE DEF IInv
<1>1. Pool = Standalone
    BY DEF AddServers, Registered, TypeOK, Server
<1>2. /\ Pool' = Server
      /\ inflight' \in [Server -> Nat]
      /\ \A t \in Server :
            inflight'[t] = IF t \in Hybrid THEN 0 ELSE inflight[t]
    BY <1>1 DEF AddServers, Registered, TypeOK, Pool, Server
<1>3. TypeOK'
    BY <1>2 DEF TypeOK, AddServers, Registered, history
<1>4. \A t : Holders(t)' = Holders(t)
    BY DEF Holders, AddServers, Registered
<1>5. NeverOvercounts'
    BY <1>1, <1>2, <1>4, HoldersFinite DEF NeverOvercounts, Server
<1>6. StandaloneExact'
    BY <1>2, <1>4, ServerNumbers DEF StandaloneExact, Server
<1> QED
    BY <1>3, <1>5, <1>6

\* A removed server has no counter to be wrong.
LEMMA RemoveKeeps == IInv /\ RemoveServers => IInv'
<1> SUFFICES ASSUME IInv, RemoveServers PROVE IInv'
    OBVIOUS
<1> USE DEF IInv
<1>1. Pool = Server
    BY ServerNumbers DEF RemoveServers, Unregistered, TypeOK, Server
<1>2. /\ Pool' = Standalone
      /\ inflight' \in [Standalone -> Nat]
      /\ \A t \in Standalone : inflight'[t] = inflight[t]
    BY <1>1, ServerNumbers
    DEF RemoveServers, Unregistered, TypeOK, Pool, Server
<1>3. TypeOK'
    BY <1>2 DEF TypeOK, RemoveServers, Unregistered
<1>4. \A t : Holders(t)' = Holders(t)
    BY DEF Holders, RemoveServers, Unregistered
<1>5. NeverOvercounts'
    BY <1>1, <1>2, <1>4 DEF NeverOvercounts, Server
<1>6. StandaloneExact'
    BY <1>2, <1>4 DEF StandaloneExact
<1> QED
    BY <1>3, <1>5, <1>6

\* A step that changes nothing.
LEMMA StutterKeeps == IInv /\ UNCHANGED vars => IInv'
BY DEF IInv, vars, balancer, history, TypeOK, NeverOvercounts,
       StandaloneExact, Holders, Pool

\* The invariant is inductive.
LEMMA Invariance == Spec => []IInv
<1>1. Init => IInv
    BY InitHolds
<1>2. IInv /\ [Next]_vars => IInv'
    BY AcquireKeeps, ReleaseKeeps, AddKeeps, RemoveKeeps, StutterKeeps
    DEF Next
<1> QED
    BY <1>1, <1>2, PTL DEF Spec

-----------------------------------------------------------------------------
(* The routing cache.                                                      *)

\* The elements of s behind position i.
Newer(s, i) == {s[j] : j \in (i + 1)..Len(s)}

Distinct(s) == \A i, j \in DOMAIN s : s[i] = s[j] => i = j

\* The conversations that acquired after one of the cache did are those
\* behind it.
OrderTellsSince == \A i \in DOMAIN recent : since[recent[i]] = Newer(recent, i)

\* An entry is the server the conversation had last; a conversation without
\* one has been pushed out by CacheSize others.
RouteTellsLast ==
    \A r \in Request :
        /\ route[r] # NoServer => last[r] = route[r]
        /\ last[r] # NoServer /\ route[r] = NoServer =>
               Cardinality(since[r]) >= CacheSize
        /\ last[r] # NoServer /\ ~displaced[r] => last[r] \in Pool

CacheInv == TypeOK /\ CacheCoherent /\ OrderTellsSince /\ RouteTellsLast

\* Taking one position out of a sequence moves the later ones up.
LEMMA RemoveAtShifts ==
    ASSUME NEW S, NEW s \in Seq(S), NEW at \in 1..Len(s)
    PROVE  /\ RemoveAt(s, at) \in Seq(S)
           /\ Len(RemoveAt(s, at)) = Len(s) - 1
           /\ \A j \in 1..(Len(s) - 1) :
                RemoveAt(s, at)[j] = IF j < at THEN s[j] ELSE s[j + 1]
<1> DEFINE front == SubSeq(s, 1, at - 1)
           back == SubSeq(s, at + 1, Len(s))
<1>1. /\ front \in Seq(S) /\ Len(front) = at - 1
      /\ \A j \in 1..(at - 1) : front[j] = s[j]
  BY SubSeqProperties
<1>2. /\ back \in Seq(S) /\ Len(back) = Len(s) - at
      /\ \A j \in 1..(Len(s) - at) : back[j] = s[at + j]
  BY SubSeqProperties
<1> HIDE DEF front, back
<1>3. /\ front \o back \in Seq(S)
      /\ Len(front \o back) = Len(s) - 1
      /\ \A j \in 1..(Len(s) - 1) :
            (front \o back)[j] = IF j <= at - 1 THEN front[j] ELSE back[j - (at - 1)]
  BY <1>1, <1>2, ConcatProperties
<1>4. \A j \in 1..(Len(s) - 1) :
        (front \o back)[j] = IF j < at THEN s[j] ELSE s[j + 1]
  <2> TAKE j \in 1..(Len(s) - 1)
  <2>1. CASE j < at
    BY <1>1, <1>3, <2>1
  <2>2. CASE ~(j < at)
    <3>1. j - (at - 1) \in 1..(Len(s) - at) /\ at + (j - (at - 1)) = j + 1
      BY <2>2
    <3> QED
      BY <1>2, <1>3, <2>2, <3>1
  <2> QED
    BY <2>1, <2>2
<1>5. RemoveAt(s, at) = front \o back
  BY DEF RemoveAt, front, back
<1> QED
  BY <1>3, <1>4, <1>5

\* Different elements: as many as there are positions.
LEMMA DistinctSize ==
    ASSUME NEW S, NEW s \in Seq(S), Distinct(s)
    PROVE  Cardinality({s[i] : i \in DOMAIN s}) = Len(s)
<1> DEFINE T == {s[i] : i \in DOMAIN s}
<1>1. DOMAIN s = 1..Len(s) /\ Len(s) \in Nat
  OBVIOUS
<1>2. s \in Bijection(1..Len(s), T)
  BY <1>1 DEF Bijection, Injection, Surjection, IsInjective, Distinct
<1>3. IsFiniteSet(1..Len(s)) /\ Cardinality(1..Len(s)) = Len(s)
  BY <1>1, FS_Interval
<1>4. ExistsBijection(1..Len(s), T)
  BY <1>2 DEF ExistsBijection
<1> QED
  BY <1>3, <1>4, FS_Bijection

\* What the cache without r is: its other entries, in the old order.
LEMMA OthersFacts ==
    ASSUME CacheInv, NEW r \in Request
    PROVE  /\ Others(r) \in Seq(Request)
           /\ Len(Others(r)) <= CacheSize
           /\ Len(Others(r)) = CacheSize => Others(r) = recent /\ route[r] = NoServer
           /\ Distinct(Others(r))
           /\ {Others(r)[i] : i \in DOMAIN Others(r)} =
                {q \in Request : route[q] # NoServer} \ {r}
           /\ \A i \in DOMAIN Others(r) :
                since[Others(r)[i]] \ {r} = Newer(Others(r), i)
<1> USE DEF CacheInv
<1>1. /\ recent \in Seq(Request) /\ Len(recent) <= CacheSize
      /\ Distinct(recent) /\ CacheSize \in Nat
      /\ {recent[i] : i \in DOMAIN recent} = {q \in Request : route[q] # NoServer}
  BY CacheAssumption DEF CacheCoherent, Distinct
<1>2. CASE \E i \in DOMAIN recent : recent[i] = r
  <2> DEFINE at == CHOOSE i \in DOMAIN recent : recent[i] = r
  <2>1. at \in 1..Len(recent) /\ recent[at] = r
    BY <1>1, <1>2
  <2>2. Others(r) = RemoveAt(recent, at)
    BY <1>2 DEF Others
  <2> HIDE DEF at
  <2>3. /\ Others(r) \in Seq(Request)
        /\ Len(Others(r)) = Len(recent) - 1
        /\ Len(recent) - 1 \in Nat
        /\ DOMAIN Others(r) = 1..(Len(recent) - 1)
        /\ \A j \in 1..(Len(recent) - 1) :
              Others(r)[j] = IF j < at THEN recent[j] ELSE recent[j + 1]
    <3> HIDE DEF CacheInv
    <3>1. recent \in Seq(Request) /\ at \in 1..Len(recent)
      BY <1>1, <2>1
    <3>2. /\ Others(r) \in Seq(Request)
          /\ Len(Others(r)) = Len(recent) - 1
          /\ \A j \in 1..(Len(recent) - 1) :
                Others(r)[j] = IF j < at THEN recent[j] ELSE recent[j + 1]
      BY <3>1, <2>2, RemoveAtShifts, Zenon
    <3>3. Len(recent) - 1 \in Nat
      BY <3>1
    <3>4. DOMAIN Others(r) = 1..Len(Others(r))
      BY <3>2
    <3> QED
      BY <3>2, <3>3, <3>4, Zenon
  <2>4. Distinct(Others(r))
    <3> DEFINE old(i) == IF i < at THEN i ELSE i + 1
    <3>1. \A i \in DOMAIN Others(r) :
            old(i) \in DOMAIN recent /\ Others(r)[i] = recent[old(i)]
      BY <1>1, <2>1, <2>3
    <3>2. \A i, j \in DOMAIN Others(r) : old(i) = old(j) => i = j
      BY <1>1, <2>1, <2>3
    <3> HIDE DEF old
    <3> QED
      BY <1>1, <3>1, <3>2 DEF Distinct
  <2>5. {Others(r)[i] : i \in DOMAIN Others(r)} =
          {recent[i] : i \in DOMAIN recent} \ {r}
    <3>1. ASSUME NEW i \in DOMAIN Others(r)
          PROVE  Others(r)[i] \in {recent[j] : j \in DOMAIN recent} \ {r}
      <4>1. PICK j \in DOMAIN recent : j # at /\ Others(r)[i] = recent[j]
        <5>1. CASE i < at
          BY <1>1, <2>1, <2>3, <5>1
        <5>2. CASE ~(i < at)
          <6>1. i + 1 \in DOMAIN recent /\ Others(r)[i] = recent[i + 1]
            BY <1>1, <2>1, <2>3, <5>2
          <6> QED
            BY <2>1, <5>2, <6>1
        <5> QED
          BY <5>1, <5>2
      <4>2. recent[j] # r
        BY <1>1, <2>1, <4>1 DEF Distinct
      <4> QED
        BY <4>1, <4>2
    <3>2. ASSUME NEW j \in DOMAIN recent, recent[j] # r
          PROVE  \E i \in DOMAIN Others(r) : Others(r)[i] = recent[j]
      <4>1. CASE j < at
        BY <1>1, <2>1, <2>3, <4>1
      <4>2. CASE j > at
        <5>1. j - 1 \in DOMAIN Others(r) /\ Others(r)[j - 1] = recent[j]
          BY <1>1, <2>1, <2>3, <4>2
        <5> QED
          BY <5>1
      <4> QED
        BY <1>1, <2>1, <3>2, <4>1, <4>2
    <3> QED
      BY <3>1, <3>2
  <2>6. ASSUME NEW i \in DOMAIN Others(r)
        PROVE  since[Others(r)[i]] \ {r} = Newer(Others(r), i)
    <3> DEFINE p == IF i < at THEN i ELSE i + 1
    <3>1. p \in DOMAIN recent /\ Others(r)[i] = recent[p] /\ p # at
          /\ i \in 1..(Len(recent) - 1)
      BY <1>1, <2>1, <2>3
    <3>2. since[Others(r)[i]] = Newer(recent, p)
      BY <3>1 DEF OrderTellsSince
    <3>3. ASSUME NEW j \in (i + 1)..Len(Others(r))
          PROVE  Others(r)[j] \in Newer(recent, p) \ {r}
      <4> DEFINE m == IF j < at THEN j ELSE j + 1
      <4>1. m \in (p + 1)..Len(recent) /\ Others(r)[j] = recent[m] /\ m # at
            /\ m \in DOMAIN recent
        BY <1>1, <2>1, <2>3, <3>1
      <4>2. recent[m] # r
        BY <1>1, <2>1, <4>1 DEF Distinct
      <4> QED
        BY <4>1, <4>2 DEF Newer
    <3>4. ASSUME NEW m \in (p + 1)..Len(recent), recent[m] # r
          PROVE  recent[m] \in Newer(Others(r), i)
      <4> DEFINE j == IF m < at THEN m ELSE m - 1
      <4>1. j \in (i + 1)..Len(Others(r)) /\ Others(r)[j] = recent[m]
        BY <1>1, <2>1, <2>3, <3>1, <3>4
      <4> QED
        BY <4>1 DEF Newer
    <3> HIDE DEF p
    <3> QED
      BY <3>2, <3>3, <3>4 DEF Newer
  <2>7. \A i \in DOMAIN Others(r) :
          since[Others(r)[i]] \ {r} = Newer(Others(r), i)
    BY <2>6
  <2>8. {Others(r)[i] : i \in DOMAIN Others(r)} =
          {q \in Request : route[q] # NoServer} \ {r}
    BY <1>1, <2>5
  <2>9. Len(Others(r)) < CacheSize
    BY <1>1, <2>3
  <2> QED
    BY <1>1, <2>3, <2>4, <2>7, <2>8, <2>9
<1>3. CASE ~\E i \in DOMAIN recent : recent[i] = r
  <2>1. Others(r) = recent
    BY <1>3 DEF Others
  <2>2. route[r] = NoServer
    BY <1>1, <1>3
  <2>3. ASSUME NEW i \in DOMAIN recent
        PROVE  since[recent[i]] \ {r} = Newer(recent, i)
    <3>1. since[recent[i]] = Newer(recent, i)
      BY DEF OrderTellsSince
    <3>2. r \notin Newer(recent, i)
      BY <1>1, <1>3 DEF Newer
    <3> QED
      BY <3>1, <3>2
  <2>4. \A i \in DOMAIN Others(r) :
          since[Others(r)[i]] \ {r} = Newer(Others(r), i)
    BY <2>1, <2>3
  <2>5. {Others(r)[i] : i \in DOMAIN Others(r)} =
          {q \in Request : route[q] # NoServer} \ {r}
    BY <1>1, <2>1, <2>2
  <2> QED
    BY <1>1, <2>1, <2>2, <2>4, <2>5
<1> QED
  BY <1>2, <1>3

\* Behind the other entries the conversation is the most recently used one.
LEMMA AppendKeeps ==
    ASSUME TypeOK, NEW r \in Request, NEW left \in Seq(Request),
           Distinct(left), Len(left) < CacheSize,
           \A i \in DOMAIN left : left[i] # r,
           \A i \in DOMAIN left : since[left[i]] \ {r} = Newer(left, i),
           recent' = Append(left, r),
           since' = [q \in Request |-> IF q = r THEN {} ELSE since[q] \union {r}]
    PROVE  /\ recent' \in Seq(Request)
           /\ Len(recent') <= CacheSize
           /\ Distinct(recent')
           /\ {recent'[i] : i \in DOMAIN recent'} =
                {left[i] : i \in DOMAIN left} \union {r}
           /\ OrderTellsSince'
<1>1. /\ recent' \in Seq(Request) /\ Len(recent') = Len(left) + 1
      /\ \A i \in 1..Len(left) : recent'[i] = left[i]
      /\ recent'[Len(left) + 1] = r
      /\ DOMAIN recent' = 1..(Len(left) + 1) /\ DOMAIN left = 1..Len(left)
      /\ Len(left) \in Nat
  BY AppendProperties, LenProperties
<1>2. Len(recent') <= CacheSize
  BY <1>1, CacheAssumption
<1>3. Distinct(recent')
  BY <1>1 DEF Distinct
<1>4. {recent'[i] : i \in DOMAIN recent'} = {left[i] : i \in DOMAIN left} \union {r}
  BY <1>1
<1>5. ASSUME NEW i \in DOMAIN recent'
      PROVE  since'[recent'[i]] = Newer(recent', i)
  <2>1. CASE i = Len(left) + 1
    <3>1. Newer(recent', i) = {}
      BY <1>1, <2>1 DEF Newer
    <3> QED
      BY <1>1, <2>1, <3>1
  <2>2. CASE i \in 1..Len(left)
    <3>1. Newer(recent', i) = Newer(left, i) \union {r}
      BY <1>1, <2>2 DEF Newer
    <3>2. since'[recent'[i]] = since[left[i]] \union {r}
      BY <1>1, <2>2
    <3>3. since[left[i]] \ {r} = Newer(left, i)
      BY <1>1, <2>2
    <3> QED
      BY <3>1, <3>2, <3>3
  <2> QED
    BY <1>1, <2>1, <2>2
<1> QED
  BY <1>1, <1>2, <1>3, <1>4, <1>5 DEF OrderTellsSince

Kept(r) == IF Len(Others(r)) = CacheSize THEN Tail(Others(r)) ELSE Others(r)

\* What the cache keeps when r is put into it: the other entries, and the
\* oldest of them not if there is no place.
LEMMA KeptFacts ==
    ASSUME CacheInv, NEW r \in Request
    PROVE  LET left == Kept(r) IN
           /\ left \in Seq(Request)
           /\ Distinct(left)
           /\ Len(left) < CacheSize
           /\ \A i \in DOMAIN left : left[i] # r /\ route[left[i]] # NoServer
           /\ \A i \in DOMAIN left : since[left[i]] \ {r} = Newer(left, i)
           /\ \A q \in Request :
                /\ q # r /\ route[q] # NoServer
                /\ ~\E i \in DOMAIN left : left[i] = q
                => Len(left) + 1 = CacheSize /\ r \notin since[q]
                   /\ since[q] = {left[i] : i \in DOMAIN left}
<1> DEFINE o == Others(r)
           left == Kept(r)
<1>1. /\ o \in Seq(Request) /\ Len(o) <= CacheSize
      /\ Distinct(o)
      /\ Len(o) = CacheSize => o = recent
  BY OthersFacts
<1>2. /\ \A i \in DOMAIN o : o[i] # r /\ route[o[i]] # NoServer
      /\ \A q \in Request : q # r /\ route[q] # NoServer =>
            \E i \in DOMAIN o : o[i] = q
  BY OthersFacts
<1>3. \A i \in DOMAIN o : since[o[i]] \ {r} = Newer(o, i)
  BY OthersFacts
<1>4. left = IF Len(o) = CacheSize THEN Tail(o) ELSE o
  BY DEF Kept
<1> HIDE DEF o, left
<1>5. CacheSize \in Nat /\ CacheSize > 0 /\ Len(o) \in Nat /\ DOMAIN o = 1..Len(o)
  BY <1>1, CacheAssumption, LenProperties
<1>6. CASE Len(o) # CacheSize
  <2>1. left = o
    BY <1>4, <1>6
  <2>2. Len(o) < CacheSize
    <3>1. Len(o) <= CacheSize
      BY <1>1
    <3>2. Len(o) \in Nat /\ CacheSize \in Nat
      BY <1>5
    <3> QED
      BY <1>6, <3>1, <3>2
  <2> QED
    BY <1>1, <1>2, <1>3, <2>1, <2>2 DEF left
<1>7. CASE Len(o) = CacheSize
  <2>1. /\ left = Tail(o) /\ left \in Seq(Request) /\ Len(left) = Len(o) - 1
        /\ \A i \in 1..(Len(o) - 1) : left[i] = o[i + 1]
        /\ DOMAIN left = 1..(Len(o) - 1)
    <3>1. o # <<>> /\ left = Tail(o)
      BY <1>1, <1>4, <1>5, <1>7, EmptySeq
    <3> QED
      BY <1>1, <1>5, <3>1, HeadTailProperties, LenProperties
  <2>2. Distinct(left)
    <3>1. \A i \in DOMAIN left : i + 1 \in DOMAIN o /\ i \in Int
      BY <1>5, <2>1
    <3> QED
      BY <1>1, <2>1, <3>1 DEF Distinct
  <2>3. ASSUME NEW i \in DOMAIN left
        PROVE  Newer(left, i) = Newer(o, i + 1)
    <3>1. ASSUME NEW j \in (i + 1)..Len(left) PROVE left[j] \in Newer(o, i + 1)
      <4>1. j + 1 \in ((i + 1) + 1)..Len(o) /\ left[j] = o[j + 1]
        BY <1>5, <2>1
      <4> QED
        BY <4>1 DEF Newer
    <3>2. ASSUME NEW j \in ((i + 1) + 1)..Len(o) PROVE o[j] \in Newer(left, i)
      <4>1. j - 1 \in (i + 1)..Len(left) /\ left[j - 1] = o[(j - 1) + 1]
        BY <1>5, <2>1
      <4>2. o[(j - 1) + 1] = o[j]
        OBVIOUS
      <4> QED
        BY <4>1, <4>2 DEF Newer
    <3> QED
      BY <3>1, <3>2 DEF Newer
  <2>4. ASSUME NEW i \in DOMAIN left
        PROVE  left[i] # r /\ route[left[i]] # NoServer
               /\ since[left[i]] \ {r} = Newer(left, i)
    <3>1. i + 1 \in DOMAIN o /\ left[i] = o[i + 1]
      BY <1>5, <2>1
    <3> QED
      BY <1>2, <1>3, <2>3, <3>1
  <2>5. ASSUME NEW q \in Request, q # r, route[q] # NoServer,
               ~\E i \in DOMAIN left : left[i] = q
        PROVE  r \notin since[q] /\ since[q] = {left[i] : i \in DOMAIN left}
    <3>1. PICK i \in DOMAIN o : o[i] = q
      BY <1>2, <2>5
    <3>2. i = 1
      <4>1. CASE i > 1
        <5>1. i - 1 \in DOMAIN left /\ left[i - 1] = o[(i - 1) + 1]
          BY <1>5, <2>1, <4>1
        <5>2. (i - 1) + 1 = i
          BY <1>5
        <5> QED
          BY <2>5, <3>1, <5>1, <5>2
      <4> QED
        BY <1>5, <4>1
    <3>3. o = recent
      BY <1>1, <1>7
    <3>4. since[q] = Newer(o, 1)
      BY <1>5, <3>1, <3>2, <3>3 DEF CacheInv, OrderTellsSince
    <3>5. r \notin Newer(o, 1)
      BY <1>2, <1>5 DEF Newer
    <3>6. Newer(o, 1) = {left[j] : j \in DOMAIN left}
      <4>1. ASSUME NEW j \in 2..Len(o) PROVE \E m \in DOMAIN left : left[m] = o[j]
        <5>1. j - 1 \in DOMAIN left /\ left[j - 1] = o[(j - 1) + 1] /\ (j - 1) + 1 = j
          BY <1>5, <2>1
        <5> QED
          BY <5>1
      <4>2. ASSUME NEW m \in DOMAIN left PROVE left[m] \in Newer(o, 1)
        <5>1. m + 1 \in 2..Len(o) /\ left[m] = o[m + 1]
          BY <1>5, <2>1
        <5> QED
          BY <5>1 DEF Newer
      <4> QED
        BY <4>1, <4>2 DEF Newer
    <3> QED
      BY <3>4, <3>5, <3>6
  <2> QED
    BY <1>5, <1>7, <2>1, <2>2, <2>4, <2>5 DEF left
<1> QED
  BY <1>1, <1>5, <1>6, <1>7

\* The conversations that acquired after q did only grow in number.
LEMMA SinceGrows ==
    ASSUME TypeOK, NEW r \in Request, NEW q \in Request,
           Cardinality(since[q]) >= CacheSize
    PROVE  Cardinality(since[q] \union {r}) >= CacheSize
<1>1. since[q] \in SUBSET Request
  BY DEF TypeOK
<1>2. IsFiniteSet(since[q])
  BY <1>1, RequestAssumption, FS_Subset
<1>3. Cardinality(since[q]) \in Nat
  BY <1>2, FS_CardinalityType
<1>4. Cardinality(since[q] \union {r}) \in {Cardinality(since[q]), Cardinality(since[q]) + 1}
  BY <1>2, FS_AddElement
<1> QED
  BY <1>3, <1>4, CacheAssumption

\* What a grant leaves of the history.
LEMMA GrantHistory ==
    ASSUME TypeOK, NEW r \in Request, NEW s \in Pool, Grant(r, s)
    PROVE  /\ Pool' = Pool
           /\ s \in Server /\ s # NoServer
           /\ last'[r] = s /\ ~displaced'[r]
           /\ since' = [q \in Request |-> IF q = r THEN {} ELSE since[q] \union {r}]
           /\ \A q \in Request \ {r} :
                /\ last'[q] = last[q] /\ displaced'[q] = displaced[q]
                /\ since'[q] = since[q] \union {r}
BY ServerNumbers DEF TypeOK, Grant, Pool, Server

\* A conversation that finds its entry moves it to the end.
LEMMA StickyCache ==
    ASSUME CacheInv, NEW r \in Request, AcquireSticky(r)
    PROVE  CacheCoherent' /\ OrderTellsSince' /\ RouteTellsLast'
<1>1. /\ TypeOK /\ route[r] \in Pool /\ Grant(r, route[r])
      /\ recent' = Append(Others(r), r) /\ route' = route
  BY DEF CacheInv, AcquireSticky, Touch
<1> DEFINE s == route[r]
<1>2. /\ Pool' = Pool /\ s # NoServer
      /\ last'[r] = s /\ ~displaced'[r]
      /\ since' = [q \in Request |-> IF q = r THEN {} ELSE since[q] \union {r}]
      /\ \A q \in Request \ {r} :
            /\ last'[q] = last[q] /\ displaced'[q] = displaced[q]
            /\ since'[q] = since[q] \union {r}
  BY <1>1, GrantHistory
<1>3. Others(r) \in Seq(Request) /\ Distinct(Others(r))
  BY OthersFacts
<1>4. Len(Others(r)) < CacheSize
  <2>1. Len(Others(r)) <= CacheSize /\ Len(Others(r)) # CacheSize
    BY <1>2, OthersFacts
  <2>2. Len(Others(r)) \in Nat /\ CacheSize \in Nat
    BY <1>3, CacheAssumption, LenProperties
  <2> QED
    BY <2>1, <2>2
<1>5. {Others(r)[i] : i \in DOMAIN Others(r)} =
          {q \in Request : route[q] # NoServer} \ {r}
  BY OthersFacts
<1>6. \A i \in DOMAIN Others(r) : since[Others(r)[i]] \ {r} = Newer(Others(r), i)
  BY OthersFacts
<1>7. \A i \in DOMAIN Others(r) : Others(r)[i] # r
  BY <1>5
<1>8. /\ recent' \in Seq(Request) /\ Len(recent') <= CacheSize
      /\ Distinct(recent') /\ OrderTellsSince'
      /\ {recent'[i] : i \in DOMAIN recent'} =
            {Others(r)[i] : i \in DOMAIN Others(r)} \union {r}
  BY <1>1, <1>2, <1>3, <1>4, <1>6, <1>7, AppendKeeps
<1>9. {recent'[i] : i \in DOMAIN recent'} = {q \in Request : route'[q] # NoServer}
  BY <1>1, <1>2, <1>5, <1>8
<1>10. CacheCoherent'
  BY <1>8, <1>9 DEF CacheCoherent, Distinct
<1>11. ASSUME NEW q \in Request
       PROVE  /\ route'[q] # NoServer => last'[q] = route'[q]
              /\ last'[q] # NoServer /\ route'[q] = NoServer =>
                    Cardinality(since'[q]) >= CacheSize
              /\ last'[q] # NoServer /\ ~displaced'[q] => last'[q] \in Pool'
  <2>1. CASE q = r
    BY <1>1, <1>2, <2>1
  <2>2. CASE q # r
    BY <1>1, <1>2, <2>2, SinceGrows DEF CacheInv, RouteTellsLast
  <2> QED
    BY <2>1, <2>2
<1> QED
  BY <1>8, <1>10, <1>11 DEF RouteTellsLast

\* A conversation without a server of the pool gets an entry, and at most one
\* other loses its own, after CacheSize others came behind it.
LEMMA NewCache ==
    ASSUME CacheInv, NEW r \in Request, AcquireNew(r)
    PROVE  CacheCoherent' /\ OrderTellsSince' /\ RouteTellsLast'
<1> DEFINE left == Kept(r)
<1>1. PICK s \in Pool : Insert(r, s) /\ Grant(r, s)
  BY DEF AcquireNew
<1>2. TypeOK
  BY DEF CacheInv
<1>3. /\ Pool' = Pool /\ s # NoServer
      /\ last'[r] = s /\ ~displaced'[r]
      /\ since' = [q \in Request |-> IF q = r THEN {} ELSE since[q] \union {r}]
      /\ \A q \in Request \ {r} :
            /\ last'[q] = last[q] /\ displaced'[q] = displaced[q]
            /\ since'[q] = since[q] \union {r}
  BY <1>1, <1>2, GrantHistory
<1>4. /\ recent' = Append(left, r)
      /\ route' = [q \in Request |->
                      IF q = r THEN s
                      ELSE IF \E i \in DOMAIN left : left[i] = q
                           THEN route[q] ELSE NoServer]
  BY <1>1 DEF Insert, Kept
<1>5. left \in Seq(Request) /\ Distinct(left) /\ Len(left) < CacheSize
  BY KeptFacts
<1>6. \A i \in DOMAIN left : left[i] # r /\ route[left[i]] # NoServer
  BY KeptFacts
<1>7. \A i \in DOMAIN left : since[left[i]] \ {r} = Newer(left, i)
  BY KeptFacts
<1>8. ASSUME NEW q \in Request, q # r, route[q] # NoServer,
             ~\E i \in DOMAIN left : left[i] = q
      PROVE  /\ Len(left) + 1 = CacheSize
             /\ since[q] = {left[i] : i \in DOMAIN left}
  BY <1>8, KeptFacts
<1> HIDE DEF left
<1>9. /\ recent' \in Seq(Request) /\ Len(recent') <= CacheSize
      /\ Distinct(recent') /\ OrderTellsSince'
      /\ {recent'[i] : i \in DOMAIN recent'} =
            {left[i] : i \in DOMAIN left} \union {r}
  <2>1. recent' = Append(left, r)
    BY <1>4
  <2>2. since' = [q \in Request |-> IF q = r THEN {} ELSE since[q] \union {r}]
    BY <1>3
  <2>3. \A i \in DOMAIN left : left[i] # r
    BY <1>6
  <2> QED
    BY <1>2, <1>5, <1>7, <2>1, <2>2, <2>3, AppendKeeps
<1>10. {recent'[i] : i \in DOMAIN recent'} = {q \in Request : route'[q] # NoServer}
  <2>1. \A i \in DOMAIN left : left[i] \in Request
    BY <1>5, LenProperties
  <2>2. route'[r] # NoServer
    BY <1>3, <1>4
  <2>3. \A i \in DOMAIN left : route'[left[i]] # NoServer
    BY <1>4, <1>6, <2>1
  <2>4. ASSUME NEW q \in Request, route'[q] # NoServer, q # r
        PROVE  \E i \in DOMAIN left : left[i] = q
    BY <1>4, <2>4
  <2>5. {left[i] : i \in DOMAIN left} \union {r} =
            {q \in Request : route'[q] # NoServer}
    BY <2>1, <2>2, <2>3, <2>4
  <2> QED
    BY <1>9, <2>5
<1>11. CacheCoherent'
  BY <1>9, <1>10 DEF CacheCoherent, Distinct
<1>12. ASSUME NEW q \in Request
       PROVE  /\ route'[q] # NoServer => last'[q] = route'[q]
              /\ last'[q] # NoServer /\ route'[q] = NoServer =>
                    Cardinality(since'[q]) >= CacheSize
              /\ last'[q] # NoServer /\ ~displaced'[q] => last'[q] \in Pool'
  <2>1. CASE q = r
    BY <1>3, <1>4, <2>1
  <2>2. CASE q # r
    <3>1. route'[q] # NoServer => route'[q] = route[q]
      BY <1>4, <2>2
    <3>2. route'[q] # NoServer => last'[q] = route'[q]
      BY <1>3, <2>2, <3>1 DEF CacheInv, RouteTellsLast
    <3>3. last'[q] # NoServer /\ ~displaced'[q] => last'[q] \in Pool'
      BY <1>3, <2>2 DEF CacheInv, RouteTellsLast
    <3>4. ASSUME last'[q] # NoServer, route'[q] = NoServer
          PROVE  Cardinality(since'[q]) >= CacheSize
      <4>1. CASE route[q] = NoServer
        <5>1. Cardinality(since[q]) >= CacheSize
          BY <1>3, <2>2, <3>4, <4>1 DEF CacheInv, RouteTellsLast
        <5> QED
          BY <1>2, <1>3, <2>2, <5>1, SinceGrows
      <4>2. CASE route[q] # NoServer
        <5>1. ~\E i \in DOMAIN left : left[i] = q
          BY <1>4, <2>2, <3>4, <4>2
        <5>2. Len(left) + 1 = CacheSize /\ since[q] = {left[i] : i \in DOMAIN left}
          BY <1>8, <2>2, <4>2, <5>1
        <5>3. since'[q] = {recent'[i] : i \in DOMAIN recent'}
          BY <1>3, <1>9, <2>2, <5>2
        <5>4. Cardinality(since'[q]) = Len(recent')
          BY <1>9, <5>3, DistinctSize
        <5>5. Len(recent') = Len(left) + 1
          BY <1>4, <1>5, AppendProperties
        <5> QED
          BY <5>2, <5>4, <5>5, CacheAssumption
      <4> QED
        BY <4>1, <4>2
    <3> QED
      BY <3>2, <3>3, <3>4
  <2> QED
    BY <2>1, <2>2
<1> QED
  BY <1>9, <1>11, <1>12 DEF RouteTellsLast

\* The cache, its order and its history stay together.
LEMMA CacheHolds == Spec => []CacheInv
<1>1. Init => CacheInv
  <2> SUFFICES ASSUME Init PROVE CacheInv
    OBVIOUS
  <2>1. TypeOK
    BY InitHolds DEF IInv
  <2>2. recent = <<>> /\ CacheSize \in Nat
    BY CacheAssumption DEF Init
  <2>3. recent \in Seq(Request) /\ Len(recent) = 0 /\ DOMAIN recent = {}
    BY <2>2
  <2>4. CacheCoherent /\ OrderTellsSince
    BY <2>2, <2>3 DEF Init, CacheCoherent, OrderTellsSince
  <2>5. RouteTellsLast
    BY DEF Init, RouteTellsLast
  <2> QED
    BY <2>1, <2>4, <2>5 DEF CacheInv
<1>2. IInv /\ IInv' /\ CacheInv /\ [Next]_vars => CacheInv'
  <2> SUFFICES ASSUME IInv', CacheInv, [Next]_vars
               PROVE  CacheCoherent' /\ OrderTellsSince' /\ RouteTellsLast'
    BY DEF CacheInv, IInv
  <2>1. ASSUME NEW r \in Request, Acquire(r)
        PROVE  CacheCoherent' /\ OrderTellsSince' /\ RouteTellsLast'
    BY <2>1, StickyCache, NewCache DEF Acquire
  <2>2. CASE UNCHANGED <<route, recent, history>> /\ Pool' = Pool
    BY <2>2 DEF CacheInv, CacheCoherent, OrderTellsSince, Newer,
                RouteTellsLast, history
  <2>3. ASSUME NEW r \in Request, Release(r) PROVE Pool' = Pool
    <3>1. Decrement(holds[r]) = inflight \/ DOMAIN Decrement(holds[r]) = Pool
      BY DEF Decrement, Pool
    <3> QED
      BY <2>3, <3>1 DEF Release, Pool
  <2>4. CASE AddServers
    <3>1. Pool' = Pool \union Hybrid
      BY <2>4 DEF AddServers, Registered, Pool
    <3> QED
      BY <2>4, <3>1 DEF AddServers, CacheInv, CacheCoherent, OrderTellsSince,
                        Newer, RouteTellsLast, history
  <2>5. CASE RemoveServers
    <3>1. Pool' = Pool \ Hybrid
      BY <2>5 DEF RemoveServers, Unregistered, Pool
    <3>2. /\ UNCHANGED <<route, recent, last, since>>
          /\ displaced' = [r \in Request |-> displaced[r] \/ last[r] \in Hybrid]
      BY <2>5 DEF RemoveServers
    <3>3. CacheCoherent' /\ OrderTellsSince'
      BY <3>2 DEF CacheInv, CacheCoherent, OrderTellsSince, Newer
    <3>4. ASSUME NEW r \in Request, last[r] # NoServer, ~displaced'[r]
          PROVE  last[r] \in Pool'
      <4>1. ~displaced[r] /\ last[r] \notin Hybrid
        BY <3>2, <3>4
      <4> QED
        BY <3>1, <3>4, <4>1 DEF CacheInv, RouteTellsLast
    <3>5. RouteTellsLast'
      BY <3>2, <3>4 DEF CacheInv, RouteTellsLast
    <3> QED
      BY <3>3, <3>5
  <2>6. CASE UNCHANGED vars
    BY <2>2, <2>6 DEF vars, balancer, Pool
  <2> QED
    BY <2>1, <2>2, <2>3, <2>4, <2>5, <2>6 DEF Next, Release
<1> QED
  BY <1>1, <1>2, Invariance, PTL DEF Spec

-----------------------------------------------------------------------------
(* Theorems.                                                               *)

\* The state of the balancer keeps its type.
THEOREM TypeCorrect == Spec => []TypeOK
<1>1. IInv => TypeOK
    BY DEF IInv
<1> QED
    BY <1>1, Invariance, PTL

\* No counter ever exceeds the generations in flight on its server, although
\* additions reset counters and late releases reach servers that came back,
\* and the counters of the standalone servers are exact.
THEOREM CountersCorrect == Spec => []CountersHonest
<1>1. IInv => CountersHonest
    BY DEF IInv, CountersHonest
<1> QED
    BY <1>1, Invariance, PTL

\* A new conversation that goes to a standalone server goes to one with the
\* fewest generations really in flight among them.
THEOREM NewConversationsBalanced == Spec => StandaloneBalanced
<1> DEFINE Balanced ==
        \A r \in Request, s \in Standalone :
            Selects(r, s) /\ route[r] \notin Pool =>
                \A t \in Standalone :
                    Cardinality(Holders(s)) <= Cardinality(Holders(t))
<1>1. IInv /\ [Next]_vars => [Balanced]_vars
  <2> SUFFICES ASSUME IInv, Next, NEW r \in Request, NEW s \in Standalone,
                      Selects(r, s), route[r] \notin Pool,
                      NEW t \in Standalone
               PROVE  Cardinality(Holders(s)) <= Cardinality(Holders(t))
    OBVIOUS
  <2>1. holds[r] = NoServer /\ holds'[r] = s /\ s # NoServer
    BY ServerNumbers DEF Selects, NoServer
  <2>2. TypeOK /\ StandaloneExact
    BY DEF IInv
  <2>3. AcquireNew(r)
    <3>1. ASSUME NEW q \in Request, Acquire(q) PROVE q = r
      <4>1. PICK u \in Pool : Grant(q, u)
        BY <2>2, <3>1, AcquireGrants
      <4> QED
        BY <2>1, <2>2, <4>1 DEF Grant, TypeOK
    <3>2. ASSUME NEW q \in Request, Release(q) PROVE FALSE
      BY <2>1, <2>2, <3>2 DEF Release, TypeOK
    <3>3. ~AddServers /\ ~RemoveServers
      BY <2>1 DEF AddServers, RemoveServers
    <3> QED
      BY <3>1, <3>2, <3>3 DEF Next, Acquire, AcquireSticky
  <2>4. PICK u \in Pool : LeastLoaded(u) /\ Grant(r, u)
    BY <2>3 DEF AcquireNew
  <2>5. u = s
    BY <2>1, <2>2, <2>4 DEF Grant, TypeOK
  <2>6. t \in Pool
    BY <2>2 DEF TypeOK, Server
  <2>7. inflight[s] <= inflight[t]
    BY <2>4, <2>5, <2>6 DEF LeastLoaded
  <2> QED
    BY <2>2, <2>7 DEF StandaloneExact
<1> QED
    BY <1>1, Invariance, PTL DEF Spec, StandaloneBalanced

\* The routing cache and its recency list are one cache of at most CacheSize
\* conversations, each in it once, although an entry outlives its server and
\* is then written again.
THEOREM CacheIsCoherent == Spec => []CacheCoherent
<1>1. CacheInv => CacheCoherent
  BY DEF CacheInv
<1> QED
  BY <1>1, CacheHolds, PTL

\* A conversation changes its server only when that server left the pool or
\* CacheSize others acquired meanwhile, and is only ever sent to a server of
\* the pool.
THEOREM ConversationsStay == Spec => StaysUnlessDisplaced
<1> DEFINE Stays ==
      \A r \in Request, s \in Server :
          Selects(r, s) =>
              /\ s \in Pool
              /\ \/ s = last[r]
                 \/ last[r] = NoServer \/ displaced[r]
                 \/ Cardinality(since[r]) >= CacheSize
<1>1. CacheInv /\ [Next]_vars => [Stays]_vars
  <2> SUFFICES ASSUME CacheInv, Next, NEW r \in Request, NEW s \in Server,
                      Selects(r, s)
               PROVE  /\ s \in Pool
                      /\ \/ s = last[r]
                         \/ last[r] = NoServer \/ displaced[r]
                         \/ Cardinality(since[r]) >= CacheSize
    OBVIOUS
  <2>1. holds[r] = NoServer /\ holds'[r] = s /\ s # NoServer /\ TypeOK
    BY ServerNumbers DEF Selects, CacheInv
  <2>2. Acquire(r)
    <3>1. ASSUME NEW q \in Request, Acquire(q) PROVE q = r
      <4>1. PICK u \in Pool : Grant(q, u)
        BY <2>1, <3>1, AcquireGrants
      <4> QED
        BY <2>1, <4>1 DEF Grant, TypeOK
    <3>2. ASSUME NEW q \in Request, Release(q) PROVE FALSE
      BY <2>1, <3>2 DEF Release, TypeOK
    <3>3. ~AddServers /\ ~RemoveServers
      BY <2>1 DEF AddServers, RemoveServers
    <3> QED
      BY <3>1, <3>2, <3>3 DEF Next
  <2>3. CASE AcquireSticky(r)
    <3>1. s = route[r] /\ route[r] \in Pool
      BY <2>1, <2>3 DEF AcquireSticky, Grant, TypeOK
    <3> QED
      BY <2>1, <3>1 DEF CacheInv, RouteTellsLast
  <2>4. CASE AcquireNew(r)
    <3>1. PICK u \in Pool : Grant(r, u)
      BY <2>4 DEF AcquireNew
    <3>2. s = u /\ route[r] \notin Pool
      BY <2>1, <2>4, <3>1 DEF AcquireNew, Grant, TypeOK
    <3> QED
      BY <3>2 DEF CacheInv, RouteTellsLast
  <2> QED
    BY <2>2, <2>3, <2>4 DEF Acquire
<1> QED
  BY <1>1, CacheHolds, PTL DEF Spec, StaysUnlessDisplaced

-----------------------------------------------------------------------------
(* The queue, the buffer and the rounds of ReplayBuffer.                   *)

PaddingKey == UNION {Padding(r) : r \in Round}

\* The keys: of prompts, of their sessions, and of padding.
LEMMA UidFacts ==
    /\ Uid \subseteq Key
    /\ \A r : UidsOf(r) \subseteq Uid
    /\ \A r : \A u \in UidsOf(r) : u.round = r
    /\ \A u \in Uid : u.session = 0 /\ u.kind \in {"sampled", "baseline"} /\ u.round \in Round
BY DEF Key, Uid, UidsOf

\* The key of a session tells its prompt.
LEMMA TrajectoryFacts ==
    ASSUME NEW u \in Uid, NEW k \in Trajectories(u)
    PROVE  /\ k \in Session /\ k \in Key
           /\ k.round = u.round /\ k.kind = u.kind /\ k.prompt = u.prompt
           /\ k.session \in Nat \ {0}
           /\ UidOf(k) = u
<1>1. PICK s \in SessionsOf(u.kind) : k = [u EXCEPT !.session = s]
    BY DEF Trajectories
<1>2. s \in Nat \ {0}
    BY <1>1, PromptAssumption DEF SessionsOf
<1>3. k \in Session /\ k \in Key
    BY DEF Session, Key
<1>4. /\ k.round = u.round /\ k.kind = u.kind /\ k.prompt = u.prompt
      /\ k.session = s
    BY <1>1 DEF Uid
<1>5. UidOf(k) = u
  <2>1. UidOf(k) = [u EXCEPT !.session = 0]
    BY <1>1 DEF UidOf, Uid
  <2>2. u = [round |-> u.round, prompt |-> u.prompt, kind |-> u.kind, session |-> 0]
    BY DEF Uid
  <2> QED
    BY <2>1, <2>2
<1> QED
    BY <1>2, <1>3, <1>4, <1>5

\* The three kinds of keys are disjoint.
LEMMA KeyFacts ==
    /\ Uid \subseteq Key /\ Session \subseteq Key /\ PaddingKey \subseteq Key
    /\ Key = Uid \union Session \union PaddingKey
    /\ \A k \in Session : /\ k \notin Uid /\ k \notin PaddingKey
                          /\ k.kind \in {"sampled", "baseline"}
                          /\ UidOf(k) \in Uid /\ k \in Trajectories(UidOf(k))
                          /\ k.round = UidOf(k).round
    /\ \A k \in PaddingKey : k \notin Uid /\ k.kind = "padding" /\ k.round \in Round
    /\ \A r \in Round : Padding(r) \subseteq PaddingKey
    /\ \A r \in Round : \A k \in Padding(r) : k.round = r
<1>1. /\ Uid \subseteq Key /\ Session \subseteq Key /\ PaddingKey \subseteq Key
      /\ Key = Uid \union Session \union PaddingKey
    BY DEF Key, PaddingKey
<1>2. ASSUME NEW k \in PaddingKey
      PROVE  k.kind = "padding" /\ k.round \in Round
    BY DEF PaddingKey, Padding
<1>3. \A k \in PaddingKey : k \notin Uid
    BY <1>2, UidFacts
<1>4. ASSUME NEW k \in Session
      PROVE  /\ k \notin Uid /\ k \notin PaddingKey
             /\ k.kind \in {"sampled", "baseline"}
             /\ UidOf(k) \in Uid /\ k \in Trajectories(UidOf(k))
             /\ k.round = UidOf(k).round
  <2>1. PICK u \in Uid : k \in Trajectories(u)
    BY DEF Session
  <2>2. /\ k.round = u.round /\ k.kind = u.kind
        /\ k.session \in Nat \ {0} /\ UidOf(k) = u
    BY <2>1, TrajectoryFacts
  <2>3. k \notin Uid /\ k.kind \in {"sampled", "baseline"}
    BY <2>2, UidFacts
  <2>4. k \notin PaddingKey
    BY <2>2, <1>2, UidFacts
  <2> QED
    BY <2>1, <2>2, <2>3, <2>4
<1>5. \A r \in Round : /\ Padding(r) \subseteq PaddingKey
                       /\ \A k \in Padding(r) : k.round = r
    BY DEF PaddingKey, Padding
<1> QED
    BY <1>1, <1>2, <1>3, <1>4, <1>5

-----------------------------------------------------------------------------
(* The invariant: what the entries of queue, poll thread and buffer tell   *)
(* of the prompts and sessions they are about.                             *)

HasEnded == {"finished", "failure"}
BeforePadding ==
    {"mark", "start", "sample", "use", "baselines", "forget", "pad"}
AfterSample == {"use", "baselines", "forget", "pad", "clear"}
Cleaning == {"remove", "clear kept", "remove kept"}

RoundInSchedule == pc \notin Stopped => round \in Round

\* Prompts start with their round, and run only until it is sampled; the round
\* of one whose status was lost never is.
PromptsInOrder ==
    \A u \in Uid :
        /\ prompt[u] # "idle" =>
            /\ u \in UidsOf(u.round) /\ u.round <= round
            /\ pc \in {"mark", "start"} => u.round < round
        /\ prompt[u] \in {"running", "lost"} =>
            u.round = round /\ pc \in {"sample", "exited"}

\* A session starts with its prompt, and a prompt finishes after all of its.
SessionsFollow ==
    \A k \in Session :
        /\ session[k] # "idle" => prompt[UidOf(k)] # "idle"
        /\ prompt[UidOf(k)] = "finished" => session[k] \in {"put", "empty"}

\* An entry of a prompt is how it ended, one of a session that it put.
EntriesTell(entries) ==
    /\ \A u \in Uid : entries[u] # Absent =>
            entries[u] = prompt[u] /\ prompt[u] \in HasEnded
    /\ \A k \in Session : entries[k] # Absent =>
            entries[k] = "success" /\ session[k] = "put"

\* The buffer also holds the trainer's own mark of a pending prompt.
BufferTells ==
    /\ \A u \in Uid : buffer[u] # "success"
    /\ \A k \in Session : buffer[k] # Absent =>
            buffer[k] = "success" /\ session[k] = "put"

\* A round's padding is nowhere before the round pads.
PaddingIsLate ==
    \A k \in PaddingKey :
        k.round > round \/ (k.round = round /\ pc \in BeforePadding) =>
             queue[k] = Absent /\ snapshot[k] = Absent /\ buffer[k] = Absent

\* Until the sample, nothing of the round leaves the queue, and the poll thread
\* has seen a prompt finish only together with what its sessions put.
StoredUntilSampled ==
    pc = "sample" =>
        \A k \in Session : k.round = round /\ session[k] = "put" =>
            /\ queue[k] = "success"
            /\ snapshot[UidOf(k)] = "finished" => snapshot[k] = "success"
            /\ buffer[UidOf(k)] = "finished" => buffer[k] = "success"

\* A prompt of the round stays marked as running until its end is polled.
RunningUntilEnded ==
    /\ pc = "start" => \A u \in UidsOf(round) : buffer[u] = "running"
    /\ pc = "sample" => \A u \in UidsOf(round) :
        buffer[u] = "running" \/ (buffer[u] = prompt[u] /\ prompt[u] \in HasEnded)

\* After its sample, no prompt of the round runs any more.
RoundEnded ==
    pc \in AfterSample \union {"remove"} =>
        \A u \in UidsOf(round) : prompt[u] \in HasEnded

OfFailedPrompt(k) == k \in Session /\ prompt[UidOf(k)] = "failure"

\* What the queue still has of the round is in the batch, or came from a
\* session of a failed prompt.
NothingForgotten ==
    \A k \in Key : k.round = round /\ queue[k] = "success" =>
        /\ pc \in AfterSample => OfFailedPrompt(k) \/ k \in batch
        /\ pc \in Cleaning => OfFailedPrompt(k)
        /\ pc = "forget" => k \notin Baselines

BatchIsPut == \A k \in batch : k \in Session => session[k] = "put"

\* No partition has two batches of the same step.
RoundsDiffer == \A i, j \in Round : Schedule[i] = Schedule[j] => i = j

\* The batch is of this round and still in the queue.
BatchIsOwn ==
    RoundsDiffer /\ pc \in AfterSample =>
        \A k \in batch :
            /\ k.round = round
            /\ pc = "forget" => k \in Baselines \/ queue[k] = "success"
            /\ pc # "forget" => queue[k] = "success"

\* The batch is of the step of the round, and so is one that was trained on.
BatchOfStep ==
    /\ \A k \in batch :
        PartOf(k) = Schedule[round].part /\ StepOf(k) = Schedule[round].step
    /\ pc \in {"clear kept", "remove kept"} => batch = {}

KeptOfStep ==
    /\ pc \notin Stopped /\ kept # {} => Schedule[round].part = "val"
    /\ \A k \in kept : PartOf(k) = "train" /\ StepOf(k) = Schedule[round].step

KeptIsPut == \A k \in kept : k \in Session => session[k] = "put"

\* It is stored until its cleanup, and no longer.
KeptStored ==
    /\ RoundsDiffer /\ pc \notin Stopped \union {"remove kept"} =>
        \A k \in kept : queue[k] = "success"
    /\ pc = "remove kept" => \A k \in kept : queue[k] # "success"

KeptTells == BatchOfStep /\ KeptOfStep /\ KeptIsPut /\ KeptStored

ReplayInv ==
    /\ BufferTypes /\ RoundInSchedule
    /\ PromptsInOrder /\ SessionsFollow
    /\ EntriesTell(queue) /\ EntriesTell(snapshot) /\ BufferTells
    /\ PaddingIsLate
    /\ StoredUntilSampled /\ RunningUntilEnded
    /\ NothingForgotten /\ BatchIsOwn /\ BatchIsPut /\ RoundEnded /\ KeptTells
    /\ FinishedPromptComplete /\ OnlyFailedPromptsLeft

LEMMA RoundsAreNumbers == Round \subseteq Nat
BY ScheduleAssumption DEF Round

\* While a session runs its prompt does, or it has failed.
LEMMA RunningSession ==
    ASSUME ReplayInv, NEW j \in Session, session[j] = "running"
    PROVE  /\ UidOf(j) \in Uid /\ UidOf(j) \in UidsOf(j.round)
           /\ prompt[UidOf(j)] \in {"running", "failure", "lost"}
           /\ pc \notin {"sample", "exited"} => prompt[UidOf(j)] = "failure"
           /\ j.round < round => prompt[UidOf(j)] = "failure"
<1>1. UidOf(j) \in Uid /\ j.round = UidOf(j).round
    BY KeyFacts
<1>2. /\ prompt[UidOf(j)] # "idle" /\ prompt[UidOf(j)] # "finished"
      /\ prompt[UidOf(j)] \in {"idle", "running", "finished", "failure", "lost"}
    BY <1>1 DEF ReplayInv, SessionsFollow, BufferTypes
<1>3. round \in Nat
    BY DEF ReplayInv, BufferTypes
<1> QED
    BY <1>1, <1>2, <1>3 DEF ReplayInv, PromptsInOrder

\* Before a round starts there is nothing of it anywhere.
LEMMA IdleRound ==
    ASSUME ReplayInv, pc = "start"
    PROVE  /\ \A u \in Uid : u.round = round =>
                prompt[u] = "idle" /\ queue[u] = Absent /\ snapshot[u] = Absent
           /\ \A u \in UidsOf(round) : queue[u] = Absent /\ snapshot[u] = Absent
           /\ \A k \in Session : k.round = round => session[k] = "idle"
           /\ \A k \in Session : UidOf(k) \in UidsOf(round) => session[k] = "idle"
<1>1. round \in Nat
    BY DEF ReplayInv, BufferTypes
<1>2. \A u \in Uid : u.round = round => prompt[u] = "idle"
    BY <1>1 DEF ReplayInv, PromptsInOrder
<1>3. \A u \in Uid : u.round = round => queue[u] = Absent /\ snapshot[u] = Absent
    BY <1>2 DEF ReplayInv, EntriesTell, HasEnded
<1>4. \A k \in Session : k.round = round => session[k] = "idle"
    BY <1>2, KeyFacts DEF ReplayInv, SessionsFollow
<1> QED
    BY <1>2, <1>3, <1>4, UidFacts, KeyFacts

\* A sample returns when the buffer has the end of every prompt.
LEMMA AllEnded ==
    ASSUME ReplayInv, Sample
    PROVE  \A u \in UidsOf(round) : prompt[u] \in HasEnded /\ buffer[u] = prompt[u]
<1>1. \A u \in UidsOf(round) : buffer[u] # "running"
    BY UidFacts DEF Sample, Matching, PartOf, StepOf
<1> QED
    BY <1>1 DEF ReplayInv, RunningUntilEnded, Sample, Goto

\* The sample takes all that the sessions of a finished prompt put.
LEMMA FinishedSampled ==
    ASSUME ReplayInv, Sample, NEW u \in UidsOf(round), NEW k \in Trajectories(u),
           prompt[u] = "finished", session[k] = "put"
    PROVE  k \in batch'
<1>1. u \in Uid /\ u.round = round
    BY UidFacts
<1>2. k \in Session /\ k \in Key /\ k.round = round /\ UidOf(k) = u
    BY <1>1, TrajectoryFacts
<1>3. buffer[k] = "success"
    BY <1>2, AllEnded DEF ReplayInv, StoredUntilSampled, Sample, Goto
<1> QED
    BY <1>2, <1>3 DEF Sample, Matching, PartOf, StepOf

\* What matches the partition and the step is of the round.
LEMMA MatchingIsOwn ==
    ASSUME RoundsDiffer, ReplayInv, pc \notin Stopped, NEW k \in Matching
    PROVE  k.round = round
<1>1. round \in Round /\ k.round \in Round
    BY KeyFacts, UidFacts DEF ReplayInv, RoundInSchedule, Matching
<1>2. \A r \in Round : Schedule[r] \in [part : {"train", "val"}, step : Nat]
    BY ScheduleAssumption, ElementOfSeq, LenProperties DEF Round
<1>3. Schedule[k.round] = Schedule[round]
    BY <1>1, <1>2 DEF Matching, PartOf, StepOf
<1> QED
    BY <1>1, <1>3 DEF RoundsDiffer

LEMMA PadsArePadding ==
    ASSUME ReplayInv, pc = "pad"
    PROVE  /\ round \in Round
           /\ Pads \subseteq PaddingKey
           /\ \A k \in Pads : k.round = round
BY KeyFacts DEF ReplayInv, RoundInSchedule, Stopped, Pads

\* What was trained on is not in the batch of a validation.
LEMMA CleanupIsApart ==
    ASSUME ReplayInv, pc \notin Stopped
    PROVE  kept \subseteq Key /\ \A k \in kept : k \notin batch
<1>1. ASSUME NEW k \in kept, k \in batch PROVE FALSE
  <2>1. Schedule[round].part = "val" /\ PartOf(k) = "train"
    BY <1>1 DEF ReplayInv, KeptTells, KeptOfStep
  <2>2. PartOf(k) = Schedule[round].part
    BY <1>1 DEF ReplayInv, KeptTells, BatchOfStep
  <2> QED
    BY <2>1, <2>2
<1> QED
    BY <1>1 DEF ReplayInv, BufferTypes

\* Nothing becomes forgotten while the batch stays and nothing new is stored.
LEMMA NothingElseForgotten ==
    ASSUME NothingForgotten, OnlyFailedPromptsLeft,
           UNCHANGED <<pc, round, batch, kept>>,
           \A k \in Key : queue'[k] = "success" => queue[k] = "success",
           \A u \in Uid : prompt[u] = "failure" => prompt'[u] = "failure"
    PROVE  NothingForgotten' /\ OnlyFailedPromptsLeft'
<1>1. \A k \in Key : OfFailedPrompt(k) => OfFailedPrompt(k)'
  BY KeyFacts DEF OfFailedPrompt
<1>2. Baselines' = Baselines
  BY DEF Baselines
<1>3. NothingForgotten'
  BY <1>1, <1>2 DEF NothingForgotten
<1>4. OnlyFailedPromptsLeft'
  BY <1>1 DEF OnlyFailedPromptsLeft, OfFailedPrompt
<1> QED
  BY <1>3, <1>4

\* What was trained on stays what it was while its entries do.
LEMMA KeptStays ==
    ASSUME KeptTells, UNCHANGED <<round, batch, kept>>,
           \/ pc' = pc
           \/ pc' \in Stopped
           \/ /\ pc \notin Stopped \union {"remove kept"}
              /\ pc' \notin {"clear kept", "remove kept"},
           \A k \in kept : queue'[k] = "success" <=> queue[k] = "success",
           \A k \in kept : k \in Session /\ session[k] = "put" => session'[k] = "put"
    PROVE  KeptTells'
<1>1. BatchOfStep'
  BY DEF KeptTells, BatchOfStep, Stopped
<1>2. KeptOfStep'
  BY DEF KeptTells, KeptOfStep, Stopped
<1>3. KeptIsPut'
  BY DEF KeptTells, KeptIsPut
<1>4. KeptStored'
  BY DEF KeptTells, KeptStored, Stopped
<1> QED
  BY <1>1, <1>2, <1>3, <1>4 DEF KeptTells

\* A round begins when nothing runs, and with nothing of its own anywhere.
LEMMA NextRoundFacts ==
    ASSUME ReplayInv, pc \in {"clear"} \union Cleaning, NextRound,
           prompt' = prompt
    PROVE  /\ pc' \in {"done", "mark"}
           /\ RoundInSchedule' /\ PromptsInOrder'
           /\ \A k \in Key : k.round < round' => k.round < round \/ k.round = round
           /\ \A k \in PaddingKey :
                k.round > round' \/ (k.round = round' /\ pc' \in BeforePadding) =>
                    k.round > round
           /\ ValidatesNext =>
                /\ pc' = "mark" /\ Schedule[round'].part = "val"
                /\ Schedule[round'].step = Schedule[round].step
<1>0. pc \notin Stopped
  BY DEF Stopped, Cleaning
<1>1. /\ round \in 1..Len(Schedule) /\ Round = 1..Len(Schedule)
      /\ Len(Schedule) \in Nat /\ round \in Nat
  BY <1>0, ScheduleAssumption, LenProperties DEF ReplayInv, RoundInSchedule, Round
<1>2. \/ pc' = "done" /\ round' = round /\ round = Len(Schedule)
      \/ pc' = "mark" /\ round' = round + 1 /\ round # Len(Schedule)
  BY DEF NextRound
<1>3. RoundInSchedule'
  BY <1>1, <1>2 DEF RoundInSchedule, Stopped
<1>4. PromptsInOrder'
  <2>1. \A u \in Uid : /\ prompt[u] # "idle" =>
                            u \in UidsOf(u.round) /\ u.round <= round
                       /\ prompt[u] \notin {"running", "lost"}
    BY DEF ReplayInv, PromptsInOrder, Cleaning
  <2>2. \A u \in Uid : u.round \in Nat
    BY UidFacts, RoundsAreNumbers
  <2>3. \A r \in Nat : r <= round => r <= round' /\ (pc' = "mark" => r < round')
    BY <1>1, <1>2
  <2> QED
    BY <1>2, <2>1, <2>2, <2>3 DEF PromptsInOrder
<1>5. \A k \in Key : k.round < round' => k.round < round \/ k.round = round
  <2>1. \A k \in Key : k.round \in Nat
    BY KeyFacts, UidFacts, RoundsAreNumbers
  <2> QED
    BY <1>1, <1>2, <2>1
<1>6. \A k \in PaddingKey :
        k.round > round' \/ (k.round = round' /\ pc' \in BeforePadding) =>
            k.round > round
  <2>1. \A k \in PaddingKey : k.round \in Nat
    BY KeyFacts, RoundsAreNumbers
  <2> QED
    BY <1>1, <1>2, <2>1 DEF BeforePadding
<1>7. ValidatesNext => /\ pc' = "mark" /\ Schedule[round'].part = "val"
                       /\ Schedule[round'].step = Schedule[round].step
  BY <1>1, <1>2 DEF ValidatesNext
<1> QED
  BY <1>2, <1>3, <1>4, <1>5, <1>6, <1>7

\* What the poll thread reads is what the queue tells.
LEMMA PollReadKeeps ==
    ASSUME ReplayInv, PollRead
    PROVE  ReplayInv'
<1>1. (BufferTypes /\ RoundInSchedule)'
  BY DEF ReplayInv, BufferTypes, RoundInSchedule, workers, trainer, PollRead
<1>2. (PromptsInOrder /\ SessionsFollow /\ RunningUntilEnded /\ RoundEnded)'
  BY DEF ReplayInv, PromptsInOrder, SessionsFollow, RunningUntilEnded,
         RoundEnded, workers, trainer, PollRead
<1>3. /\ EntriesTell(queue)'
      /\ EntriesTell(snapshot)'
      /\ BufferTells'
      /\ PaddingIsLate'
      /\ StoredUntilSampled'
  BY DEF ReplayInv, EntriesTell, BufferTells, PaddingIsLate,
         StoredUntilSampled, workers, trainer, PollRead
<1>4. /\ NothingForgotten'
      /\ BatchIsOwn'
      /\ BatchIsPut'
      /\ FinishedPromptComplete'
      /\ OnlyFailedPromptsLeft'
  BY DEF ReplayInv, NothingForgotten, Cleaning, OfFailedPrompt, Baselines, BatchIsOwn,
         BatchIsPut, FinishedPromptComplete, OnlyFailedPromptsLeft, workers,
         trainer, PollRead
<1>5. KeptTells'
  BY KeptStays DEF ReplayInv, workers, trainer, PollRead
<1> QED
  BY <1>5, <1>1, <1>2, <1>3, <1>4 DEF ReplayInv

\* A partition is added in one go, so a prompt's end comes with what its
\* sessions
\* put before it.
LEMMA PollAddKeeps ==
    ASSUME ReplayInv, NEW p \in Part, PollAdd(p)
    PROVE  ReplayInv'
<1>1. (BufferTypes /\ RoundInSchedule)'
  BY DEF ReplayInv, BufferTypes, Tag, NoEntries, RoundInSchedule, workers,
         trainer, PollAdd, PartOf
<1>2. (PromptsInOrder /\ SessionsFollow /\ RoundEnded)'
  BY DEF ReplayInv, PromptsInOrder, SessionsFollow, RoundEnded, workers,
         trainer, PollAdd, PartOf
<1>3. RunningUntilEnded'
  <2>2. \A u \in Uid : \/ buffer'[u] = buffer[u]
                       \/ buffer'[u] = snapshot[u] /\ snapshot[u] # Absent
    BY UidFacts DEF PollAdd
  <2>3. \A u \in Uid : buffer'[u] # buffer[u] => buffer'[u] = prompt[u] /\ prompt[u] \in HasEnded
    BY <2>2 DEF ReplayInv, EntriesTell
  <2>4. pc = "start" => \A u \in UidsOf(round) : prompt[u] \notin HasEnded
    BY UidFacts DEF ReplayInv, PromptsInOrder, BufferTypes, HasEnded
  <2> QED
    BY <2>3, <2>4, UidFacts
    DEF ReplayInv, RunningUntilEnded, PollAdd, workers, trainer
<1>4. /\ EntriesTell(queue)'
      /\ EntriesTell(snapshot)'
      /\ BufferTells'
      /\ PaddingIsLate'
  BY KeyFacts
  DEF ReplayInv, EntriesTell, NoEntries, BufferTells, PaddingIsLate,
      BufferTypes, workers, trainer, PollAdd, PartOf
<1>5. StoredUntilSampled'
  <2> SUFFICES ASSUME pc = "sample", NEW k \in Session,
                      k.round = round, session[k] = "put"
               PROVE  /\ queue[k] = "success"
                      /\ snapshot'[UidOf(k)] = "finished" => snapshot'[k] = "success"
                      /\ buffer'[UidOf(k)] = "finished" => buffer'[k] = "success"
    BY DEF StoredUntilSampled, PollAdd, workers, trainer
  <2>1. /\ queue[k] = "success"
        /\ snapshot[UidOf(k)] = "finished" => snapshot[k] = "success"
        /\ buffer[UidOf(k)] = "finished" => buffer[k] = "success"
        /\ snapshot[k] # Absent => snapshot[k] = "success"
    BY DEF ReplayInv, StoredUntilSampled, EntriesTell
  <2>2. k \in Key /\ UidOf(k) \in Key /\ PartOf(k) = PartOf(UidOf(k))
    BY KeyFacts DEF PartOf
  <2>3. \A j \in Key : /\ buffer'[j] = IF PartOf(j) = p /\ snapshot[j] # Absent
                                       THEN snapshot[j] ELSE buffer[j]
                       /\ snapshot'[j] \in {snapshot[j], Absent}
                       /\ snapshot' = snapshot \/ snapshot'[j] = Absent
    BY DEF PollAdd, NoEntries
  <2>4. snapshot'[UidOf(k)] = "finished" => snapshot' = snapshot
    BY <2>2, <2>3 DEF Absent
  <2>5. buffer'[UidOf(k)] = "finished" => buffer'[k] = "success"
    BY <2>1, <2>2, <2>3 DEF Absent
  <2> QED
    BY <2>1, <2>4, <2>5
<1>6. /\ NothingForgotten'
      /\ BatchIsOwn'
      /\ BatchIsPut'
      /\ FinishedPromptComplete'
      /\ OnlyFailedPromptsLeft'
  BY DEF ReplayInv, NothingForgotten, Cleaning, OfFailedPrompt, Baselines, BatchIsOwn,
         BatchIsPut, FinishedPromptComplete, OnlyFailedPromptsLeft, workers,
         trainer, PollAdd, PartOf
<1>7. KeptTells'
  BY KeptStays DEF ReplayInv, workers, trainer, PollAdd
<1> QED
  BY <1>7, <1>1, <1>2, <1>3, <1>4, <1>5, <1>6 DEF ReplayInv

\* The end of the process changes no entry.
LEMMA PollRaisesKeeps ==
    ASSUME ReplayInv, PollRaises
    PROVE  ReplayInv'
<1>1. (BufferTypes /\ RoundInSchedule)'
  <2>1. /\ pc' = "exited" /\ failures' = failures + 1 /\ failures < MaxFailures
        /\ UNCHANGED <<queue, buffer, snapshot, adding, session, prompt, round,
                       batch, kept>>
    BY DEF PollRaises, poller, workers
  <2>2. pc' \in TrainerStates /\ pc' \in Stopped
    BY <2>1 DEF TrainerStates, Stopped
  <2>3. failures' \in 0..MaxFailures
    BY <2>1, PromptAssumption DEF ReplayInv, BufferTypes
  <2> QED
    BY <2>1, <2>2, <2>3 DEF ReplayInv, BufferTypes, RoundInSchedule
<1>2. (PromptsInOrder /\ SessionsFollow /\ RunningUntilEnded /\ RoundEnded)'
  BY DEF ReplayInv, PromptsInOrder, SessionsFollow, RunningUntilEnded,
         RoundEnded, AfterSample, workers, PollRaises
<1>3. /\ EntriesTell(queue)'
      /\ EntriesTell(snapshot)'
      /\ BufferTells'
      /\ PaddingIsLate'
      /\ StoredUntilSampled'
  BY DEF ReplayInv, EntriesTell, BufferTells, PaddingIsLate, BeforePadding,
         StoredUntilSampled, poller, workers, PollRaises
<1>4. /\ NothingForgotten'
      /\ BatchIsOwn'
      /\ BatchIsPut'
      /\ FinishedPromptComplete'
      /\ OnlyFailedPromptsLeft'
  BY DEF ReplayInv, NothingForgotten, Cleaning, AfterSample, OfFailedPrompt, BatchIsOwn,
         BatchIsPut, FinishedPromptComplete, OnlyFailedPromptsLeft, workers,
         PollRaises
<1>5. KeptTells'
  BY KeptStays DEF ReplayInv, Stopped, workers, PollRaises
<1> QED
  BY <1>5, <1>1, <1>2, <1>3, <1>4 DEF ReplayInv

\* A session puts while its prompt runs or after it failed.
LEMMA SessionPutsKeeps ==
    ASSUME ReplayInv, NEW j \in Session, SessionPuts(j)
    PROVE  ReplayInv'
<1>1. (BufferTypes /\ RoundInSchedule)'
  BY DEF ReplayInv, BufferTypes, Tag, RoundInSchedule, poller, trainer,
         SessionPuts, Put
<1>2. (PromptsInOrder /\ SessionsFollow /\ RunningUntilEnded /\ RoundEnded)'
  BY DEF ReplayInv, PromptsInOrder, SessionsFollow, RunningUntilEnded,
         RoundEnded, trainer, SessionPuts
<1>3. /\ EntriesTell(queue)'
      /\ EntriesTell(snapshot)'
      /\ BufferTells'
      /\ PaddingIsLate'
  BY KeyFacts
  DEF ReplayInv, EntriesTell, BufferTells, PaddingIsLate, BufferTypes, poller,
      trainer, SessionPuts, Put
<1>4. StoredUntilSampled'
  <2> SUFFICES ASSUME pc = "sample", NEW k \in Session,
                      k.round = round, session'[k] = "put"
               PROVE  /\ queue'[k] = "success"
                      /\ snapshot[UidOf(k)] = "finished" => snapshot[k] = "success"
                      /\ buffer[UidOf(k)] = "finished" => buffer[k] = "success"
    BY DEF StoredUntilSampled, SessionPuts, poller, trainer
  <2>1. CASE k = j
    <3>1. queue'[k] = "success"
      BY <2>1, KeyFacts DEF SessionPuts, Put
    <3>2. /\ UidOf(k) \in UidsOf(round) /\ UidOf(k) \in Uid
          /\ prompt[UidOf(k)] # "finished"
      BY <2>1, KeyFacts, RunningSession DEF SessionPuts
    <3> QED
      BY <3>1, <3>2 DEF ReplayInv, EntriesTell, RunningUntilEnded, Absent
  <2>2. CASE k # j
    <3>1. session[k] = "put" /\ queue'[k] = queue[k]
      BY <2>2, KeyFacts DEF SessionPuts, Put, ReplayInv, BufferTypes
    <3> QED
      BY <3>1 DEF ReplayInv, StoredUntilSampled
  <2> QED
    BY <2>1, <2>2
<1>5. (BatchIsOwn /\ BatchIsPut)'
  BY DEF ReplayInv, BatchIsOwn, Baselines, BatchIsPut, BufferTypes, trainer,
         SessionPuts, Put
<1>6. NothingForgotten'
  <2> SUFFICES ASSUME NEW k \in Key, k.round = round, queue'[k] = "success"
               PROVE  /\ pc \in AfterSample => OfFailedPrompt(k) \/ k \in batch
                      /\ pc \in Cleaning => OfFailedPrompt(k)
                      /\ pc = "forget" => k \notin Baselines
    BY DEF NothingForgotten, SessionPuts, trainer, OfFailedPrompt, Baselines
  <2>1. CASE k = j
    <3>1. pc \in AfterSample \union Cleaning => OfFailedPrompt(k)
      BY <2>1, RunningSession DEF SessionPuts, OfFailedPrompt, AfterSample, Cleaning
    <3>2. pc = "forget" => k \notin batch
      BY <2>1 DEF SessionPuts, ReplayInv, BatchIsPut, AfterSample
    <3> QED
      BY <3>1, <3>2 DEF Baselines
  <2>2. CASE k # j
    <3>1. queue[k] = "success"
      BY <2>2 DEF SessionPuts, Put
    <3> QED
      BY <3>1 DEF ReplayInv, NothingForgotten
  <2> QED
    BY <2>1, <2>2
<1>7. FinishedPromptComplete'
  BY RunningSession, TrajectoryFacts, UidFacts
  DEF ReplayInv, FinishedPromptComplete, SessionPuts, trainer, BufferTypes
<1>8. OnlyFailedPromptsLeft'
  <2> SUFFICES ASSUME NEW k \in Key, k.round < round, queue'[k] = "success"
               PROVE  (k \in Session /\ prompt[UidOf(k)] = "failure") \/ k \in kept
    BY DEF OnlyFailedPromptsLeft, SessionPuts, trainer
  <2>1. CASE k = j
    BY <2>1, RunningSession DEF SessionPuts
  <2>2. CASE k # j
    <3>1. queue[k] = "success"
      BY <2>2 DEF SessionPuts, Put
    <3> QED
      BY <3>1 DEF ReplayInv, OnlyFailedPromptsLeft
  <2> QED
    BY <2>1, <2>2
<1>9. KeptTells'
  <2>1. UNCHANGED <<pc, round, batch, kept>> /\ session[j] = "running"
    BY DEF SessionPuts, trainer
  <2>2. j \notin kept
    BY <2>1 DEF ReplayInv, KeptTells, KeptIsPut
  <2>3. kept \subseteq Key
    BY DEF ReplayInv, BufferTypes
  <2>4. /\ \A k \in kept : queue'[k] = queue[k]
        /\ \A k \in kept : k \in Session => session'[k] = session[k]
    BY <2>2, <2>3 DEF SessionPuts, Put, ReplayInv, BufferTypes
  <2> QED
    BY <2>1, <2>4, KeptStays DEF ReplayInv
<1> QED
  BY <1>9, <1>1, <1>2, <1>3, <1>4, <1>5, <1>6, <1>7, <1>8 DEF ReplayInv

\* A session without output was running, so its prompt had not finished.
LEMMA SessionIsEmptyKeeps ==
    ASSUME ReplayInv, NEW j \in Session, SessionIsEmpty(j)
    PROVE  ReplayInv'
<1>1. (BufferTypes /\ RoundInSchedule)'
  BY PromptAssumption
  DEF ReplayInv, BufferTypes, RoundInSchedule, poller, trainer, SessionIsEmpty
<1>2. (PromptsInOrder /\ SessionsFollow /\ RunningUntilEnded /\ RoundEnded)'
  BY DEF ReplayInv, PromptsInOrder, SessionsFollow, RunningUntilEnded,
         RoundEnded, trainer, SessionIsEmpty
<1>3. /\ EntriesTell(queue)'
      /\ EntriesTell(snapshot)'
      /\ BufferTells'
      /\ PaddingIsLate'
      /\ StoredUntilSampled'
  BY DEF ReplayInv, EntriesTell, BufferTells, PaddingIsLate,
         StoredUntilSampled, poller, trainer, SessionIsEmpty
<1>4. (NothingForgotten /\ OnlyFailedPromptsLeft)'
  BY NothingElseForgotten DEF ReplayInv, trainer, SessionIsEmpty
<1>6. (BatchIsOwn /\ BatchIsPut /\ FinishedPromptComplete)'
  BY DEF ReplayInv, BatchIsOwn, Baselines, BatchIsPut, FinishedPromptComplete,
         BufferTypes, trainer, SessionIsEmpty
<1>5. KeptTells'
  <2>1. \A k \in Session : session[k] = "put" => session'[k] = "put"
    BY DEF SessionIsEmpty, ReplayInv, BufferTypes
  <2> QED
    BY <2>1, KeptStays DEF ReplayInv, trainer, SessionIsEmpty
<1> QED
  BY <1>5, <1>6, <1>1, <1>2, <1>3, <1>4 DEF ReplayInv

\* A session that raises was running, so its prompt had not finished.
LEMMA SessionRaisesKeeps ==
    ASSUME ReplayInv, NEW j \in Session, SessionRaises(j)
    PROVE  ReplayInv'
<1>1. (BufferTypes /\ RoundInSchedule)'
  BY PromptAssumption
  DEF ReplayInv, BufferTypes, RoundInSchedule, poller, trainer, SessionRaises
<1>2. (PromptsInOrder /\ SessionsFollow /\ RunningUntilEnded /\ RoundEnded)'
  BY DEF ReplayInv, PromptsInOrder, SessionsFollow, RunningUntilEnded,
         RoundEnded, trainer, SessionRaises
<1>3. /\ EntriesTell(queue)'
      /\ EntriesTell(snapshot)'
      /\ BufferTells'
      /\ PaddingIsLate'
      /\ StoredUntilSampled'
  BY DEF ReplayInv, EntriesTell, BufferTells, PaddingIsLate,
         StoredUntilSampled, poller, trainer, SessionRaises
<1>4. (NothingForgotten /\ OnlyFailedPromptsLeft)'
  BY NothingElseForgotten DEF ReplayInv, trainer, SessionRaises
<1>6. (BatchIsOwn /\ BatchIsPut /\ FinishedPromptComplete)'
  BY DEF ReplayInv, BatchIsOwn, Baselines, BatchIsPut, FinishedPromptComplete,
         BufferTypes, trainer, SessionRaises
<1>5. KeptTells'
  <2>1. \A k \in Session : session[k] = "put" => session'[k] = "put"
    BY DEF SessionRaises, ReplayInv, BufferTypes
  <2> QED
    BY <2>1, KeptStays DEF ReplayInv, trainer, SessionRaises
<1> QED
  BY <1>5, <1>6, <1>1, <1>2, <1>3, <1>4 DEF ReplayInv

\* A prompt finishes after all its sessions have ended, and before the sample
\* returns.
LEMMA PromptFinishesKeeps ==
    ASSUME ReplayInv, NEW v \in Uid, PromptFinishes(v)
    PROVE  ReplayInv'
<1>1. (BufferTypes /\ RoundInSchedule)'
  BY DEF ReplayInv, BufferTypes, Tag, RoundInSchedule, poller, trainer,
         PromptFinishes, Put
<1>2. (PromptsInOrder /\ SessionsFollow /\ RunningUntilEnded /\ RoundEnded)'
  BY KeyFacts
  DEF ReplayInv, PromptsInOrder, SessionsFollow, RunningUntilEnded,
      RoundEnded, AfterSample, trainer, PromptFinishes, Ended
<1>3. (BufferTells /\ PaddingIsLate /\ StoredUntilSampled)'
  BY KeyFacts
  DEF ReplayInv, BufferTells, PaddingIsLate, StoredUntilSampled, poller,
      trainer, PromptFinishes, Put
<1>4. EntriesTell(queue)'
  <2>1. \A u \in Uid : u # v => prompt'[u] = prompt[u]
    BY DEF PromptFinishes, ReplayInv, BufferTypes
  <2>2. prompt[v] = "running" /\ prompt'[v] = "finished"
    BY DEF PromptFinishes, ReplayInv, BufferTypes
  <2>3. \A k \in Key : k # v => queue'[k] = queue[k]
    BY DEF PromptFinishes, Put
  <2>4. queue'[v] = "finished" /\ snapshot[v] = Absent
    BY <2>2, UidFacts DEF PromptFinishes, Put, ReplayInv, EntriesTell, HasEnded
  <2>5. snapshot' = snapshot /\ session' = session
    BY DEF PromptFinishes, poller
  <2> QED
    BY <2>1, <2>2, <2>3, <2>4, <2>5, KeyFacts
    DEF ReplayInv, EntriesTell, HasEnded
<1>5. EntriesTell(snapshot)'
  <2>1. \A u \in Uid : u # v => prompt'[u] = prompt[u]
    BY DEF PromptFinishes, ReplayInv, BufferTypes
  <2>2. prompt[v] = "running" /\ prompt'[v] = "finished"
    BY DEF PromptFinishes, ReplayInv, BufferTypes
  <2>3. \A k \in Key : k # v => queue'[k] = queue[k]
    BY DEF PromptFinishes, Put
  <2>4. queue'[v] = "finished" /\ snapshot[v] = Absent
    BY <2>2, UidFacts DEF PromptFinishes, Put, ReplayInv, EntriesTell, HasEnded
  <2>5. snapshot' = snapshot /\ session' = session
    BY DEF PromptFinishes, poller
  <2> QED
    BY <2>1, <2>2, <2>3, <2>4, <2>5, KeyFacts
    DEF ReplayInv, EntriesTell, HasEnded
<1>6. (NothingForgotten /\ OnlyFailedPromptsLeft)'
  <2>1. \A k \in Key : queue'[k] = "success" => queue[k] = "success"
    BY DEF PromptFinishes, Put
  <2>2. \A u \in Uid : prompt[u] = "failure" => prompt'[u] = "failure"
    BY DEF PromptFinishes, ReplayInv, BufferTypes
  <2> QED
    BY <2>1, <2>2, NothingElseForgotten DEF ReplayInv, trainer, PromptFinishes
<1>60. (BatchIsPut)'
  BY DEF ReplayInv, BatchIsPut, trainer, PromptFinishes
<1>7. BatchIsOwn'
  <2>1. pc' \notin AfterSample
    BY DEF PromptFinishes, ReplayInv, PromptsInOrder, AfterSample, trainer
  <2> QED
    BY <2>1 DEF BatchIsOwn
<1>8. FinishedPromptComplete'
  <2>1. pc' # "use"
    BY DEF PromptFinishes, ReplayInv, PromptsInOrder, trainer
  <2> QED
    BY <2>1 DEF FinishedPromptComplete
<1>9. KeptTells'
  <2>1. UNCHANGED <<pc, round, batch, kept, session>>
    BY DEF PromptFinishes, trainer
  <2>2. queue[v] # "success"
    BY DEF ReplayInv, EntriesTell, HasEnded, Absent
  <2>3. /\ \A k \in Key : k # v => queue'[k] = queue[k]
        /\ queue'[v] # "success" /\ kept \subseteq Key
    BY KeyFacts DEF PromptFinishes, Put, ReplayInv, BufferTypes
  <2> QED
    BY <2>1, <2>2, <2>3, KeptStays DEF ReplayInv
<1> QED
  BY <1>9, <1>60, <1>1, <1>2, <1>3, <1>4, <1>5, <1>6, <1>7, <1>8 DEF ReplayInv

\* A prompt fails before the sample returns; its other sessions run on.
LEMMA PromptFailsKeeps ==
    ASSUME ReplayInv, NEW v \in Uid, PromptFails(v)
    PROVE  ReplayInv'
<1>1. (BufferTypes /\ RoundInSchedule)'
  BY DEF ReplayInv, BufferTypes, Tag, RoundInSchedule, poller, trainer,
         PromptFails, Put
<1>2. (PromptsInOrder /\ SessionsFollow /\ RunningUntilEnded /\ RoundEnded)'
  BY DEF ReplayInv, PromptsInOrder, SessionsFollow, RunningUntilEnded,
         RoundEnded, AfterSample, trainer, PromptFails
<1>3. (BufferTells /\ PaddingIsLate /\ StoredUntilSampled)'
  BY KeyFacts
  DEF ReplayInv, BufferTells, PaddingIsLate, StoredUntilSampled, poller,
      trainer, PromptFails, Put
<1>4. EntriesTell(queue)'
  <2>1. \A u \in Uid : u # v => prompt'[u] = prompt[u]
    BY DEF PromptFails, ReplayInv, BufferTypes
  <2>2. prompt[v] = "running" /\ prompt'[v] = "failure"
    BY DEF PromptFails, ReplayInv, BufferTypes
  <2>3. \A k \in Key : k # v => queue'[k] = queue[k]
    BY DEF PromptFails, Put
  <2>4. queue'[v] = "failure" /\ snapshot[v] = Absent
    BY <2>2, UidFacts DEF PromptFails, Put, ReplayInv, EntriesTell, HasEnded
  <2>5. snapshot' = snapshot /\ session' = session
    BY DEF PromptFails, poller
  <2> QED
    BY <2>1, <2>2, <2>3, <2>4, <2>5, KeyFacts
    DEF ReplayInv, EntriesTell, HasEnded
<1>5. EntriesTell(snapshot)'
  <2>1. \A u \in Uid : u # v => prompt'[u] = prompt[u]
    BY DEF PromptFails, ReplayInv, BufferTypes
  <2>2. prompt[v] = "running" /\ prompt'[v] = "failure"
    BY DEF PromptFails, ReplayInv, BufferTypes
  <2>3. \A k \in Key : k # v => queue'[k] = queue[k]
    BY DEF PromptFails, Put
  <2>4. queue'[v] = "failure" /\ snapshot[v] = Absent
    BY <2>2, UidFacts DEF PromptFails, Put, ReplayInv, EntriesTell, HasEnded
  <2>5. snapshot' = snapshot /\ session' = session
    BY DEF PromptFails, poller
  <2> QED
    BY <2>1, <2>2, <2>3, <2>4, <2>5, KeyFacts
    DEF ReplayInv, EntriesTell, HasEnded
<1>6. (NothingForgotten /\ OnlyFailedPromptsLeft)'
  <2>1. \A k \in Key : queue'[k] = "success" => queue[k] = "success"
    BY DEF PromptFails, Put
  <2>2. \A u \in Uid : prompt[u] = "failure" => prompt'[u] = "failure"
    BY DEF PromptFails, ReplayInv, BufferTypes
  <2> QED
    BY <2>1, <2>2, NothingElseForgotten DEF ReplayInv, trainer, PromptFails
<1>60. (BatchIsPut /\ FinishedPromptComplete)'
  BY DEF ReplayInv, BatchIsPut, FinishedPromptComplete,
         BufferTypes, trainer, PromptFails
<1>7. BatchIsOwn'
  <2>1. pc' \notin AfterSample
    BY DEF PromptFails, ReplayInv, PromptsInOrder, AfterSample, trainer
  <2> QED
    BY <2>1 DEF BatchIsOwn
<1>8. KeptTells'
  <2>1. UNCHANGED <<pc, round, batch, kept, session>>
    BY DEF PromptFails, trainer
  <2>2. queue[v] # "success"
    BY DEF ReplayInv, EntriesTell, HasEnded, Absent
  <2>3. /\ \A k \in Key : k # v => queue'[k] = queue[k]
        /\ queue'[v] # "success" /\ kept \subseteq Key
    BY KeyFacts DEF PromptFails, Put, ReplayInv, BufferTypes
  <2> QED
    BY <2>1, <2>2, <2>3, KeptStays DEF ReplayInv
<1> QED
  BY <1>8, <1>60, <1>1, <1>2, <1>3, <1>4, <1>5, <1>6, <1>7 DEF ReplayInv

\* As does a prompt whose put of "finished" raises.
LEMMA FinishedPutRaisesKeeps ==
    ASSUME ReplayInv, NEW v \in Uid, FinishedPutRaises(v)
    PROVE  ReplayInv'
<1>1. (BufferTypes /\ RoundInSchedule)'
  BY PromptAssumption
  DEF ReplayInv, BufferTypes, Tag, RoundInSchedule, poller, trainer,
      FinishedPutRaises, Put
<1>2. (PromptsInOrder /\ SessionsFollow /\ RunningUntilEnded /\ RoundEnded)'
  BY DEF ReplayInv, PromptsInOrder, SessionsFollow, RunningUntilEnded,
         RoundEnded, AfterSample, trainer, FinishedPutRaises
<1>3. (BufferTells /\ PaddingIsLate /\ StoredUntilSampled)'
  BY KeyFacts
  DEF ReplayInv, BufferTells, PaddingIsLate, StoredUntilSampled, poller,
      trainer, FinishedPutRaises, Put
<1>4. EntriesTell(queue)'
  <2>1. \A u \in Uid : u # v => prompt'[u] = prompt[u]
    BY DEF FinishedPutRaises, ReplayInv, BufferTypes
  <2>2. prompt[v] = "running" /\ prompt'[v] = "failure"
    BY DEF FinishedPutRaises, ReplayInv, BufferTypes
  <2>3. \A k \in Key : k # v => queue'[k] = queue[k]
    BY DEF FinishedPutRaises, Put
  <2>4. queue'[v] = "failure" /\ snapshot[v] = Absent
    BY <2>2, UidFacts
    DEF FinishedPutRaises, Put, ReplayInv, EntriesTell, HasEnded
  <2>5. snapshot' = snapshot /\ session' = session
    BY DEF FinishedPutRaises, poller
  <2> QED
    BY <2>1, <2>2, <2>3, <2>4, <2>5, KeyFacts
    DEF ReplayInv, EntriesTell, HasEnded
<1>5. EntriesTell(snapshot)'
  <2>1. \A u \in Uid : u # v => prompt'[u] = prompt[u]
    BY DEF FinishedPutRaises, ReplayInv, BufferTypes
  <2>2. prompt[v] = "running" /\ prompt'[v] = "failure"
    BY DEF FinishedPutRaises, ReplayInv, BufferTypes
  <2>3. \A k \in Key : k # v => queue'[k] = queue[k]
    BY DEF FinishedPutRaises, Put
  <2>4. queue'[v] = "failure" /\ snapshot[v] = Absent
    BY <2>2, UidFacts
    DEF FinishedPutRaises, Put, ReplayInv, EntriesTell, HasEnded
  <2>5. snapshot' = snapshot /\ session' = session
    BY DEF FinishedPutRaises, poller
  <2> QED
    BY <2>1, <2>2, <2>3, <2>4, <2>5, KeyFacts
    DEF ReplayInv, EntriesTell, HasEnded
<1>6. (NothingForgotten /\ OnlyFailedPromptsLeft)'
  <2>1. \A k \in Key : queue'[k] = "success" => queue[k] = "success"
    BY DEF FinishedPutRaises, Put
  <2>2. \A u \in Uid : prompt[u] = "failure" => prompt'[u] = "failure"
    BY DEF FinishedPutRaises, ReplayInv, BufferTypes
  <2> QED
    BY <2>1, <2>2, NothingElseForgotten DEF ReplayInv, trainer, FinishedPutRaises
<1>60. (BatchIsPut /\ FinishedPromptComplete)'
  BY DEF ReplayInv, BatchIsPut, FinishedPromptComplete,
         BufferTypes, trainer, FinishedPutRaises
<1>7. BatchIsOwn'
  <2>1. pc' \notin AfterSample
    BY DEF FinishedPutRaises, ReplayInv, PromptsInOrder, AfterSample, trainer
  <2> QED
    BY <2>1 DEF BatchIsOwn
<1>8. KeptTells'
  <2>1. UNCHANGED <<pc, round, batch, kept, session>>
    BY DEF FinishedPutRaises, trainer
  <2>2. queue[v] # "success"
    BY DEF ReplayInv, EntriesTell, HasEnded, Absent
  <2>3. /\ \A k \in Key : k # v => queue'[k] = queue[k]
        /\ queue'[v] # "success" /\ kept \subseteq Key
    BY KeyFacts DEF FinishedPutRaises, Put, ReplayInv, BufferTypes
  <2> QED
    BY <2>1, <2>2, <2>3, KeptStays DEF ReplayInv
<1> QED
  BY <1>8, <1>60, <1>1, <1>2, <1>3, <1>4, <1>5, <1>6, <1>7 DEF ReplayInv

\* A prompt whose failure cannot be put changes no entry.
LEMMA FailurePutRaisesKeeps ==
    ASSUME ReplayInv, NEW v \in Uid, FailurePutRaises(v)
    PROVE  ReplayInv'
<1>0. /\ prompt[v] = "running" /\ prompt'[v] = "lost"
      /\ \A u \in Uid : u # v => prompt'[u] = prompt[u]
      /\ UNCHANGED <<queue, buffer, snapshot, adding, session, pc, round, batch, kept>>
  BY DEF FailurePutRaises, ReplayInv, BufferTypes, poller, trainer
<1>1. (BufferTypes /\ RoundInSchedule)'
  BY PromptAssumption
  DEF ReplayInv, BufferTypes, RoundInSchedule, poller, trainer, FailurePutRaises
<1>2. (PromptsInOrder /\ SessionsFollow /\ RunningUntilEnded /\ RoundEnded)'
  BY <1>0, KeyFacts, UidFacts
  DEF ReplayInv, PromptsInOrder, SessionsFollow, RunningUntilEnded,
      RoundEnded, AfterSample, HasEnded
<1>3. (BufferTells /\ PaddingIsLate /\ StoredUntilSampled)'
  BY <1>0 DEF ReplayInv, BufferTells, PaddingIsLate, StoredUntilSampled
<1>4. (EntriesTell(queue) /\ EntriesTell(snapshot))'
  BY <1>0 DEF ReplayInv, EntriesTell, HasEnded
<1>5. (NothingForgotten /\ OnlyFailedPromptsLeft)'
  <2>1. \A u \in Uid : prompt[u] = "failure" => prompt'[u] = "failure"
    BY <1>0
  <2> QED
    BY <1>0, <2>1, KeyFacts
    DEF ReplayInv, NothingForgotten, Cleaning, OfFailedPrompt, Baselines,
        OnlyFailedPromptsLeft
<1>6. (BatchIsOwn /\ BatchIsPut /\ KeptTells)'
  BY <1>0
  DEF ReplayInv, BatchIsOwn, Baselines, BatchIsPut, KeptTells, BatchOfStep,
      KeptOfStep, KeptIsPut, KeptStored
<1>7. FinishedPromptComplete'
  BY <1>0, UidFacts DEF ReplayInv, FinishedPromptComplete
<1> QED
  BY <1>1, <1>2, <1>3, <1>4, <1>5, <1>6, <1>7 DEF ReplayInv

\* No prompt of the round has run before it is marked.
LEMMA MarkPendingKeeps ==
    ASSUME ReplayInv, MarkPending
    PROVE  ReplayInv'
<1>1. (BufferTypes /\ RoundInSchedule)'
  BY DEF ReplayInv, BufferTypes, Tag, TrainerStates, Stopped, RoundInSchedule,
         poller, workers, MarkPending, Goto
<1>2. (PromptsInOrder /\ SessionsFollow /\ RunningUntilEnded /\ RoundEnded)'
  BY UidFacts, KeyFacts
  DEF ReplayInv, PromptsInOrder, SessionsFollow, RunningUntilEnded,
      RoundEnded, AfterSample, workers, MarkPending, Goto
<1>3. /\ EntriesTell(queue)'
      /\ EntriesTell(snapshot)'
      /\ BufferTells'
      /\ PaddingIsLate'
      /\ StoredUntilSampled'
  BY UidFacts, KeyFacts
  DEF ReplayInv, EntriesTell, BufferTells, PaddingIsLate, BeforePadding,
      StoredUntilSampled, poller, workers, MarkPending, Goto
<1>4. /\ NothingForgotten'
      /\ BatchIsOwn'
      /\ BatchIsPut'
      /\ FinishedPromptComplete'
      /\ OnlyFailedPromptsLeft'
  BY DEF ReplayInv, NothingForgotten, Cleaning, AfterSample, OfFailedPrompt, BatchIsOwn,
         BatchIsPut, FinishedPromptComplete, OnlyFailedPromptsLeft, workers,
         MarkPending, Goto
<1>5. KeptTells'
  BY KeptStays DEF ReplayInv, Stopped, workers, MarkPending, Goto
<1> QED
  BY <1>5, <1>1, <1>2, <1>3, <1>4 DEF ReplayInv

\* When the prompts of a round start, the queue and the poll thread know
\* nothing
\* of them yet.
LEMMA StartPromptsKeeps ==
    ASSUME ReplayInv, StartPrompts
    PROVE  ReplayInv'
<1>1. (BufferTypes /\ RoundInSchedule)'
  BY DEF ReplayInv, BufferTypes, TrainerStates, Stopped, RoundInSchedule,
         poller, StartPrompts, Goto
<1>2. (PromptsInOrder /\ SessionsFollow /\ RunningUntilEnded /\ RoundEnded)'
  BY UidFacts, KeyFacts
  DEF ReplayInv, PromptsInOrder, SessionsFollow, RunningUntilEnded,
      RoundEnded, AfterSample, BufferTypes, StartPrompts, Goto
<1>3. PaddingIsLate'
  BY DEF ReplayInv, PaddingIsLate, BeforePadding, poller, StartPrompts, Goto
<1>4. EntriesTell(queue)'
  <2>1. \A u \in UidsOf(round) : queue[u] = Absent
    BY IdleRound DEF StartPrompts, Goto
  <2>2. \A k \in Session : session[k] = "put" => session'[k] = "put"
    BY IdleRound DEF StartPrompts, Goto
  <2>3. \A u \in Uid : u \notin UidsOf(round) => prompt'[u] = prompt[u]
    BY DEF StartPrompts
  <2> QED
    BY <2>1, <2>2, <2>3 DEF ReplayInv, EntriesTell, StartPrompts, poller
<1>5. EntriesTell(snapshot)'
  <2>1. \A u \in UidsOf(round) : snapshot[u] = Absent
    BY IdleRound DEF StartPrompts, Goto
  <2>2. \A k \in Session : session[k] = "put" => session'[k] = "put"
    BY IdleRound DEF StartPrompts, Goto
  <2>3. \A u \in Uid : u \notin UidsOf(round) => prompt'[u] = prompt[u]
    BY DEF StartPrompts
  <2> QED
    BY <2>1, <2>2, <2>3 DEF ReplayInv, EntriesTell, StartPrompts, poller
<1>6. BufferTells'
  <2>1. \A k \in Session : session[k] = "put" => session'[k] = "put"
    BY IdleRound DEF StartPrompts, Goto
  <2> QED
    BY <2>1 DEF ReplayInv, BufferTells, StartPrompts
<1>7. StoredUntilSampled'
  <2>1. \A k \in Session : k.round = round => session'[k] # "put"
    BY IdleRound DEF StartPrompts, Goto
  <2> QED
    BY <2>1 DEF StoredUntilSampled, StartPrompts
<1>8. /\ NothingForgotten'
      /\ BatchIsOwn'
      /\ FinishedPromptComplete'
      /\ OnlyFailedPromptsLeft'
  BY UidFacts, KeyFacts
  DEF ReplayInv, NothingForgotten, Cleaning, AfterSample, OfFailedPrompt, BatchIsOwn,
      FinishedPromptComplete, OnlyFailedPromptsLeft, BufferTypes,
      StartPrompts, Goto
<1>9. BatchIsPut'
  <2>1. \A k \in Session : session[k] = "put" => session'[k] = "put"
    BY IdleRound DEF StartPrompts, Goto
  <2> QED
    BY <2>1 DEF ReplayInv, BatchIsPut, StartPrompts
<1>10. KeptTells'
  <2>1. \A k \in Session : session[k] = "put" => session'[k] = "put"
    BY IdleRound DEF StartPrompts, Goto
  <2> QED
    BY <2>1, KeptStays DEF ReplayInv, StartPrompts, Goto, Stopped
<1> QED
  BY <1>10, <1>1, <1>2, <1>3, <1>4, <1>5, <1>6, <1>7, <1>8, <1>9 DEF ReplayInv

\* The sample finds the prompts ended and takes everything the finished ones
\* put.
LEMMA SampleKeeps ==
    ASSUME ReplayInv, Sample
    PROVE  ReplayInv'
<1>1. RoundInSchedule'
  BY DEF ReplayInv, RoundInSchedule, Stopped, Sample, Goto
<1>2. BufferTypes'
  <2>1. batch' \in SUBSET Key
    BY DEF Sample, Matching
  <2> QED
    BY <2>1
    DEF ReplayInv, BufferTypes, Sample, Goto, poller, workers, TrainerStates
<1>3. (SessionsFollow /\ RunningUntilEnded)'
  BY DEF ReplayInv, SessionsFollow, RunningUntilEnded, workers, Sample, Goto
<1>4. PromptsInOrder'
  <2>1. \A u \in UidsOf(round) : prompt[u] \notin {"running", "lost"}
    BY AllEnded DEF HasEnded
  <2>2. \A u \in Uid : prompt[u] \notin {"running", "lost"}
    BY <2>1, UidFacts DEF ReplayInv, PromptsInOrder
  <2> QED
    BY <2>2 DEF ReplayInv, PromptsInOrder, Sample, Goto, workers
<1>5. RoundEnded'
  BY AllEnded DEF RoundEnded, Sample, workers
<1>6. /\ EntriesTell(queue)'
      /\ EntriesTell(snapshot)'
      /\ BufferTells'
      /\ PaddingIsLate'
      /\ StoredUntilSampled'
  BY DEF ReplayInv, EntriesTell, BufferTells, PaddingIsLate, BeforePadding,
         StoredUntilSampled, poller, workers, Sample, Goto
<1>7. OnlyFailedPromptsLeft'
  BY DEF ReplayInv, OnlyFailedPromptsLeft, OfFailedPrompt, workers, Sample
<1>8. NothingForgotten'
  <2>0. /\ pc' = "use" /\ UNCHANGED <<queue, prompt, session, round>>
        /\ pc' \in AfterSample /\ pc' \notin Cleaning /\ pc' # "forget"
    BY DEF Sample, Goto, AfterSample, Cleaning, workers
  <2> SUFFICES ASSUME NEW k \in Key, k.round = round, queue[k] = "success"
               PROVE  OfFailedPrompt(k) \/ k \in batch'
    BY <2>0 DEF NothingForgotten, OfFailedPrompt
  <2>1. k \in Session
    BY AllEnded, KeyFacts
    DEF Sample, Goto, ReplayInv, EntriesTell, PaddingIsLate, BeforePadding,
        HasEnded, Absent
  <2>2. session[k] = "put" /\ UidOf(k) \in UidsOf(round)
    BY <2>1, KeyFacts
    DEF ReplayInv, EntriesTell, SessionsFollow, PromptsInOrder, Absent
  <2>3. prompt[UidOf(k)] = "finished" => k \in batch'
    BY <2>1, <2>2, FinishedSampled, KeyFacts
  <2> QED
    BY <2>1, <2>2, <2>3, AllEnded DEF OfFailedPrompt, HasEnded
<1>9. BatchIsOwn'
  <2> SUFFICES ASSUME RoundsDiffer, NEW k \in batch'
               PROVE  k.round = round /\ queue[k] = "success"
    BY DEF BatchIsOwn, Sample, Goto
  <2>1. k \in Matching /\ buffer[k] = "success" /\ k \in Key
    BY DEF Sample, Matching
  <2>2. k.round = round
    BY <2>1, MatchingIsOwn DEF Sample, Goto, Stopped
  <2>3. k \in Session
    BY <2>1, <2>2, KeyFacts
    DEF Sample, Goto, ReplayInv, BufferTells, PaddingIsLate, BeforePadding,
        Absent
  <2>4. queue[k] = "success"
    BY <2>1, <2>2, <2>3
    DEF Sample, Goto, ReplayInv, BufferTells, StoredUntilSampled, Absent
  <2> QED
    BY <2>2, <2>4
<1>10. BatchIsPut'
  BY KeyFacts
  DEF ReplayInv, BufferTells, BatchIsPut, Sample, Matching, workers, Absent
<1>11. FinishedPromptComplete'
  BY FinishedSampled DEF FinishedPromptComplete, Sample, workers
<1>12. KeptTells'
  <2>1. BatchOfStep'
    BY DEF BatchOfStep, Sample, Matching, Goto
  <2> QED
    BY <2>1
    DEF ReplayInv, KeptTells, KeptOfStep, KeptIsPut, KeptStored, workers,
        Sample, Goto, Stopped
<1> QED
  BY <1>12, <1>1, <1>2, <1>3, <1>4, <1>5, <1>6, <1>7, <1>8, <1>9, <1>10, <1>11
  DEF ReplayInv

\* Reading the batch changes nothing.
LEMMA ReadBatchKeeps ==
    ASSUME ReplayInv, ReadBatch
    PROVE  ReplayInv'
<1>1. (BufferTypes /\ RoundInSchedule)'
  BY DEF ReplayInv, BufferTypes, TrainerStates, Stopped, RoundInSchedule,
         poller, workers, ReadBatch, Goto
<1>2. (PromptsInOrder /\ SessionsFollow /\ RunningUntilEnded /\ RoundEnded)'
  BY DEF ReplayInv, PromptsInOrder, SessionsFollow, RunningUntilEnded,
         RoundEnded, AfterSample, workers, ReadBatch, Goto
<1>3. /\ EntriesTell(queue)'
      /\ EntriesTell(snapshot)'
      /\ BufferTells'
      /\ PaddingIsLate'
      /\ StoredUntilSampled'
  BY DEF ReplayInv, EntriesTell, BufferTells, PaddingIsLate, BeforePadding,
         StoredUntilSampled, poller, workers, ReadBatch, Goto
<1>4. /\ NothingForgotten'
      /\ BatchIsOwn'
      /\ BatchIsPut'
      /\ FinishedPromptComplete'
      /\ OnlyFailedPromptsLeft'
  BY DEF ReplayInv, NothingForgotten, Cleaning, AfterSample, OfFailedPrompt, BatchIsOwn,
         BatchIsPut, FinishedPromptComplete, OnlyFailedPromptsLeft, workers,
         ReadBatch, Goto
<1>5. KeptTells'
  BY KeptStays DEF ReplayInv, Stopped, workers, ReadBatch, Goto
<1> QED
  BY <1>5, <1>1, <1>2, <1>3, <1>4 DEF ReplayInv

\* Nor does the beginning of the training step.
LEMMA TrainBeginsKeeps ==
    ASSUME ReplayInv, TrainBegins
    PROVE  ReplayInv'
<1>1. (BufferTypes /\ RoundInSchedule)'
  BY DEF ReplayInv, BufferTypes, TrainerStates, Stopped, RoundInSchedule,
         poller, workers, TrainBegins, Goto, NextInTraining
<1>2. (PromptsInOrder /\ SessionsFollow /\ RunningUntilEnded /\ RoundEnded)'
  BY DEF ReplayInv, PromptsInOrder, SessionsFollow, RunningUntilEnded,
         RoundEnded, AfterSample, workers, TrainBegins, Goto, NextInTraining
<1>3. /\ EntriesTell(queue)'
      /\ EntriesTell(snapshot)'
      /\ BufferTells'
      /\ PaddingIsLate'
      /\ StoredUntilSampled'
  BY DEF ReplayInv, EntriesTell, BufferTells, PaddingIsLate, BeforePadding,
         StoredUntilSampled, poller, workers, TrainBegins, Goto,
         NextInTraining
<1>4. /\ NothingForgotten'
      /\ BatchIsOwn'
      /\ BatchIsPut'
      /\ FinishedPromptComplete'
      /\ OnlyFailedPromptsLeft'
  BY DEF ReplayInv, NothingForgotten, Cleaning, AfterSample, OfFailedPrompt, BatchIsOwn,
         BatchIsPut, FinishedPromptComplete, OnlyFailedPromptsLeft, workers,
         TrainBegins, Goto, NextInTraining
<1>5. KeptTells'
  BY KeptStays DEF ReplayInv, Stopped, workers, TrainBegins, Goto, NextInTraining
<1> QED
  BY <1>5, <1>1, <1>2, <1>3, <1>4 DEF ReplayInv

\* The baselines leave the queue ...
LEMMA ClearBaselinesKeeps ==
    ASSUME ReplayInv, ClearBaselines
    PROVE  ReplayInv'
<1>1. (BufferTypes /\ RoundInSchedule)'
  BY DEF ReplayInv, BufferTypes, Tag, TrainerStates, Stopped, RoundInSchedule,
         poller, workers, ClearBaselines, Goto, Cleared
<1>2. (PromptsInOrder /\ SessionsFollow /\ RunningUntilEnded /\ RoundEnded)'
  BY DEF ReplayInv, PromptsInOrder, SessionsFollow, RunningUntilEnded,
         RoundEnded, AfterSample, workers, ClearBaselines, Goto
<1>3. /\ EntriesTell(queue)'
      /\ EntriesTell(snapshot)'
      /\ BufferTells'
      /\ PaddingIsLate'
      /\ StoredUntilSampled'
  BY KeyFacts
  DEF ReplayInv, EntriesTell, BufferTells, PaddingIsLate, BeforePadding,
      StoredUntilSampled, poller, workers, ClearBaselines, Goto, Cleared
<1>4. (BatchIsPut /\ FinishedPromptComplete)'
  BY DEF ReplayInv, BatchIsPut, FinishedPromptComplete, workers,
         ClearBaselines, Goto
<1>5. NothingForgotten'
  <2>1. \A k \in Key : queue'[k] = IF k \in Baselines THEN Absent ELSE queue[k]
    BY DEF ClearBaselines, Cleared
  <2>2. /\ pc = "baselines" /\ pc' = "forget" /\ round' = round /\ batch' = batch
        /\ prompt' = prompt
    BY DEF ClearBaselines, Goto, workers
  <2> QED
    BY <2>1, <2>2
    DEF ReplayInv, NothingForgotten, Cleaning, AfterSample, OfFailedPrompt, Baselines,
        Absent
<1>6. BatchIsOwn'
  <2>1. \A k \in Key : k \in Baselines \/ queue'[k] = queue[k]
    BY DEF ClearBaselines, Cleared, ReplayInv, BufferTypes
  <2>2. /\ pc = "baselines" /\ pc' = "forget" /\ round' = round /\ batch' = batch
    BY DEF ClearBaselines, Goto
  <2>3. batch \subseteq Key
    BY DEF ReplayInv, BufferTypes
  <2>4. Baselines' = Baselines
    BY <2>2 DEF Baselines
  <2> QED
    BY <2>1, <2>2, <2>3, <2>4 DEF ReplayInv, BatchIsOwn, AfterSample
<1>7. OnlyFailedPromptsLeft'
  <2>1. \A k \in Key : queue'[k] = "success" => queue[k] = "success"
    BY DEF ClearBaselines, Cleared, Absent
  <2> QED
    BY <2>1 DEF ReplayInv, OnlyFailedPromptsLeft, ClearBaselines, workers
<1>8. KeptTells'
  <2>1. /\ UNCHANGED <<round, batch, kept, session>>
        /\ pc = "baselines" /\ pc' = "forget"
    BY DEF ClearBaselines, Goto, workers
  <2>2. \A k \in kept : queue'[k] = queue[k]
    BY <2>1, CleanupIsApart
    DEF ClearBaselines, Cleared, Baselines, Stopped, ReplayInv, BufferTypes
  <2> QED
    BY <2>1, <2>2, KeptStays DEF ReplayInv, Stopped
<1> QED
  BY <1>8, <1>1, <1>2, <1>3, <1>4, <1>5, <1>6, <1>7 DEF ReplayInv

\* ... and then the batch.
LEMMA ForgetBaselinesKeeps ==
    ASSUME ReplayInv, ForgetBaselines
    PROVE  ReplayInv'
<1>1. RoundInSchedule'
  BY DEF ReplayInv, RoundInSchedule, Stopped, ForgetBaselines, Goto
<1>2. BufferTypes'
  <2>1. buffer' \in [Key -> Tag]
    BY DEF ForgetBaselines, Removed, ReplayInv, BufferTypes, Tag
  <2>2. batch' \in SUBSET Key
    BY DEF ForgetBaselines, Sampled, ReplayInv, BufferTypes
  <2> QED
    BY <2>1, <2>2
    DEF ReplayInv, BufferTypes, ForgetBaselines, Goto, poller, workers,
        TrainerStates
<1>3. (PromptsInOrder /\ SessionsFollow /\ RunningUntilEnded /\ RoundEnded)'
  BY DEF ReplayInv, PromptsInOrder, SessionsFollow, RunningUntilEnded,
         RoundEnded, AfterSample, workers, ForgetBaselines, Goto
<1>4. /\ EntriesTell(queue)'
      /\ EntriesTell(snapshot)'
      /\ PaddingIsLate'
      /\ StoredUntilSampled'
  BY KeyFacts
  DEF ReplayInv, EntriesTell, PaddingIsLate, BeforePadding,
      StoredUntilSampled, poller, workers, ForgetBaselines, Goto, Removed
<1>5. BufferTells'
  <2>1. \A k \in Key : buffer'[k] \in {buffer[k], Absent}
    BY DEF ForgetBaselines, Removed
  <2> QED
    BY <2>1, KeyFacts
    DEF ReplayInv, BufferTells, ForgetBaselines, workers, Absent
<1>6. (BatchIsOwn /\ FinishedPromptComplete /\ OnlyFailedPromptsLeft)'
  BY DEF ReplayInv, BatchIsOwn, AfterSample, Baselines, Sampled,
         FinishedPromptComplete, OnlyFailedPromptsLeft, OfFailedPrompt,
         workers, ForgetBaselines, Goto
<1>7. NothingForgotten'
  <2>1. \A k \in Key : k.round = round /\ queue[k] = "success" =>
            OfFailedPrompt(k) \/ (k \in batch /\ k \notin Baselines)
    BY DEF ReplayInv, NothingForgotten, ForgetBaselines, Goto, AfterSample
  <2>2. \A k \in Key : k.round = round /\ queue[k] = "success" =>
            k.kind \in {"sampled", "baseline"}
    BY KeyFacts, UidFacts
    DEF ReplayInv, PaddingIsLate, BeforePadding, ForgetBaselines, Goto, Absent
  <2>3. \A k \in Key : k.round = round /\ queue[k] = "success" =>
            OfFailedPrompt(k) \/ k \in batch'
    BY <2>1, <2>2 DEF ForgetBaselines, Baselines, Sampled
  <2>4. /\ pc' = "pad" /\ UNCHANGED <<queue, prompt, round>>
        /\ pc' \notin Cleaning /\ pc' # "forget"
    BY DEF ForgetBaselines, Goto, Cleaning, workers
  <2> QED
    BY <2>3, <2>4 DEF NothingForgotten, OfFailedPrompt
<1>8. BatchIsPut'
  BY DEF ReplayInv, BatchIsPut, ForgetBaselines, Sampled, workers
<1>9. KeptTells'
  BY DEF ReplayInv, KeptTells, BatchOfStep, KeptOfStep, KeptIsPut, KeptStored,
         Stopped, workers, ForgetBaselines, Sampled, Goto
<1> QED
  BY <1>9, <1>1, <1>2, <1>3, <1>4, <1>5, <1>6, <1>7, <1>8 DEF ReplayInv

\* Padding is put under keys of the round that nothing was stored under.
LEMMA PadKeeps ==
    ASSUME ReplayInv, Pad
    PROVE  ReplayInv'
<1>1. RoundInSchedule'
  BY DEF ReplayInv, RoundInSchedule, Stopped, Pad, Goto
<1>2. BufferTypes'
  <2>1. Pads \subseteq Key
    BY PadsArePadding, KeyFacts DEF Pad, Goto
  <2>2. queue' \in [Key -> Tag]
    BY DEF Pad, Put, ReplayInv, BufferTypes, Tag
  <2> QED
    BY <2>1, <2>2
    DEF ReplayInv, BufferTypes, Pad, Goto, poller, workers, TrainerStates
<1>3. (PromptsInOrder /\ SessionsFollow /\ RunningUntilEnded /\ RoundEnded)'
  BY DEF ReplayInv, PromptsInOrder, SessionsFollow, RunningUntilEnded,
         RoundEnded, AfterSample, workers, Pad, Goto
<1>4. (EntriesTell(snapshot) /\ BufferTells /\ StoredUntilSampled)'
  BY DEF ReplayInv, EntriesTell, BufferTells, StoredUntilSampled, poller,
         workers, Pad, Goto
<1>5. EntriesTell(queue)'
  <2>1. \A k \in Uid \union Session : queue'[k] = queue[k]
    BY PadsArePadding, KeyFacts DEF Pad, Goto, Put
  <2> QED
    BY <2>1 DEF ReplayInv, EntriesTell, Pad, workers
<1>6. PaddingIsLate'
  <2>1. \A k \in PaddingKey : k.round > round => queue'[k] = queue[k]
    BY PadsArePadding, KeyFacts DEF Pad, Goto, Put, ReplayInv, BufferTypes
  <2> QED
    BY <2>1 DEF ReplayInv, PaddingIsLate, Pad, Goto, poller, BeforePadding
<1>7. (NothingForgotten /\ BatchIsOwn /\ FinishedPromptComplete)'
  BY UidFacts, KeyFacts
  DEF ReplayInv, NothingForgotten, Cleaning, AfterSample, OfFailedPrompt, BatchIsOwn,
      FinishedPromptComplete, BufferTypes, workers, Pad, Goto, Put, Pads
<1>8. BatchIsPut'
  BY PadsArePadding, KeyFacts DEF ReplayInv, BatchIsPut, Pad, Goto, workers
<1>9. OnlyFailedPromptsLeft'
  <2>1. \A k \in Key : k.round < round => queue'[k] = queue[k]
    BY PadsArePadding DEF Pad, Goto, Put, ReplayInv, BufferTypes
  <2> QED
    BY <2>1 DEF ReplayInv, OnlyFailedPromptsLeft, Pad, workers
<1>10. KeptTells'
  <2>1. /\ UNCHANGED <<round, kept, session>> /\ batch' = batch \union Pads
        /\ pc = "pad" /\ pc' = "clear"
    BY DEF Pad, Goto, workers
  <2>2. \A k \in kept : queue[k] = "success" => queue'[k] = "success"
    BY DEF Pad, Put, ReplayInv, BufferTypes
  <2>3. \A k \in Pads : k.round = round
    BY PadsArePadding DEF Pad, Goto
  <2> QED
    BY <2>1, <2>2, <2>3
    DEF ReplayInv, KeptTells, BatchOfStep, KeptOfStep, KeptIsPut, KeptStored,
        PartOf, StepOf, Stopped
<1> QED
  BY <1>10, <1>1, <1>2, <1>3, <1>4, <1>5, <1>6, <1>7, <1>8, <1>9 DEF ReplayInv

\* A step that raises leaves everything as it was.
LEMMA StepRaisesKeeps ==
    ASSUME ReplayInv, StepRaises
    PROVE  ReplayInv'
<1>1. (BufferTypes /\ RoundInSchedule)'
  BY DEF ReplayInv, BufferTypes, TrainerStates, Stopped, RoundInSchedule,
         poller, workers, StepRaises
<1>2. (PromptsInOrder /\ SessionsFollow /\ RunningUntilEnded /\ RoundEnded)'
  BY DEF ReplayInv, PromptsInOrder, SessionsFollow, RunningUntilEnded,
         RoundEnded, AfterSample, workers, StepRaises, CannotTrain
<1>3. /\ EntriesTell(queue)'
      /\ EntriesTell(snapshot)'
      /\ BufferTells'
      /\ PaddingIsLate'
      /\ StoredUntilSampled'
  BY DEF ReplayInv, EntriesTell, BufferTells, PaddingIsLate, BeforePadding,
         StoredUntilSampled, poller, workers, StepRaises
<1>4. /\ NothingForgotten'
      /\ BatchIsOwn'
      /\ BatchIsPut'
      /\ FinishedPromptComplete'
      /\ OnlyFailedPromptsLeft'
  BY DEF ReplayInv, NothingForgotten, Cleaning, AfterSample, OfFailedPrompt, BatchIsOwn,
         BatchIsPut, FinishedPromptComplete, OnlyFailedPromptsLeft, workers,
         StepRaises
<1>5. KeptTells'
  BY KeptStays DEF ReplayInv, Stopped, workers, StepRaises
<1> QED
  BY <1>5, <1>1, <1>2, <1>3, <1>4 DEF ReplayInv

\* What the batch held leaves the queue; the rest is of failed prompts.
LEMMA ClearKeeps ==
    ASSUME ReplayInv, Clear
    PROVE  ReplayInv'
<1>1. (BufferTypes /\ RoundInSchedule)'
  BY DEF ReplayInv, BufferTypes, Tag, TrainerStates, Stopped, RoundInSchedule,
         poller, workers, Clear, Goto, Cleared
<1>2. (PromptsInOrder /\ SessionsFollow /\ RunningUntilEnded /\ RoundEnded)'
  BY DEF ReplayInv, PromptsInOrder, SessionsFollow, RunningUntilEnded,
         RoundEnded, AfterSample, workers, Clear, Goto
<1>3. /\ EntriesTell(queue)'
      /\ EntriesTell(snapshot)'
      /\ BufferTells'
      /\ PaddingIsLate'
      /\ StoredUntilSampled'
  BY KeyFacts
  DEF ReplayInv, EntriesTell, BufferTells, PaddingIsLate, BeforePadding,
      StoredUntilSampled, poller, workers, Clear, Goto, Cleared
<1>4. (BatchIsOwn /\ BatchIsPut /\ FinishedPromptComplete)'
  BY DEF ReplayInv, BatchIsOwn, AfterSample, BatchIsPut,
         FinishedPromptComplete, workers, Clear, Goto
<1>5. NothingForgotten'
  <2>1. \A k \in Key : queue'[k] = "success" => queue[k] = "success" /\ k \notin batch
    BY DEF Clear, Cleared, Absent
  <2> QED
    BY <2>1
    DEF ReplayInv, NothingForgotten, Clear, Goto, workers, AfterSample,
        OfFailedPrompt
<1>6. OnlyFailedPromptsLeft'
  <2>1. \A k \in Key : queue'[k] = "success" => queue[k] = "success"
    BY DEF Clear, Cleared, Absent
  <2> QED
    BY <2>1 DEF ReplayInv, OnlyFailedPromptsLeft, Clear, workers
<1>7. KeptTells'
  <2>1. /\ UNCHANGED <<round, batch, kept, session>>
        /\ pc = "clear" /\ pc' = "remove"
    BY DEF Clear, Goto, workers
  <2>2. \A k \in kept : queue'[k] = queue[k]
    BY <2>1, CleanupIsApart DEF Clear, Cleared, Stopped, ReplayInv, BufferTypes
  <2> QED
    BY <2>1, <2>2, KeptStays DEF ReplayInv, Stopped
<1> QED
  BY <1>7, <1>1, <1>2, <1>3, <1>4, <1>5, <1>6 DEF ReplayInv

\* What was trained on stays, and the validation of its step begins.
LEMMA KeepBatchKeeps ==
    ASSUME ReplayInv, KeepBatch
    PROVE  ReplayInv'
<1>0. /\ pc = "clear" /\ Schedule[round].part = "train" /\ ValidatesNext
      /\ kept' = batch /\ batch' = {} /\ NextRound /\ kept = {}
      /\ UNCHANGED <<queue, buffer, snapshot, adding, session, prompt, failures>>
  BY DEF KeepBatch, poller, workers, ReplayInv, KeptTells, KeptOfStep, Stopped
<1>n. /\ pc' = "mark" /\ RoundInSchedule' /\ PromptsInOrder'
      /\ \A k \in Key : k.round < round' => k.round < round \/ k.round = round
      /\ \A k \in PaddingKey :
            k.round > round' \/ (k.round = round' /\ pc' \in BeforePadding) =>
                k.round > round
      /\ Schedule[round'].part = "val"
      /\ Schedule[round'].step = Schedule[round].step
  <2>1. pc \in {"clear"} \union Cleaning /\ NextRound /\ prompt' = prompt
    BY <1>0
  <2> QED
    BY <1>0, <2>1, NextRoundFacts
<1>1. BufferTypes'
  BY <1>0, <1>n DEF ReplayInv, BufferTypes, TrainerStates, NextRound
<1>2. (SessionsFollow /\ RunningUntilEnded /\ RoundEnded)'
  BY <1>0, <1>n
  DEF ReplayInv, SessionsFollow, RunningUntilEnded, RoundEnded, AfterSample
<1>3. (EntriesTell(queue) /\ EntriesTell(snapshot) /\ BufferTells /\ StoredUntilSampled)'
  BY <1>0, <1>n DEF ReplayInv, EntriesTell, BufferTells, StoredUntilSampled
<1>4. PaddingIsLate'
  BY <1>0, <1>n DEF ReplayInv, PaddingIsLate
<1>5. (NothingForgotten /\ BatchIsOwn /\ BatchIsPut /\ FinishedPromptComplete)'
  BY <1>0, <1>n
  DEF NothingForgotten, AfterSample, Cleaning, BatchIsOwn, BatchIsPut,
      FinishedPromptComplete
<1>6. OnlyFailedPromptsLeft'
  <2> SUFFICES ASSUME NEW k \in Key, k.round < round', queue'[k] = "success"
               PROVE  (k \in Session /\ prompt[UidOf(k)] = "failure") \/ k \in batch
    BY <1>0 DEF OnlyFailedPromptsLeft
  <2>1. queue[k] = "success" /\ (k.round < round \/ k.round = round)
    BY <1>0, <1>n
  <2>2. CASE k.round < round
    BY <1>0, <2>1, <2>2 DEF ReplayInv, OnlyFailedPromptsLeft
  <2>3. CASE k.round = round
    BY <1>0, <2>1, <2>3
    DEF ReplayInv, NothingForgotten, AfterSample, OfFailedPrompt
  <2> QED
    BY <2>1, <2>2, <2>3
<1>7. KeptTells'
  BY <1>0, <1>n
  DEF ReplayInv, KeptTells, BatchOfStep, KeptOfStep, KeptIsPut, KeptStored,
      BatchIsPut, BatchIsOwn, AfterSample
<1> QED
  BY <1>1, <1>n, <1>2, <1>3, <1>4, <1>5, <1>6, <1>7 DEF ReplayInv

\* The batch leaves the buffer: the next round begins, or what was trained on
\* is cleaned up.
LEMMA RemoveBatchKeeps ==
    ASSUME ReplayInv, RemoveBatch
    PROVE  ReplayInv'
<1>0. /\ pc = "remove" /\ batch' = {} /\ buffer' = Removed(batch)
      /\ \/ NextRound /\ (kept = {} \/ ValidatesNext)
         \/ pc' = "clear kept" /\ round' = round /\ kept # {}
      /\ UNCHANGED <<queue, snapshot, adding, session, prompt, kept, failures>>
  BY DEF RemoveBatch, poller, workers
<1>n. /\ pc' \in {"done", "mark", "clear kept"} /\ RoundInSchedule' /\ PromptsInOrder'
      /\ \A k \in Key : k.round < round' => k.round < round \/ k.round = round
      /\ \A k \in PaddingKey :
            k.round > round' \/ (k.round = round' /\ pc' \in BeforePadding) =>
                k.round > round
  <2>1. CASE NextRound
    <3>1. pc \in Cleaning /\ prompt' = prompt
      BY <1>0 DEF Cleaning
    <3> QED
      BY <2>1, <3>1, NextRoundFacts
  <2>2. CASE pc' = "clear kept" /\ round' = round
    BY <1>0, <2>2
    DEF ReplayInv, RoundInSchedule, PromptsInOrder, BeforePadding, Stopped
  <2> QED
    BY <1>0, <2>1, <2>2
<1>1. BufferTypes'
  <2>1. buffer' \in [Key -> Tag]
    BY <1>0 DEF ReplayInv, BufferTypes, Removed, Tag
  <2>2. pc' \in TrainerStates
    BY <1>n DEF TrainerStates, Stopped
  <2>3. round' \in Nat
    <3>1. round \in Nat
      BY DEF ReplayInv, BufferTypes
    <3>2. NextRound => round' \in {round, round + 1}
      BY DEF NextRound
    <3>3. round' \in {round, round + 1}
      BY <1>0, <3>2
    <3> QED
      BY <3>1, <3>3
  <2> QED
    BY <1>0, <2>1, <2>2, <2>3 DEF ReplayInv, BufferTypes
<1>2. (SessionsFollow /\ RunningUntilEnded /\ RoundEnded)'
  BY <1>0, <1>n
  DEF ReplayInv, SessionsFollow, RunningUntilEnded, RoundEnded, AfterSample
<1>3. (EntriesTell(queue) /\ EntriesTell(snapshot) /\ StoredUntilSampled)'
  BY <1>0, <1>n DEF ReplayInv, EntriesTell, StoredUntilSampled
<1>4. \A k \in Key : buffer'[k] \in {buffer[k], Absent}
  BY <1>0 DEF Removed
<1>5. BufferTells'
  BY <1>0, <1>4, KeyFacts DEF ReplayInv, BufferTells, Absent
<1>6. PaddingIsLate'
  BY <1>0, <1>n, <1>4, KeyFacts DEF ReplayInv, PaddingIsLate
<1>7. (BatchIsOwn /\ BatchIsPut /\ FinishedPromptComplete)'
  BY <1>0, <1>n DEF BatchIsOwn, AfterSample, BatchIsPut, FinishedPromptComplete
<1>8. NothingForgotten'
  <2>1. CASE NextRound
    <3>1. pc' \notin AfterSample /\ pc' \notin Cleaning /\ pc' # "forget"
      BY <2>1 DEF NextRound, AfterSample, Cleaning
    <3> QED
      BY <3>1 DEF NothingForgotten
  <2>2. CASE pc' = "clear kept" /\ round' = round
    <3>1. /\ pc' \notin AfterSample /\ pc' # "forget" /\ pc \in Cleaning
      BY <1>0, <2>2 DEF AfterSample, Cleaning
    <3> QED
      BY <1>0, <2>2, <3>1 DEF ReplayInv, NothingForgotten, OfFailedPrompt
  <2> QED
    BY <1>0, <2>1, <2>2
<1>9. OnlyFailedPromptsLeft'
  <2> SUFFICES ASSUME NEW k \in Key, k.round < round', queue'[k] = "success"
               PROVE  (k \in Session /\ prompt[UidOf(k)] = "failure") \/ k \in kept
    BY <1>0 DEF OnlyFailedPromptsLeft
  <2>1. queue[k] = "success" /\ (k.round < round \/ k.round = round)
    BY <1>0, <1>n
  <2>2. CASE k.round < round
    BY <2>1, <2>2 DEF ReplayInv, OnlyFailedPromptsLeft
  <2>3. CASE k.round = round
    BY <1>0, <2>1, <2>3 DEF ReplayInv, NothingForgotten, Cleaning, OfFailedPrompt
  <2> QED
    BY <2>1, <2>2, <2>3
<1>10. KeptTells'
  <2>1. CASE kept = {}
    BY <1>0, <2>1 DEF KeptTells, BatchOfStep, KeptOfStep, KeptIsPut, KeptStored
  <2>2. CASE kept # {} /\ NextRound
    <3>1. /\ pc' = "mark" /\ Schedule[round'].part = "val"
          /\ Schedule[round'].step = Schedule[round].step
      BY <1>0, <2>2, NextRoundFacts DEF Cleaning, NextRound, ValidatesNext
    <3> QED
      BY <1>0, <2>2, <3>1
      DEF ReplayInv, KeptTells, BatchOfStep, KeptOfStep, KeptIsPut, KeptStored,
          Stopped
  <2>3. CASE pc' = "clear kept" /\ round' = round
    BY <1>0, <2>3
    DEF ReplayInv, KeptTells, BatchOfStep, KeptOfStep, KeptIsPut, KeptStored,
        Stopped
  <2> QED
    BY <1>0, <2>1, <2>2, <2>3
<1> QED
  BY <1>1, <1>n, <1>2, <1>3, <1>5, <1>6, <1>7, <1>8, <1>9, <1>10 DEF ReplayInv

\* What was trained on leaves the queue ...
LEMMA ClearKeptKeeps ==
    ASSUME ReplayInv, ClearKept
    PROVE  ReplayInv'
<1>0. /\ pc = "clear kept" /\ pc' = "remove kept" /\ queue' = Cleared(kept)
      /\ UNCHANGED <<buffer, snapshot, adding, session, prompt, round, batch,
                     kept, failures>>
  BY DEF ClearKept, Goto, poller, workers
<1>1. (BufferTypes /\ RoundInSchedule /\ PromptsInOrder)'
  BY <1>0
  DEF ReplayInv, BufferTypes, Tag, TrainerStates, Stopped, RoundInSchedule,
      PromptsInOrder, Cleared
<1>2. (SessionsFollow /\ RunningUntilEnded /\ RoundEnded)'
  BY <1>0
  DEF ReplayInv, SessionsFollow, RunningUntilEnded, RoundEnded, AfterSample
<1>3. \A k \in Key : queue'[k] = IF k \in kept THEN Absent ELSE queue[k]
  BY <1>0 DEF Cleared
<1>4. (EntriesTell(snapshot) /\ BufferTells)'
  BY <1>0 DEF ReplayInv, EntriesTell, BufferTells
<1>9. \A k \in Key : queue'[k] \in {queue[k], Absent}
  BY <1>3
<1>10. EntriesTell(queue)'
  BY <1>0, <1>9, KeyFacts DEF ReplayInv, EntriesTell
<1>11. StoredUntilSampled'
  BY <1>0 DEF StoredUntilSampled
<1>5. PaddingIsLate'
  BY <1>0, <1>9, KeyFacts DEF ReplayInv, PaddingIsLate, BeforePadding
<1>6. (BatchIsOwn /\ BatchIsPut /\ FinishedPromptComplete)'
  BY <1>0
  DEF ReplayInv, BatchIsOwn, AfterSample, BatchIsPut, FinishedPromptComplete
<1>7. (NothingForgotten /\ OnlyFailedPromptsLeft)'
  BY <1>0, <1>3
  DEF ReplayInv, NothingForgotten, AfterSample, Cleaning, OfFailedPrompt,
      OnlyFailedPromptsLeft, Absent
<1>8. KeptTells'
  BY <1>0, <1>3
  DEF ReplayInv, BufferTypes, KeptTells, BatchOfStep, KeptOfStep, KeptIsPut,
      KeptStored, Stopped, Absent
<1> QED
  BY <1>1, <1>2, <1>4, <1>10, <1>11, <1>5, <1>6, <1>7, <1>8 DEF ReplayInv

\* ... and the buffer, and the next round begins.
LEMMA RemoveKeptKeeps ==
    ASSUME ReplayInv, RemoveKept
    PROVE  ReplayInv'
<1>0. /\ pc = "remove kept" /\ buffer' = Removed(kept) /\ kept' = {} /\ NextRound
      /\ UNCHANGED <<queue, snapshot, adding, session, prompt, batch, failures>>
  BY DEF RemoveKept, poller, workers
<1>n. /\ pc' \in {"done", "mark"} /\ RoundInSchedule' /\ PromptsInOrder'
      /\ \A k \in Key : k.round < round' => k.round < round \/ k.round = round
      /\ \A k \in PaddingKey :
            k.round > round' \/ (k.round = round' /\ pc' \in BeforePadding) =>
                k.round > round
  <2>1. pc \in Cleaning /\ NextRound /\ prompt' = prompt
    BY <1>0 DEF Cleaning
  <2> QED
    BY <2>1, NextRoundFacts
<1>1. BufferTypes'
  <2>1. buffer' \in [Key -> Tag]
    BY <1>0 DEF ReplayInv, BufferTypes, Removed, Tag
  <2>2. pc' \in TrainerStates
    BY <1>n DEF TrainerStates, Stopped
  <2>3. round' \in Nat
    <3>1. round \in Nat
      BY DEF ReplayInv, BufferTypes
    <3>2. NextRound => round' \in {round, round + 1}
      BY DEF NextRound
    <3>3. round' \in {round, round + 1}
      BY <1>0, <3>2
    <3> QED
      BY <3>1, <3>3
  <2> QED
    BY <1>0, <2>1, <2>2, <2>3 DEF ReplayInv, BufferTypes
<1>2. (SessionsFollow /\ RunningUntilEnded /\ RoundEnded)'
  BY <1>0, <1>n
  DEF ReplayInv, SessionsFollow, RunningUntilEnded, RoundEnded, AfterSample
<1>3. (EntriesTell(queue) /\ EntriesTell(snapshot) /\ StoredUntilSampled)'
  BY <1>0, <1>n DEF ReplayInv, EntriesTell, StoredUntilSampled
<1>4. \A k \in Key : buffer'[k] \in {buffer[k], Absent}
  BY <1>0 DEF Removed
<1>5. BufferTells'
  BY <1>0, <1>4, KeyFacts DEF ReplayInv, BufferTells, Absent
<1>6. PaddingIsLate'
  BY <1>0, <1>n, <1>4, KeyFacts DEF ReplayInv, PaddingIsLate
<1>7. (BatchIsOwn /\ BatchIsPut /\ FinishedPromptComplete)'
  BY <1>0, <1>n
  DEF ReplayInv, BatchIsOwn, AfterSample, BatchIsPut, FinishedPromptComplete
<1>8. NothingForgotten'
  <2>1. pc' \notin AfterSample /\ pc' \notin Cleaning /\ pc' # "forget"
    BY <1>n DEF AfterSample, Cleaning
  <2> QED
    BY <2>1 DEF NothingForgotten
<1>9. OnlyFailedPromptsLeft'
  <2> SUFFICES ASSUME NEW k \in Key, k.round < round', queue'[k] = "success"
               PROVE  k \in Session /\ prompt[UidOf(k)] = "failure"
    BY <1>0 DEF OnlyFailedPromptsLeft
  <2>1. queue[k] = "success" /\ (k.round < round \/ k.round = round)
    BY <1>0, <1>n
  <2>2. k \notin kept
    BY <1>0, <2>1 DEF ReplayInv, KeptTells, KeptStored
  <2>3. CASE k.round < round
    BY <2>1, <2>2, <2>3 DEF ReplayInv, OnlyFailedPromptsLeft
  <2>4. CASE k.round = round
    BY <1>0, <2>1, <2>4 DEF ReplayInv, NothingForgotten, Cleaning, OfFailedPrompt
  <2> QED
    BY <2>1, <2>3, <2>4
<1>10. KeptTells'
  <2>1. batch = {}
    BY <1>0 DEF ReplayInv, KeptTells, BatchOfStep
  <2> QED
    BY <1>0, <2>1
    DEF KeptTells, BatchOfStep, KeptOfStep, KeptIsPut, KeptStored
<1> QED
  BY <1>1, <1>n, <1>2, <1>3, <1>5, <1>6, <1>7, <1>8, <1>9, <1>10 DEF ReplayInv

LEMMA ReplayStarts == BufferInit => ReplayInv
<1> SUFFICES ASSUME BufferInit PROVE ReplayInv
    OBVIOUS
<1>1. pc \notin Stopped => round \in Round
    BY ScheduleAssumption DEF BufferInit, Round, Stopped
<1>2. BufferTypes
    BY PromptAssumption
    DEF BufferInit, BufferTypes, NoEntries, Tag, Part, TrainerStates, Stopped
<1>3. \A k \in Key : queue[k] = Absent /\ buffer[k] = Absent /\ snapshot[k] = Absent
    BY DEF BufferInit, NoEntries
<1>4. /\ pc \in {"done", "mark"} /\ batch = {} /\ kept = {}
      /\ \A u \in Uid : prompt[u] = "idle"
      /\ \A k \in Session : session[k] = "idle"
    BY DEF BufferInit
<1>5. RoundInSchedule /\ PromptsInOrder /\ SessionsFollow
    BY <1>1, <1>4, KeyFacts DEF RoundInSchedule, PromptsInOrder, SessionsFollow
<1>8. RoundEnded
    BY <1>4 DEF RoundEnded, AfterSample
<1>6. /\ EntriesTell(queue) /\ EntriesTell(snapshot) /\ BufferTells
      /\ PaddingIsLate /\ StoredUntilSampled /\ RunningUntilEnded
    BY <1>3, <1>4, KeyFacts
    DEF EntriesTell, BufferTells, PaddingIsLate, StoredUntilSampled,
        RunningUntilEnded, Absent
<1>7. /\ NothingForgotten /\ BatchIsOwn /\ BatchIsPut
      /\ FinishedPromptComplete /\ OnlyFailedPromptsLeft
    BY <1>3, <1>4
    DEF NothingForgotten, BatchIsOwn, BatchIsPut, FinishedPromptComplete,
        OnlyFailedPromptsLeft, Absent
<1>9. KeptTells
    BY <1>4 DEF KeptTells, BatchOfStep, KeptOfStep, KeptIsPut, KeptStored
<1> QED
    BY <1>2, <1>5, <1>6, <1>7, <1>8, <1>9 DEF ReplayInv

LEMMA ReplayStutters == ReplayInv /\ UNCHANGED bufferVars => ReplayInv'
<1> SUFFICES ASSUME ReplayInv, UNCHANGED bufferVars PROVE ReplayInv'
  OBVIOUS
<1>0. UNCHANGED <<queue, buffer, snapshot, adding, session, prompt, pc, round,
                 batch, kept, failures>>
  BY DEF bufferVars, poller, workers, trainer
<1>1. (BufferTypes /\ RoundInSchedule)'
  BY <1>0 DEF ReplayInv, BufferTypes, RoundInSchedule
<1>2. (PromptsInOrder /\ SessionsFollow /\ RunningUntilEnded /\ RoundEnded)'
  BY <1>0
  DEF ReplayInv, PromptsInOrder, SessionsFollow, RunningUntilEnded, RoundEnded
<1>3. (EntriesTell(queue) /\ EntriesTell(snapshot) /\ BufferTells)'
  BY <1>0 DEF ReplayInv, EntriesTell, BufferTells
<1>4. (PaddingIsLate /\ StoredUntilSampled)'
  BY <1>0 DEF ReplayInv, PaddingIsLate, StoredUntilSampled
<1>5. (NothingForgotten /\ OnlyFailedPromptsLeft)'
  BY <1>0, NothingElseForgotten DEF ReplayInv
<1>6. (BatchIsOwn /\ BatchIsPut /\ FinishedPromptComplete)'
  BY <1>0 DEF ReplayInv, BatchIsOwn, BatchIsPut, FinishedPromptComplete, Baselines
<1>7. KeptTells'
  BY <1>0, KeptStays DEF ReplayInv
<1> QED
  BY <1>1, <1>2, <1>3, <1>4, <1>5, <1>6, <1>7 DEF ReplayInv

LEMMA ReplayKept == ReplayInv /\ [BufferNext]_bufferVars => ReplayInv'
<1> SUFFICES ASSUME ReplayInv, [BufferNext]_bufferVars PROVE ReplayInv'
    OBVIOUS
<1>1. CASE PollStep \/ PollRaises
    BY <1>1, PollReadKeeps, PollAddKeeps, PollRaisesKeeps DEF PollStep
<1>2. CASE \E k \in Session : SessionStep(k)
    BY <1>2, SessionPutsKeeps, SessionIsEmptyKeeps, SessionRaisesKeeps
    DEF SessionStep
<1>3. CASE \E u \in Uid : PromptStep(u)
    BY <1>3, PromptFinishesKeeps, PromptFailsKeeps, FinishedPutRaisesKeeps,
       FailurePutRaisesKeeps
    DEF PromptStep
<1>4. CASE TrainerStep
    BY <1>4, MarkPendingKeeps, StartPromptsKeeps, SampleKeeps, ReadBatchKeeps,
       TrainBeginsKeeps, ClearBaselinesKeeps, ForgetBaselinesKeeps, PadKeeps,
       StepRaisesKeeps, KeepBatchKeeps, ClearKeeps, RemoveBatchKeeps,
       ClearKeptKeeps, RemoveKeptKeeps
    DEF TrainerStep
<1>5. CASE UNCHANGED bufferVars
    BY <1>5, ReplayStutters
<1> QED
    BY <1>1, <1>2, <1>3, <1>4, <1>5 DEF BufferNext

LEMMA ReplayAlways == BufferSpec => []ReplayInv
BY ReplayStarts, ReplayKept, PTL DEF BufferSpec

\* "wait until all prompts of this global steps have finished": in every
\* round, when ReplayBuffer.sample returns, every prompt of the round has
\* ended.
THEOREM SampleComplete == BufferSpec => []SampleWaitsForAll
<1>1. ReplayInv => SampleWaitsForAll
  <2> SUFFICES ASSUME ReplayInv, HasBatch, NEW u \in UidsOf(round)
               PROVE  prompt[u] \in {"finished", "failure"}
    BY DEF SampleWaitsForAll
  <2> QED
    BY DEF ReplayInv, RoundEnded, HasBatch, AfterSample, HasEnded
<1> QED
    BY <1>1, ReplayAlways, PTL

\* Whatever order the poll thread sees them in, the batch that is sampled has
\* every trajectory that a finished prompt of the round put.
THEOREM BatchIsComplete == BufferSpec => []FinishedPromptComplete
<1>1. ReplayInv => FinishedPromptComplete
    BY DEF ReplayInv
<1> QED
    BY <1>1, ReplayAlways, PTL

\* If no two rounds have the same partition and global step, the batch is of
\* its own round and stored in the queue for as long as the trainer uses it,
\* one that was trained on until the validation of its step has ended, however
\* late the poll thread adds what it had read.
THEOREM BatchIsStoredAndOwn == BufferSpec => [](RoundsDiffer => BatchStoredAndOwn)
<1>1. ReplayInv => (RoundsDiffer => BatchStoredAndOwn)
    BY DEF ReplayInv, BatchIsOwn, BatchStoredAndOwn, AfterSample, KeptTells,
           KeptOfStep, KeptStored
<1> QED
    BY <1>1, ReplayAlways, PTL

\* The cleanup of a round leaves nothing in the queue but what the sessions of
\* failed prompts put and, while it validates, what the trainer trained on.
THEOREM QueueIsCleaned == BufferSpec => []OnlyFailedPromptsLeft
<1>1. ReplayInv => OnlyFailedPromptsLeft
    BY DEF ReplayInv
<1> QED
    BY <1>1, ReplayAlways, PTL

=============================================================================
