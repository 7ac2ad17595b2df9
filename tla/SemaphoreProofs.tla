-------------------------- MODULE SemaphoreProofs --------------------------
(***************************************************************************)
(* Proofs about Semaphore, for any finite set of clients, any limit, any   *)
(* weights, with and without priority; and about TimedCancellable, the     *)
(* context under which lock and waitForUnlock run (Semaphore.ts 71, 152).  *)
(***************************************************************************)
EXTENDS Semaphore, TimedCancellable, FiniteSetTheorems, NaturalsInduction, TLAPS

(***************************************************************************)
(* The insertion sort stops: at the end of the queue at the latest.        *)
(***************************************************************************)
LEMMA EntriesAheadExists ==
    ASSUME queue \in Seq(Entries), NEW w \in Weights
    PROVE  /\ EntriesAhead(w) \in 0 .. Len(queue)
           /\ priority =>
                 /\ EntriesAhead(w) \in Stops(w)
                 /\ \A j \in Stops(w) : EntriesAhead(w) <= j
<1> DEFINE S == Stops(w)
           R == OpToRel(<, Nat)
<1>1. Len(queue) \in Nat
  OBVIOUS
<1>2. Len(queue) \in S /\ S \subseteq Nat /\ S \subseteq 0 .. Len(queue)
  BY <1>1 DEF Stops
<1> HIDE DEF S
<1>3. PICK n \in S : \A y \in S : ~ (<<y, n>> \in R)
  <2>1. IsWellFoundedOn(R, Nat)
    BY NatLessThanWellFounded
  <2> HIDE DEF R
  <2>2. QED
    BY <1>2, <2>1, WFMin
<1>4. \A y \in S : n <= y
  <2> SUFFICES ASSUME NEW y \in S, ~ (n <= y)
               PROVE  FALSE
    OBVIOUS
  <2>1. y \in Nat /\ n \in Nat /\ y < n
    BY <1>2
  <2>2. <<y, n>> \in R
    BY <2>1 DEF OpToRel
  <2> HIDE DEF R
  <2>3. QED
    BY <1>3, <2>2
<1>5. CASE priority
  <2>1. EntriesAhead(w) = CHOOSE i \in S : \A j \in S : i <= j
    BY <1>5 DEF EntriesAhead, S
  <2>2. EntriesAhead(w) \in S /\ \A j \in S : EntriesAhead(w) <= j
    BY <1>4, <2>1
  <2>3. QED
    BY <1>2, <2>2 DEF S
<1>6. CASE ~ priority
  BY <1>1, <1>6 DEF EntriesAhead
<1>7. QED
  BY <1>5, <1>6

(***************************************************************************)
(* What insertQueue makes of the queue, seen through its entries.          *)
(***************************************************************************)
LEMMA InsertedFacts ==
    ASSUME queue \in Seq(Entries), NEW e \in Entries
    PROVE  LET q == Inserted(e)
               n == EntriesAhead(e.weight)
           IN  /\ n \in 0 .. Len(queue)
               /\ q \in Seq(Entries)
               /\ Len(q) = Len(queue) + 1
               /\ \A i \in 1 .. n : q[i] = queue[i]
               /\ q[n + 1] = e
               /\ \A i \in n + 2 .. Len(queue) + 1 : q[i] = queue[i - 1]
<1> DEFINE n == EntriesAhead(e.weight)
           q == Inserted(e)
<1>1. n \in 0 .. Len(queue) /\ Len(queue) \in Nat
  BY EntriesAheadExists DEF Entries
<1>2. q = [i \in 1 .. Len(queue) + 1 |->
              CASE i <= n    -> queue[i]
                [] i = n + 1 -> e
                [] i > n + 1 -> queue[i - 1]]
  BY DEF Inserted
<1> HIDE DEF n, q
<1>3. \A i \in 1 .. n : q[i] = queue[i]
  BY <1>1, <1>2
<1>4. q[n + 1] = e
  BY <1>1, <1>2
<1>5. \A i \in n + 2 .. Len(queue) + 1 : q[i] = queue[i - 1]
  BY <1>1, <1>2
<1>6. \A i \in 1 .. Len(queue) + 1 : q[i] \in Entries
  <2> SUFFICES ASSUME NEW i \in 1 .. Len(queue) + 1
               PROVE  q[i] \in Entries
    OBVIOUS
  <2>1. CASE i \in 1 .. n
    BY <1>1, <1>3, <2>1
  <2>2. CASE i = n + 1
    BY <1>4, <2>2
  <2>3. CASE i \in n + 2 .. Len(queue) + 1
    BY <1>1, <1>5, <2>3
  <2>4. QED
    BY <1>1, <2>1, <2>2, <2>3
<1>7. q \in Seq(Entries) /\ Len(q) = Len(queue) + 1
  <2>1. q \in [1 .. Len(queue) + 1 -> Entries]
    BY <1>2, <1>6
  <2>2. QED
    BY <1>1, <2>1
<1>8. QED
  BY <1>1, <1>3, <1>4, <1>5, <1>7 DEF n, q

-----------------------------------------------------------------------------
(* Counting weight as a number of units.                                   *)

LEMMA HeldNat ==
    ASSUME held \in [Clients -> Weights \cup {0}]
    PROVE  \A d \in Clients : held[d] \in Nat
<1>1. \A d \in Clients : held[d] \in Weights \cup {0}
  OBVIOUS
<1>2. Weights \cup {0} \subseteq Nat
  BY SemaphoreAssumption
<1>3. QED
  BY <1>1, <1>2

LEMMA UnitsFinite == IsFiniteSet(Units)
<1> DEFINE L == 1 .. Limit
<1>1. IsFiniteSet(Clients \X L)
  <2>1. IsFiniteSet(L) /\ IsFiniteSet(Clients)
    BY SemaphoreAssumption, FS_Interval
  <2> HIDE DEF L
  <2>2. QED
    BY <2>1, FS_Product
<1>2. Units \subseteq Clients \X (1 .. Limit)
  BY DEF Units
<1>3. QED
  BY <1>1, <1>2, FS_Subset

LEMMA BlockCardinality ==
    ASSUME NEW c, NEW w \in Nat
    PROVE  IsFiniteSet({c} \X (1 .. w)) /\ Cardinality({c} \X (1 .. w)) = w
<1>1. IsFiniteSet({c}) /\ Cardinality({c}) = 1
  BY FS_Singleton
<1>2. IsFiniteSet(1 .. w) /\ Cardinality(1 .. w) = w
  BY FS_Interval
<1> DEFINE C == {c}
           I == 1 .. w
<1>3. IsFiniteSet(C \X I) /\ Cardinality(C \X I) = Cardinality(C) * Cardinality(I)
  <2> HIDE DEF C, I
  <2>1. QED
    BY <1>1, <1>2, FS_Product DEF C, I
<1>4. QED
  BY <1>1, <1>2, <1>3

\* A grant adds as many units as the weight granted.
LEMMA GrantUnits ==
    ASSUME held \in [Clients -> Weights \cup {0}],
           NEW c \in Clients, NEW w \in Weights, w <= Limit, held[c] = 0,
           held' = [held EXCEPT ![c] = w]
    PROVE  Cardinality(Units') = Cardinality(Units) + w
<1> DEFINE B == {c} \X (1 .. w)
<1>1. w \in Nat /\ Limit \in Nat /\ \A d \in Clients : held[d] \in Nat
  BY HeldNat, SemaphoreAssumption
<1>2. Units' = Units \cup B
  <2>1. \A u \in Clients \X (1 .. Limit) :
            u[2] <= held'[u[1]] <=> u[2] <= held[u[1]] \/ u \in B
    BY <1>1
  <2>2. B \subseteq Clients \X (1 .. Limit)
    BY <1>1
  <2> HIDE DEF B
  <2>3. QED
    BY <2>1, <2>2 DEF Units
<1>3. Units \cap B = {}
  BY <1>1 DEF Units
<1>4. IsFiniteSet(B) /\ Cardinality(B) = w
  BY <1>1, BlockCardinality
<1>5. Cardinality(Units \cup B) = Cardinality(Units) + Cardinality(B) - Cardinality({})
  BY <1>3, <1>4, UnitsFinite, FS_Union
<1>6. Cardinality(Units) \in Nat
  BY UnitsFinite, FS_CardinalityType
<1>7. QED
  BY <1>1, <1>2, <1>4, <1>5, <1>6, FS_EmptySet

\* A release takes away as many units as the client held.
LEMMA ReleaseUnits ==
    ASSUME held \in [Clients -> Weights \cup {0}],
           NEW c \in Clients, held[c] > 0, held[c] <= Limit,
           held' = [held EXCEPT ![c] = 0]
    PROVE  /\ Cardinality(Units') = Cardinality(Units) - held[c]
           /\ held[c] <= Cardinality(Units)
<1> DEFINE B == {c} \X (1 .. held[c])
<1>1. Limit \in Nat /\ \A d \in Clients : held[d] \in Nat
  BY HeldNat, SemaphoreAssumption
<1>2. Units' = Units \ B
  BY <1>1 DEF Units
<1>3. Units \cap B = B
  BY <1>1 DEF Units
<1>4. IsFiniteSet(B) /\ Cardinality(B) = held[c]
  BY <1>1, BlockCardinality
<1> HIDE DEF B
<1>5. Cardinality(Units \ B) = Cardinality(Units) - Cardinality(Units \cap B)
  BY UnitsFinite, FS_Difference
<1>6. Cardinality(B) <= Cardinality(Units)
  BY <1>3, UnitsFinite, FS_Subset
<1>7. QED
  BY <1>2, <1>3, <1>4, <1>5, <1>6

-----------------------------------------------------------------------------
(* The inductive invariant, one lemma for each action.                     *)

SemInv == TypeOK /\ WithinLimit /\ CountIsLockers /\ OneLiveEntry

LEMMA ClientSubsets ==
    /\ IsFiniteSet(Holders) /\ Cardinality(Holders) \in Nat
    /\ IsFiniteSet(Lockers) /\ Cardinality(Lockers) \in Nat
<1>1. Holders \subseteq Clients /\ Lockers \subseteq Clients
  BY DEF Holders, Lockers
<1>2. IsFiniteSet(Holders) /\ IsFiniteSet(Lockers)
  BY <1>1, SemaphoreAssumption, FS_Subset
<1>3. QED
  BY <1>2, FS_CardinalityType

LEMMA EntryFacts ==
    ASSUME queue \in Seq(Entries)
    PROVE  /\ Len(queue) \in Nat
           /\ DOMAIN queue = 1 .. Len(queue)
           /\ \A i \in 1 .. Len(queue) :
                 /\ queue[i] \in Entries
                 /\ queue[i].client \in Clients
                 /\ queue[i].kind \in {"lock", "wait"}
                 /\ queue[i].weight \in Weights
                 /\ queue[i].aborted \in BOOLEAN
<1>1. Len(queue) \in Nat /\ DOMAIN queue = 1 .. Len(queue)
  OBVIOUS
<1>2. \A i \in 1 .. Len(queue) : queue[i] \in Entries
  <2> DEFINE E == Entries
  <2> HIDE DEF E
  <2>1. queue \in Seq(E)
    BY DEF E
  <2>2. \A i \in 1 .. Len(queue) : queue[i] \in E
    BY <2>1
  <2>3. QED
    BY <2>2 DEF E
<1>3. \A x \in Entries : /\ x.client \in Clients /\ x.kind \in {"lock", "wait"}
                         /\ x.weight \in Weights /\ x.aborted \in BOOLEAN
  BY DEF Entries
<1>4. QED
  BY <1>1, <1>2, <1>3

LEMMA SemInvInit == Init => SemInv
<1> SUFFICES ASSUME Init
             PROVE  SemInv
  OBVIOUS
<1>1. TypeOK
  <2>1. held \in [Clients -> Weights \cup {0}]
    BY DEF Init
  <2>2. pending \in [Clients -> {"none", "lock", "wait"}]
    BY DEF Init
  <2> DEFINE E == Entries
  <2>3. queue \in Seq(E)
    <3> HIDE DEF E
    <3>1. QED
      BY DEF Init
  <2>4. QED
    BY <2>1, <2>2, <2>3 DEF Init, TypeOK
<1>2. OneLiveEntry
  BY DEF Init, OneLiveEntry
<1>3. Units = {} /\ Holders = {} /\ Lockers = {}
  BY DEF Init, Units, Holders, Lockers
<1>4. QED
  BY <1>1, <1>2, <1>3, FS_EmptySet, SemaphoreAssumption
     DEF SemInv, WithinLimit, CountIsLockers, Init

LEMMA CallStep ==
    ASSUME SemInv, NEW c \in Clients, NEW kind \in {"lock", "wait"},
           NEW w \in Weights, Call(c, kind, w)
    PROVE  SemInv'
<1> DEFINE e == [client |-> c, kind |-> kind, weight |-> w, aborted |-> FALSE]
           n == EntriesAhead(w)
<1>1. e \in Entries /\ e.weight = w
  BY DEF Entries
<1>2. /\ pending[c] = "none" /\ held[c] = 0
      /\ pending' = [pending EXCEPT ![c] = kind]
      /\ queue' = Inserted(e)
      /\ count' = IF kind = "lock" THEN count + 1 ELSE count
      /\ processing' = TRUE
      /\ UNCHANGED <<priority, currentWeight, held, stale>>
  BY DEF Call
<1>3. queue \in Seq(Entries) /\ Len(queue) \in Nat /\ DOMAIN queue = 1 .. Len(queue)
  BY DEF SemInv, TypeOK
<1> HIDE DEF e
<1>4. /\ n \in 0 .. Len(queue)
      /\ queue' \in Seq(Entries)
      /\ Len(queue') = Len(queue) + 1
      /\ \A i \in 1 .. n : queue'[i] = queue[i]
      /\ queue'[n + 1] = e
      /\ \A i \in n + 2 .. Len(queue) + 1 : queue'[i] = queue[i - 1]
  BY <1>1, <1>2, <1>3, InsertedFacts
<1> HIDE DEF n
<1>5. TypeOK'
  BY <1>2, <1>4 DEF SemInv, TypeOK
<1>6. WithinLimit'
  BY <1>2 DEF SemInv, WithinLimit, Units
<1>7. CountIsLockers'
  <2>1. Holders' = Holders
    BY <1>2 DEF Holders
  <2>2. Lockers' = IF kind = "lock" THEN Lockers \cup {c} ELSE Lockers
    BY <1>2 DEF Lockers, SemInv, TypeOK
  <2>3. c \notin Lockers
    BY <1>2 DEF Lockers
  <2>4. Cardinality(Lockers \cup {c}) = Cardinality(Lockers) + 1
    BY <2>3, ClientSubsets, FS_AddElement
  <2>5. QED
    BY <1>2, <2>1, <2>2, <2>4, ClientSubsets DEF SemInv, CountIsLockers
<1>8. OneLiveEntry'
  <2>1. \A i \in 1 .. Len(queue) : queue[i].client = c => queue[i].aborted
    <3>1. \A i \in 1 .. Len(queue) : queue[i].kind # "none"
      BY <1>3, EntryFacts
    <3>2. QED
      BY <1>2, <1>3, <3>1 DEF SemInv, OneLiveEntry
  <2>2. e.client = c /\ e.kind = kind /\ e.aborted = FALSE
    BY DEF e
  <2>3. DOMAIN queue' = 1 .. Len(queue) + 1
    BY <1>3, <1>4
  <2>4. ASSUME NEW i \in 1 .. Len(queue) + 1, i # n + 1
        PROVE  \E k \in 1 .. Len(queue) :
                  /\ queue'[i] = queue[k]
                  /\ i = IF k <= n THEN k ELSE k + 1
    <3>1. CASE i \in 1 .. n
      BY <1>3, <1>4, <3>1
    <3>2. CASE i \in n + 2 .. Len(queue) + 1
      BY <1>3, <1>4, <3>2
    <3>3. QED
      BY <1>3, <1>4, <2>4, <3>1, <3>2
  <2>5. \A i \in 1 .. Len(queue) + 1 :
            ~ queue'[i].aborted => pending'[queue'[i].client] = queue'[i].kind
    <3> SUFFICES ASSUME NEW i \in 1 .. Len(queue) + 1, ~ queue'[i].aborted
                 PROVE  pending'[queue'[i].client] = queue'[i].kind
      OBVIOUS
    <3>1. CASE i = n + 1
      BY <1>2, <1>4, <2>2, <3>1 DEF SemInv, TypeOK
    <3>2. CASE i # n + 1
      <4>1. PICK k \in 1 .. Len(queue) : queue'[i] = queue[k]
        BY <2>4, <3>2
      <4>2. queue[k].client # c /\ pending[queue[k].client] = queue[k].kind
        BY <1>3, <2>1, <4>1 DEF SemInv, OneLiveEntry
      <4>3. queue[k].client \in Clients
        BY <1>3, EntryFacts
      <4>4. QED
        BY <1>2, <4>1, <4>2, <4>3 DEF SemInv, TypeOK
    <3>3. QED
      BY <3>1, <3>2
  <2>6. \A i, j \in 1 .. Len(queue) + 1 :
            (/\ ~ queue'[i].aborted
             /\ ~ queue'[j].aborted
             /\ queue'[i].client = queue'[j].client) => i = j
    <3> SUFFICES ASSUME NEW i \in 1 .. Len(queue) + 1,
                        NEW j \in 1 .. Len(queue) + 1,
                        ~ queue'[i].aborted, ~ queue'[j].aborted,
                        queue'[i].client = queue'[j].client
                 PROVE  i = j
      OBVIOUS
    <3>1. CASE i = n + 1 /\ j # n + 1
      BY <1>4, <2>1, <2>2, <2>4, <3>1
    <3>2. CASE i # n + 1 /\ j = n + 1
      BY <1>4, <2>1, <2>2, <2>4, <3>2
    <3>3. CASE i # n + 1 /\ j # n + 1
      <4>1. PICK k \in 1 .. Len(queue) :
                queue'[i] = queue[k] /\ i = IF k <= n THEN k ELSE k + 1
        BY <2>4, <3>3
      <4>2. PICK l \in 1 .. Len(queue) :
                queue'[j] = queue[l] /\ j = IF l <= n THEN l ELSE l + 1
        BY <2>4, <3>3
      <4>3. k = l
        BY <1>3, <4>1, <4>2 DEF SemInv, OneLiveEntry
      <4>4. QED
        BY <4>1, <4>2, <4>3
    <3>4. QED
      BY <3>1, <3>2, <3>3
  <2>7. ASSUME NEW d \in Clients, pending'[d] # "none"
        PROVE  \E i \in 1 .. Len(queue) + 1 :
                  queue'[i].client = d /\ ~ queue'[i].aborted
    <3>1. CASE d = c
      BY <1>3, <1>4, <2>2, <3>1
    <3>2. CASE d # c
      <4>1. PICK k \in 1 .. Len(queue) : queue[k].client = d /\ ~ queue[k].aborted
        BY <1>2, <1>3, <2>7, <3>2 DEF SemInv, OneLiveEntry, TypeOK
      <4>2. CASE k <= n
        BY <1>3, <1>4, <4>1, <4>2
      <4>3. CASE k > n
        <5>1. k + 1 \in n + 2 .. Len(queue) + 1 /\ (k + 1) - 1 = k
          BY <1>3, <1>4, <4>3
        <5>2. queue'[k + 1] = queue[k]
          BY <1>4, <5>1
        <5>3. QED
          BY <1>3, <4>1, <5>1, <5>2
      <4>4. QED
        BY <1>4, <4>2, <4>3
    <3>3. QED
      BY <3>1, <3>2
  <2>8. \A d \in Clients : held'[d] > 0 => pending'[d] = "none"
    BY <1>2 DEF SemInv, OneLiveEntry, TypeOK
  <2>9. QED
    BY <2>3, <2>5, <2>6, <2>7, <2>8 DEF OneLiveEntry
<1>9. QED
  BY <1>5, <1>6, <1>7, <1>8 DEF SemInv

\* What a wait or an aborted entry leaves behind when it is popped, and what a
\* lock does.
LEMMA PopStep ==
    ASSUME SemInv, Pop
    PROVE  SemInv'
<1> DEFINE e == Head(queue)
<1>1. /\ processing /\ queue # <<>> /\ Fits(e.weight)
      /\ queue' = Tail(queue) /\ Grant(e)
      /\ UNCHANGED <<priority, count, processing, stale>>
  BY DEF Pop
<1>2. queue \in Seq(Entries)
  BY DEF SemInv, TypeOK
<1>3. /\ e = queue[1] /\ Len(queue) \in Nat \ {0}
      /\ queue' \in Seq(Entries)
      /\ Len(queue') = Len(queue) - 1
      /\ DOMAIN queue = 1 .. Len(queue)
      /\ DOMAIN queue' = 1 .. Len(queue) - 1
      /\ \A i \in 1 .. Len(queue) - 1 : queue'[i] = queue[i + 1]
  <2> DEFINE E == Entries
  <2> HIDE DEF E
  <2>1. queue \in Seq(E)
    BY <1>2 DEF E
  <2>2. /\ Head(queue) = queue[1] /\ Len(queue) \in Nat \ {0}
        /\ Tail(queue) \in Seq(E)
        /\ Len(Tail(queue)) = Len(queue) - 1
        /\ \A i \in 1 .. Len(queue) - 1 : Tail(queue)[i] = queue[i + 1]
    BY <1>1, <2>1
  <2>3. QED
    BY <1>1, <2>1, <2>2 DEF E
<1>4. /\ e.client \in Clients /\ e.kind \in {"lock", "wait"}
      /\ e.weight \in Weights /\ e.aborted \in BOOLEAN
  BY <1>2, <1>3, EntryFacts
<1>5. \A i \in 1 .. Len(queue) :
          /\ queue[i].client \in Clients /\ queue[i].kind \in {"lock", "wait"}
          /\ queue[i].aborted \in BOOLEAN
  BY <1>2, EntryFacts
<1> HIDE DEF e
<1>6. /\ currentWeight \in Nat /\ e.weight \in Nat /\ Limit \in Nat
      /\ currentWeight + e.weight <= Limit
  BY <1>1, <1>4, SemaphoreAssumption DEF SemInv, TypeOK, Fits
<1>7. ~ e.aborted => pending[e.client] = e.kind /\ held[e.client] = 0
  <2>1. ~ e.aborted => pending[e.client] = e.kind
    BY <1>3 DEF SemInv, OneLiveEntry
  <2>2. held[e.client] \in Nat
    BY <1>4, HeldNat DEF SemInv, TypeOK
  <2>3. held[e.client] > 0 => pending[e.client] = "none"
    BY <1>4 DEF SemInv, OneLiveEntry
  <2>4. QED
    BY <1>4, <2>1, <2>2, <2>3
\* The live entries after the first, and what they say of pending.
<1>8. \A i \in 1 .. Len(queue) - 1 :
          ~ queue'[i].aborted =>
              /\ pending[queue'[i].client] = queue'[i].kind
              /\ ~ e.aborted => queue'[i].client # e.client
  <2> SUFFICES ASSUME NEW i \in 1 .. Len(queue) - 1, ~ queue'[i].aborted
               PROVE  /\ pending[queue'[i].client] = queue'[i].kind
                      /\ ~ e.aborted => queue'[i].client # e.client
    OBVIOUS
  <2>1. i + 1 \in 1 .. Len(queue) /\ 1 \in 1 .. Len(queue) /\ queue'[i] = queue[i + 1]
        /\ i + 1 # 1
    BY <1>3
  <2>2. QED
    BY <1>3, <2>1 DEF SemInv, OneLiveEntry
<1>9. \A i, j \in 1 .. Len(queue) - 1 :
          (/\ ~ queue'[i].aborted
           /\ ~ queue'[j].aborted
           /\ queue'[i].client = queue'[j].client) => i = j
  <2> SUFFICES ASSUME NEW i \in 1 .. Len(queue) - 1, NEW j \in 1 .. Len(queue) - 1,
                      ~ queue'[i].aborted, ~ queue'[j].aborted,
                      queue'[i].client = queue'[j].client
               PROVE  i = j
    OBVIOUS
  <2>1. /\ i + 1 \in 1 .. Len(queue) /\ queue'[i] = queue[i + 1]
        /\ j + 1 \in 1 .. Len(queue) /\ queue'[j] = queue[j + 1]
    BY <1>3
  <2>2. i + 1 = j + 1
    BY <1>3, <2>1 DEF SemInv, OneLiveEntry
  <2>3. QED
    BY <2>2
<1>10. ASSUME NEW d \in Clients, pending[d] # "none", e.aborted \/ d # e.client
       PROVE  \E i \in 1 .. Len(queue) - 1 :
                 queue'[i].client = d /\ ~ queue'[i].aborted
  <2>1. PICK k \in 1 .. Len(queue) : queue[k].client = d /\ ~ queue[k].aborted
    BY <1>3, <1>10 DEF SemInv, OneLiveEntry
  <2>2. k # 1
    BY <1>3, <1>10, <2>1
  <2>3. k - 1 \in 1 .. Len(queue) - 1 /\ (k - 1) + 1 = k
    BY <1>3, <2>2
  <2>4. QED
    BY <1>3, <2>1, <2>3
<1>11. CASE e.aborted \/ e.kind = "wait"
  <2>1. /\ UNCHANGED <<currentWeight, held>>
        /\ pending' = IF e.aborted THEN pending
                      ELSE [pending EXCEPT ![e.client] = "none"]
    BY <1>1, <1>4, <1>11 DEF Grant
  <2>2. pending \in [Clients -> {"none", "lock", "wait"}] /\ count \in Nat
        /\ currentWeight \in Nat /\ processing \in BOOLEAN /\ stale \in SUBSET Clients
        /\ priority \in BOOLEAN
        /\ held \in [Clients -> Weights \cup {0}]
    BY DEF SemInv, TypeOK
  <2>3. pending' \in [Clients -> {"none", "lock", "wait"}]
    BY <1>4, <2>1, <2>2
  <2>4. TypeOK'
    BY <1>1, <1>3, <2>1, <2>2, <2>3 DEF TypeOK
  <2>5. WithinLimit'
    BY <2>1 DEF SemInv, WithinLimit, Units
  <2>6. CountIsLockers'
    <3>1. Holders' = Holders
      BY <2>1 DEF Holders
    <3>2. Lockers' = Lockers
      BY <1>4, <1>7, <1>11, <2>1, <2>2 DEF Lockers
    <3>3. QED
      BY <1>1, <3>1, <3>2 DEF SemInv, CountIsLockers
  <2>7. \A i \in 1 .. Len(queue) - 1 :
            ~ queue'[i].aborted => pending'[queue'[i].client] = queue'[i].kind
    BY <1>3, <1>4, <1>5, <1>8, <2>1, <2>2
  <2>8. \A d \in Clients : pending'[d] # "none" =>
            pending[d] # "none" /\ (e.aborted \/ d # e.client)
    BY <1>4, <2>1, <2>2
  <2>9. \A d \in Clients : held'[d] > 0 => pending'[d] = "none"
    <3>1. \A d \in Clients : held[d] > 0 => pending[d] = "none"
      BY DEF SemInv, OneLiveEntry
    <3>2. QED
      BY <2>1, <2>8, <3>1
  <2>10. OneLiveEntry'
    BY <1>3, <1>9, <1>10, <2>7, <2>8, <2>9 DEF OneLiveEntry
  <2>11. QED
    BY <2>4, <2>5, <2>6, <2>10 DEF SemInv
<1>12. CASE ~ e.aborted /\ e.kind = "lock"
  <2>1. /\ currentWeight' = currentWeight + e.weight
        /\ held' = [held EXCEPT ![e.client] = e.weight]
        /\ pending' = [pending EXCEPT ![e.client] = "none"]
    BY <1>1, <1>12 DEF Grant
  <2>2. pending \in [Clients -> {"none", "lock", "wait"}] /\ count \in Nat
        /\ processing \in BOOLEAN /\ stale \in SUBSET Clients
        /\ priority \in BOOLEAN
        /\ held \in [Clients -> Weights \cup {0}]
    BY DEF SemInv, TypeOK
  <2>3. /\ pending' \in [Clients -> {"none", "lock", "wait"}]
        /\ held' \in [Clients -> Weights \cup {0}]
        /\ currentWeight' \in Nat
    BY <1>4, <1>6, <2>1, <2>2
  <2>4. TypeOK'
    BY <1>1, <1>3, <2>2, <2>3 DEF TypeOK
  <2>5. e.weight > 0 /\ pending[e.client] = "lock" /\ held[e.client] = 0
    <3>1. e.weight > 0
      <4>1. Weights \subseteq Nat \ {0}
        BY SemaphoreAssumption
      <4>2. e.weight \in Nat \ {0}
        BY <1>4, <4>1
      <4>3. QED
        BY <4>2
    <3>2. pending[e.client] = "lock" /\ held[e.client] = 0
      BY <1>7, <1>12
    <3>3. QED
      BY <3>1, <3>2
  <2>6. \A d \in Clients : held'[d] = IF d = e.client THEN e.weight ELSE held[d]
    BY <1>4, <2>1, <2>2
  <2>7. WithinLimit'
    <3>1. Cardinality(Units') = Cardinality(Units) + e.weight
      <4>1. PICK c \in Clients, w \in Weights : c = e.client /\ w = e.weight
        BY <1>4
      <4>2. held[c] = 0 /\ held' = [held EXCEPT ![c] = w]
        BY <2>1, <2>5, <4>1
      <4>3. w <= Limit
        BY <1>6, <4>1
      <4>4. Cardinality(Units') = Cardinality(Units) + w
        BY <2>2, <4>2, <4>3, GrantUnits
      <4>5. QED
        BY <4>1, <4>4
    <3>2. currentWeight' = Cardinality(Units') /\ currentWeight' <= Limit
      BY <1>6, <2>1, <3>1 DEF SemInv, WithinLimit
    <3>3. \A d \in Clients : held'[d] <= Limit
      BY <1>6, <2>6 DEF SemInv, WithinLimit
    <3>4. QED
      BY <3>2, <3>3 DEF WithinLimit
  <2>8. CountIsLockers'
    <3>1. Holders' = Holders \cup {e.client} /\ e.client \notin Holders
      BY <1>4, <2>5, <2>6 DEF Holders
    <3>2. Lockers' = Lockers \ {e.client} /\ e.client \in Lockers
      BY <1>4, <2>1, <2>2, <2>5 DEF Lockers
    <3>3. Cardinality(Holders \cup {e.client}) = Cardinality(Holders) + 1
      BY <3>1, ClientSubsets, FS_AddElement
    <3>4. Cardinality(Lockers \ {e.client}) = Cardinality(Lockers) - 1
      BY <3>2, ClientSubsets, FS_RemoveElement
    <3>5. QED
      BY <1>1, <3>1, <3>2, <3>3, <3>4, ClientSubsets DEF SemInv, CountIsLockers
  <2>9. \A i \in 1 .. Len(queue) - 1 :
            ~ queue'[i].aborted => pending'[queue'[i].client] = queue'[i].kind
    BY <1>3, <1>4, <1>5, <1>8, <1>12, <2>1, <2>2
  <2>10. \A d \in Clients : pending'[d] # "none" =>
            pending[d] # "none" /\ d # e.client
    BY <1>4, <2>1, <2>2
  <2>11. \A d \in Clients : held'[d] > 0 => pending'[d] = "none"
    <3>1. \A d \in Clients : held[d] > 0 => pending[d] = "none"
      BY DEF SemInv, OneLiveEntry
    <3>2. QED
      BY <2>6, <2>10, <3>1
  <2>12. OneLiveEntry'
    BY <1>3, <1>9, <1>10, <2>9, <2>10, <2>11 DEF OneLiveEntry
  <2>13. QED
    BY <2>4, <2>7, <2>8, <2>12 DEF SemInv
<1>13. QED
  BY <1>4, <1>11, <1>12

\* The abort marks the entry, and takes the call and its count away.
LEMMA AbortStep ==
    ASSUME SemInv, NEW c \in Clients, Abort(c)
    PROVE  SemInv'
<1>1. /\ pending[c] # "none"
      /\ count' = IF pending[c] = "lock" THEN count - 1 ELSE count
      /\ pending' = [pending EXCEPT ![c] = "none"]
      /\ queue' = [i \in DOMAIN queue |->
                      IF queue[i].client = c
                      THEN [queue[i] EXCEPT !.aborted = TRUE]
                      ELSE queue[i]]
      /\ UNCHANGED <<priority, currentWeight, processing, held, stale>>
  BY DEF Abort, CountAfterAbort
<1>2. /\ pending \in [Clients -> {"none", "lock", "wait"}] /\ count \in Nat
      /\ currentWeight \in Nat /\ processing \in BOOLEAN /\ stale \in SUBSET Clients
      /\ priority \in BOOLEAN
      /\ held \in [Clients -> Weights \cup {0}] /\ queue \in Seq(Entries)
  BY DEF SemInv, TypeOK
<1>3. /\ Len(queue) \in Nat
      /\ DOMAIN queue = 1 .. Len(queue)
      /\ \A i \in 1 .. Len(queue) : queue[i] \in Entries
  BY <1>2, EntryFacts
<1>4. \A x \in Entries :
          /\ x.client \in Clients
          /\ [x EXCEPT !.aborted = TRUE] \in Entries
          /\ [x EXCEPT !.aborted = TRUE].aborted = TRUE
  BY DEF Entries
<1>5. \A i \in 1 .. Len(queue) :
          /\ queue'[i] \in Entries
          /\ ~ queue'[i].aborted => queue'[i] = queue[i] /\ queue[i].client # c
          /\ queue[i].client # c => queue'[i] = queue[i]
  BY <1>1, <1>3, <1>4
<1>6. queue' \in Seq(Entries) /\ DOMAIN queue' = 1 .. Len(queue)
  <2> DEFINE E == Entries
  <2>1. queue' \in [1 .. Len(queue) -> E]
    BY <1>1, <1>3, <1>5
  <2> HIDE DEF E
  <2>2. queue' \in Seq(E) /\ DOMAIN queue' = 1 .. Len(queue)
    BY <1>3, <2>1
  <2>3. QED
    BY <2>2 DEF E
<1>7. \A d \in Clients : pending'[d] = IF d = c THEN "none" ELSE pending[d]
  BY <1>1, <1>2
<1>8. pending' \in [Clients -> {"none", "lock", "wait"}]
  BY <1>1, <1>2
<1>9. CountIsLockers' /\ count' \in Nat
  <2>1. Holders' = Holders
    BY <1>1 DEF Holders
  <2>2. Lockers' = Lockers \ {c}
    BY <1>7 DEF Lockers
  <2>3. CASE pending[c] = "lock"
    <3>1. c \in Lockers
      BY <2>3 DEF Lockers
    <3>2. Cardinality(Lockers \ {c}) = Cardinality(Lockers) - 1
      BY <3>1, ClientSubsets, FS_RemoveElement
    <3>3. Cardinality(Lockers') \in Nat
      BY <2>2, <3>2, ClientSubsets, FS_Subset, FS_CardinalityType
    <3>4. QED
      BY <1>1, <1>2, <2>1, <2>2, <2>3, <3>2, <3>3, ClientSubsets
         DEF SemInv, CountIsLockers
  <2>4. CASE pending[c] # "lock"
    <3>1. Lockers' = Lockers
      BY <2>2, <2>4 DEF Lockers
    <3>2. QED
      BY <1>1, <1>2, <2>1, <2>4, <3>1 DEF SemInv, CountIsLockers
  <2>5. QED
    BY <2>3, <2>4
<1>10. TypeOK'
  BY <1>1, <1>2, <1>6, <1>8, <1>9 DEF TypeOK
<1>11. WithinLimit'
  BY <1>1 DEF SemInv, WithinLimit, Units
<1>12. OneLiveEntry'
  <2>1. \A i \in 1 .. Len(queue) :
            ~ queue'[i].aborted => pending'[queue'[i].client] = queue'[i].kind
    <3> SUFFICES ASSUME NEW i \in 1 .. Len(queue), ~ queue'[i].aborted
                 PROVE  pending'[queue'[i].client] = queue'[i].kind
      OBVIOUS
    <3>1. queue'[i] = queue[i] /\ queue[i].client # c
      BY <1>5
    <3>2. pending[queue[i].client] = queue[i].kind
      BY <1>3, <3>1 DEF SemInv, OneLiveEntry
    <3>3. queue[i].client \in Clients
      BY <1>2, EntryFacts
    <3>4. QED
      BY <1>7, <3>1, <3>2, <3>3
  <2>2. \A i, j \in 1 .. Len(queue) :
            (/\ ~ queue'[i].aborted
             /\ ~ queue'[j].aborted
             /\ queue'[i].client = queue'[j].client) => i = j
    BY <1>3, <1>5 DEF SemInv, OneLiveEntry
  <2>3. \A d \in Clients : pending'[d] # "none" =>
            \E i \in 1 .. Len(queue) : queue'[i].client = d /\ ~ queue'[i].aborted
    BY <1>3, <1>5, <1>7 DEF SemInv, OneLiveEntry
  <2>4. \A d \in Clients : held'[d] > 0 => pending'[d] = "none"
    BY <1>1, <1>7 DEF SemInv, OneLiveEntry
  <2>5. QED
    BY <1>6, <2>1, <2>2, <2>3, <2>4 DEF OneLiveEntry
<1>13. QED
  BY <1>9, <1>10, <1>11, <1>12 DEF SemInv

\* A release gives back what was held, once.
LEMMA ReleaseStep ==
    ASSUME SemInv, NEW c \in Clients, Release(c)
    PROVE  SemInv'
<1>1. CASE UNCHANGED vars
  BY <1>1 DEF SemInv, vars, TypeOK, WithinLimit, CountIsLockers, OneLiveEntry,
              Units, Holders, Lockers
<1>2. CASE /\ held[c] > 0
           /\ count' = count - 1
           /\ currentWeight' = currentWeight - held[c]
           /\ held' = [held EXCEPT ![c] = 0]
           /\ stale' = stale \cup {c}
           /\ processing' = TRUE
           /\ UNCHANGED <<priority, queue, pending>>
  <2>1. /\ pending \in [Clients -> {"none", "lock", "wait"}] /\ count \in Nat
        /\ currentWeight \in Nat /\ stale \in SUBSET Clients /\ priority \in BOOLEAN
        /\ held \in [Clients -> Weights \cup {0}] /\ queue \in Seq(Entries)
    BY DEF SemInv, TypeOK
  <2>2. held[c] \in Nat /\ held[c] <= Limit /\ \A d \in Clients : held[d] \in Nat
    BY <2>1, HeldNat DEF SemInv, WithinLimit
  <2>3. \A d \in Clients : held'[d] = IF d = c THEN 0 ELSE held[d]
    BY <1>2, <2>1
  <2>4. /\ Cardinality(Units') = Cardinality(Units) - held[c]
        /\ held[c] <= Cardinality(Units)
    BY <1>2, <2>1, <2>2, ReleaseUnits
  <2>5. WithinLimit' /\ currentWeight' \in Nat
    <3>1. currentWeight' = Cardinality(Units') /\ currentWeight' \in Nat
      BY <1>2, <2>1, <2>2, <2>4 DEF SemInv, WithinLimit
    <3>2. currentWeight' <= Limit
      BY <1>2, <2>1, <2>2, SemaphoreAssumption DEF SemInv, WithinLimit
    <3>3. \A d \in Clients : held'[d] <= Limit
      BY <2>3, SemaphoreAssumption DEF SemInv, WithinLimit
    <3>4. QED
      BY <3>1, <3>2, <3>3 DEF WithinLimit
  <2>6. CountIsLockers' /\ count' \in Nat
    <3>1. Lockers' = Lockers
      BY <1>2 DEF Lockers
    <3>2. Holders' = Holders \ {c} /\ c \in Holders
      BY <1>2, <2>3 DEF Holders
    <3>3. Cardinality(Holders \ {c}) = Cardinality(Holders) - 1
      BY <3>2, ClientSubsets, FS_RemoveElement
    <3>4. Cardinality(Holders \ {c}) \in Nat
      BY ClientSubsets, FS_Subset, FS_CardinalityType
    <3>5. QED
      BY <1>2, <2>1, <3>1, <3>2, <3>3, <3>4, ClientSubsets DEF SemInv, CountIsLockers
  <2>7. held' \in [Clients -> Weights \cup {0}]
    BY <1>2, <2>1
  <2>8. TypeOK'
    BY <1>2, <2>1, <2>5, <2>6, <2>7 DEF TypeOK
  <2>9. OneLiveEntry'
    BY <1>2, <2>3 DEF SemInv, OneLiveEntry
  <2>10. QED
    BY <2>5, <2>6, <2>8, <2>9 DEF SemInv
<1>3. QED
  BY <1>1, <1>2 DEF Release, Released

LEMMA SemInvStep == SemInv /\ [Next]_vars => SemInv'
<1> SUFFICES ASSUME SemInv, [Next]_vars
             PROVE  SemInv'
  OBVIOUS
<1>1. ASSUME NEW c \in Clients, NEW kind \in {"lock", "wait"}, NEW w \in Weights,
             Call(c, kind, w)
      PROVE  SemInv'
  BY <1>1, CallStep
<1>2. ASSUME NEW c \in Clients, Abort(c)
      PROVE  SemInv'
  BY <1>2, AbortStep
<1>3. ASSUME NEW c \in Clients, Release(c)
      PROVE  SemInv'
  BY <1>3, ReleaseStep
<1>4. CASE Pop
  BY <1>4, PopStep
<1>5. CASE EndProcess
  BY <1>5 DEF EndProcess, SemInv, TypeOK, WithinLimit, CountIsLockers, OneLiveEntry,
              Units, Holders, Lockers
<1>6. CASE UNCHANGED vars
  BY <1>6 DEF vars, SemInv, TypeOK, WithinLimit, CountIsLockers, OneLiveEntry,
              Units, Holders, Lockers
<1>7. QED
  BY <1>1, <1>2, <1>3, <1>4, <1>5, <1>6 DEF Next

(***************************************************************************)
(* For any clients, limit and weights, Semaphore.ts never hands out more   *)
(* than its limit, its counts agree with the clients' view, and every      *)
(* waiting call keeps exactly one live entry of the queue.                 *)
(***************************************************************************)
THEOREM SemaphoreInvariant ==
    Spec => [](TypeOK /\ Accounting)
<1>1. Init => SemInv
  BY SemInvInit
<1>2. SemInv /\ [Next]_vars => SemInv'
  BY SemInvStep
<1>3. SemInv => TypeOK /\ Accounting
  BY DEF SemInv, Accounting
<1>4. QED
  BY <1>1, <1>2, <1>3, PTL DEF Spec

(***************************************************************************)
(* Whoever holds all of the limit is alone: the second holder would be one *)
(* unit too many.  For Lock.ts, a Semaphore of limit 1, two clients never  *)
(* hold it at the same time.                                               *)
(***************************************************************************)
THEOREM LockExcludes == Spec => []MutualExclusion
<1>1. TypeOK /\ WithinLimit => MutualExclusion
  <2> SUFFICES ASSUME TypeOK, WithinLimit,
                      NEW c \in Holders, NEW d \in Holders,
                      held[c] = Limit, c # d
               PROVE  FALSE
    BY DEF MutualExclusion
  <2> DEFINE L == 1 .. Limit
             B == {c} \X L
             u == <<d, 1>>
  <2>1. c \in Clients /\ d \in Clients /\ held[d] >= 1 /\ Limit \in Nat \ {0}
    BY HeldNat, SemaphoreAssumption DEF Holders, TypeOK
  <2>2. B \subseteq Units /\ u \in Units /\ u \notin B
    BY <2>1 DEF Units
  <2>3. IsFiniteSet(B) /\ Cardinality(B) = Limit
    <3>1. IsFiniteSet(L) /\ Cardinality(L) = Limit
      BY <2>1, FS_Interval
    <3>2. IsFiniteSet({c}) /\ Cardinality({c}) = 1
      BY FS_Singleton
    <3> HIDE DEF L
    <3>3. IsFiniteSet(B) /\ Cardinality(B) = 1 * Limit
      BY <3>1, <3>2, FS_Product
    <3>4. QED
      BY <2>1, <3>3
  <2> HIDE DEF B, u
  <2>4. Cardinality(B \cup {u}) = Limit + 1
    BY <2>2, <2>3, FS_AddElement
  <2>5. Cardinality(B \cup {u}) <= Cardinality(Units)
    <3>1. B \cup {u} \subseteq Units
      BY <2>2
    <3>2. QED
      BY <3>1, UnitsFinite, FS_Subset
  <2>6. QED
    BY <2>1, <2>4, <2>5, UnitsFinite, FS_CardinalityType DEF WithinLimit
<1>2. TypeOK /\ Accounting => MutualExclusion
  BY <1>1 DEF Accounting
<1>3. QED
  BY <1>2, SemaphoreInvariant, PTL

-----------------------------------------------------------------------------
(* The order of the queue.                                                 *)

(* The insertion sort goes past the lighter entries and no further.        *)
LEMMA InsertedInOrder ==
    ASSUME priority, queue \in Seq(Entries), LightestFirst, NEW e \in Entries
    PROVE  LET q == Inserted(e)
           IN  \A i, j \in 1 .. Len(queue) + 1 : i < j => q[i].weight <= q[j].weight
<1> DEFINE q == Inserted(e)
           n == EntriesAhead(e.weight)
           w == e.weight
           L == Len(queue)
<1>0. \A x \in Entries : x.weight \in Weights /\ x.weight \in Nat
  <2>1. \A x \in Entries : x.weight \in Weights
    BY DEF Entries
  <2>2. \A x \in Weights : x \in Nat
    BY SemaphoreAssumption
  <2>3. QED
    BY <2>1, <2>2
<1>1. w \in Weights /\ w \in Nat /\ L \in Nat /\ DOMAIN queue = 1 .. L
  BY <1>0
<1>2. /\ n \in 0 .. L
      /\ \A i \in 1 .. n : q[i] = queue[i]
      /\ q[n + 1] = e
      /\ \A i \in n + 2 .. L + 1 : q[i] = queue[i - 1]
  BY InsertedFacts
<1>3. \A i \in 1 .. L : queue[i].weight \in Nat
  <2>1. \A i \in 1 .. L : queue[i] \in Entries
    OBVIOUS
  <2>2. QED
    BY <1>0, <2>1
<1>4. n \in Stops(w) /\ \A j \in Stops(w) : n <= j
  BY <1>1, EntriesAheadExists
<1> HIDE DEF q, n, w
<1>5. \A i \in 1 .. n : queue[i].weight < w
  <2> SUFFICES ASSUME NEW i \in 1 .. n, ~ (queue[i].weight < w)
               PROVE  FALSE
    OBVIOUS
  <2>1. i \in 1 .. L /\ i - 1 \in 0 .. L /\ i - 1 + 1 = i /\ i - 1 < n
    BY <1>1, <1>2
  <2>2. queue[i].weight >= w
    BY <1>1, <1>3, <2>1
  <2>3. i - 1 \in Stops(w)
    BY <2>1, <2>2 DEF Stops
  <2>4. QED
    BY <1>2, <1>4, <2>1, <2>3
<1>6. \A i, j \in 1 .. L : i < j => queue[i].weight <= queue[j].weight
  BY <1>1 DEF LightestFirst
<1>7. \A i \in n + 1 .. L : queue[i].weight >= w
  <2> SUFFICES ASSUME NEW i \in n + 1 .. L PROVE queue[i].weight >= w
    OBVIOUS
  <2>1. n + 1 \in 1 .. L /\ i \in 1 .. L /\ n < L
    BY <1>1, <1>2
  <2>2. queue[n + 1].weight >= w
    BY <1>4, <2>1 DEF Stops
  <2>3. CASE i = n + 1
    BY <2>2, <2>3
  <2>4. CASE i # n + 1
    <3>1. n + 1 < i
      BY <1>2, <2>1, <2>4
    <3>2. queue[n + 1].weight <= queue[i].weight
      BY <1>6, <2>1, <3>1
    <3>3. QED
      BY <1>1, <1>3, <2>1, <2>2, <3>2
  <2>5. QED
    BY <2>3, <2>4
<1>8. ASSUME NEW i \in 1 .. L + 1, NEW j \in 1 .. L + 1, i < j
      PROVE  q[i].weight <= q[j].weight
  <2>1. CASE j <= n
    <3>1. i \in 1 .. n /\ j \in 1 .. n /\ i \in 1 .. L /\ j \in 1 .. L
      BY <1>1, <1>2, <1>8, <2>1
    <3>2. QED
      BY <1>2, <1>6, <1>8, <3>1
  <2>2. CASE j = n + 1
    <3>1. i \in 1 .. n /\ i \in 1 .. L
      BY <1>1, <1>2, <1>8, <2>2
    <3>2. q[i].weight < w /\ q[j].weight = w
      BY <1>2, <1>5, <2>2, <3>1 DEF w
    <3>3. QED
      BY <1>1, <1>2, <1>3, <3>1, <3>2
  <2>3. CASE j > n + 1
    <3>1. j \in n + 2 .. L + 1 /\ j - 1 \in 1 .. L /\ j - 1 \in n + 1 .. L
      BY <1>1, <1>2, <2>3
    <3>2. q[j].weight = queue[j - 1].weight /\ queue[j - 1].weight >= w
      BY <1>2, <1>7, <3>1
    <3>3. CASE i \in 1 .. n
      <4>1. i \in 1 .. L /\ i < j - 1
        BY <1>1, <1>2, <1>8, <2>3, <3>3
      <4>2. QED
        BY <1>2, <1>6, <3>1, <3>2, <3>3, <4>1
    <3>4. CASE i = n + 1
      BY <1>1, <1>2, <1>3, <3>1, <3>2, <3>4 DEF w
    <3>5. CASE i > n + 1
      <4>1. i \in n + 2 .. L + 1 /\ i - 1 \in 1 .. L /\ i - 1 < j - 1
        BY <1>1, <1>2, <1>8, <3>5
      <4>2. q[i].weight = queue[i - 1].weight
        BY <1>2, <4>1
      <4>3. QED
        BY <1>6, <3>1, <3>2, <4>1, <4>2
    <3>6. QED
      BY <1>1, <1>2, <1>8, <3>3, <3>4, <3>5
  <2>4. QED
    BY <1>1, <1>2, <1>8, <2>1, <2>2, <2>3
<1>9. QED
  BY <1>1, <1>8 DEF q

LEMMA OrderStep == SemInv /\ LightestFirst /\ [Next]_vars => LightestFirst'
<1> SUFFICES ASSUME SemInv, LightestFirst, [Next]_vars PROVE LightestFirst'
  OBVIOUS
<1>1. queue \in Seq(Entries) /\ Len(queue) \in Nat /\ DOMAIN queue = 1 .. Len(queue)
  BY DEF SemInv, TypeOK
<1>2. CASE queue' = queue /\ priority' = priority
  BY <1>2 DEF LightestFirst
<1>3. ASSUME NEW c \in Clients, NEW kind \in {"lock", "wait"}, NEW w \in Weights,
             Call(c, kind, w)
      PROVE  LightestFirst'
  <2> DEFINE e == [client |-> c, kind |-> kind, weight |-> w, aborted |-> FALSE]
  <2>1. e \in Entries
    BY DEF Entries
  <2>2. queue' = Inserted(e) /\ priority' = priority
    BY <1>3 DEF Call
  <2> HIDE DEF e
  <2>3. DOMAIN queue' = 1 .. Len(queue) + 1
    BY <1>1, <2>2 DEF Inserted
  <2>4. priority => \A i, j \in 1 .. Len(queue) + 1 : i < j => queue'[i].weight <= queue'[j].weight
    BY <1>1, <2>1, <2>2, InsertedInOrder
  <2>5. QED
    BY <2>2, <2>3, <2>4 DEF LightestFirst
<1>4. ASSUME NEW c \in Clients, Abort(c)
      PROVE  LightestFirst'
  <2>1. /\ DOMAIN queue' = DOMAIN queue /\ priority' = priority
        /\ \A i \in DOMAIN queue :
              queue'[i] = IF queue[i].client = c THEN [queue[i] EXCEPT !.aborted = TRUE] ELSE queue[i]
    BY <1>4 DEF Abort
  <2>2. \A x \in Entries : [x EXCEPT !.aborted = TRUE].weight = x.weight
    BY DEF Entries
  <2>3. \A i \in DOMAIN queue : queue[i] \in Entries
    BY <1>1
  <2>4. \A i \in DOMAIN queue : queue'[i].weight = queue[i].weight
    BY <2>1, <2>2, <2>3
  <2>5. QED
    BY <2>1, <2>4 DEF LightestFirst
<1>5. CASE Pop
  <2>1. queue # <<>> /\ queue' = Tail(queue) /\ priority' = priority
    BY <1>5 DEF Pop
  <2>2. /\ queue' \in Seq(Entries) /\ Len(queue') = Len(queue) - 1 /\ DOMAIN queue' = 1 .. Len(queue')
        /\ \A i \in 1 .. Len(queue') : i + 1 \in DOMAIN queue /\ queue'[i] = queue[i + 1]
    BY <1>1, <2>1
  <2>3. \A i, j \in DOMAIN queue' : i < j => i + 1 < j + 1
    BY <2>2
  <2>4. QED
    BY <2>1, <2>2, <2>3 DEF LightestFirst
<1>6. QED
  BY <1>2, <1>3, <1>4, <1>5 DEF Next, vars, Release, Released, EndProcess

(* With priority, the queue is always sorted: a call is granted before all *)
(* that are heavier, whatever was inserted, granted or aborted.            *)
THEOREM QueueInOrder == Spec => []LightestFirst
<1>1. Init => SemInv /\ LightestFirst
  <2>1. Init => LightestFirst
    BY DEF Init, LightestFirst
  <2>2. QED
    BY <2>1, SemInvInit
<1>2. SemInv /\ LightestFirst /\ [Next]_vars => (SemInv /\ LightestFirst)'
  BY SemInvStep, OrderStep
<1>3. QED
  BY <1>1, <1>2, PTL DEF Spec

-----------------------------------------------------------------------------
(***************************************************************************)
(* The call around it: lock and waitForUnlock run under timedCancellable.  *)
(***************************************************************************)

\* A Timer by itself: it holds a timeout exactly until it fires or settles,
\* and only a lazy one whose handler runs outlives its cancellation.
TimerOK(t) ==
    /\ t.armed # "no" <=> t.status = "null"
    /\ t.status = "settled" => t.p # "pending"
    /\ t.cancelled => t.status = "settled" \/ (t.lazy /\ t.status = "settling")
    /\ t.handling => t.status # "null"

\* A call by itself: nothing has happened to it before it was made; its own
\* timer is not lazy.
CallOK ==
    /\ phase = "before" => aborted = "no" /\ p = "pending" /\ target = "none" /\ ~ listening
    /\ "timer" \notin given => ~ timer.lazy
    /\ wrapper = "cancellable" => "timer" \notin given
    /\ upSignal => "signal" \in given

CtxInv == CtxTypeOK /\ TimerOK(timer) /\ CallOK /\ NothingLeft /\ ResultOfTarget

LEMMA CancelledFacts ==
    ASSUME NEW t \in Timers, TimerOK(t)
    PROVE  /\ Cancelled(t) \in Timers
           /\ TimerOK(Cancelled(t))
           /\ Cancelled(t).armed = "no"
           /\ Cancelled(t).lazy = t.lazy
           /\ ~ t.lazy => Cancelled(t).status = "settled"
BY DEF Timers, TimerOK, Cancelled

\* A timer that fires, and one whose handler has ended.
LEMMA FiredFacts ==
    ASSUME NEW t \in Timers, TimerOK(t)
    PROVE  /\ t.status = "null" =>
                 /\ Fired(t) \in Timers /\ TimerOK(Fired(t))
                 /\ Fired(t).armed = "no" /\ Fired(t).lazy = t.lazy
           /\ t.handling => \A result \in {"resolved", "rejected"} :
                 /\ Handled(t, result) \in Timers /\ TimerOK(Handled(t, result))
                 /\ Handled(t, result).armed = "no" /\ Handled(t, result).lazy = t.lazy
                 /\ Handled(t, result).status = "settled"
BY DEF Timers, TimerOK, Fired, Handled

\* What an abort does: the first one counts, an eager call that is pending ends
\* with its reason, and the timer of a call that inherits nothing is cancelled.
LEMMA SignalFacts ==
    ASSUME CtxInv, NEW reason \in Reasons, NEW t \in Timers, TimerOK(t), t.lazy = timer.lazy,
           Signal(reason, t)
    PROVE  /\ timer' \in Timers /\ TimerOK(timer') /\ timer'.lazy = timer.lazy
           /\ t.armed = "no" => timer'.armed = "no"
           /\ ~ t.lazy /\ t.status = "settled" => timer'.status = "settled"
           /\ aborted = "no" /\ Owns /\ given = {} => timer'.armed = "no"
           /\ t = timer /\ ~ (aborted = "no" /\ Owns /\ given = {}) => timer' = timer
           /\ aborted' \in Reasons /\ (aborted # "no" => aborted' = aborted)
           /\ aborted = "no" => aborted' = reason
           /\ p' = p \/ (Eager /\ p = "pending" /\ p' = aborted')
<1>1. /\ Cancelled(t) \in Timers /\ TimerOK(Cancelled(t)) /\ Cancelled(t).armed = "no"
      /\ Cancelled(t).lazy = t.lazy /\ (~ t.lazy => Cancelled(t).status = "settled")
  BY CancelledFacts
<1>2. timer' = IF aborted = "no" /\ Owns /\ given = {} THEN Cancelled(t) ELSE t
  BY DEF Signal
<1>3. aborted \in {"no"} \cup Reasons
  BY DEF CtxInv, CtxTypeOK
<1>4. /\ aborted' = IF aborted = "no" THEN reason ELSE aborted
      /\ p' = IF aborted = "no" /\ Eager /\ p = "pending" THEN reason ELSE p
  BY DEF Signal
<1>5. QED
  BY <1>1, <1>2, <1>3, <1>4

\* An action that leaves the phase and the result of the function alone.
LEMMA CtxKept ==
    ASSUME CtxInv, UNCHANGED <<parameters, phase, target, listening>>,
           upSignal' \in BOOLEAN, upSignal' => "signal" \in given, noticed' \in BOOLEAN,
           timer' \in Timers, TimerOK(timer'), timer'.lazy = timer.lazy,
           timer.status = "settled" /\ ~ timer.lazy => timer'.status = "settled",
           aborted' \in {"no"} \cup Reasons, aborted # "no" => aborted' = aborted,
           phase = "before" => aborted' = aborted /\ p' = p,
           p' = p \/ (Eager /\ p = "pending" /\ p' = aborted' /\ aborted' # "no"),
           Owns /\ aborted' # "no" /\ ~ (given = {"signal"} /\ aborted' = "cancel") =>
              timer'.armed = "no"
    PROVE  CtxInv'
<1>1. CtxTypeOK /\ CallOK /\ NothingLeft /\ ResultOfTarget
  BY DEF CtxInv
<1>2. UNCHANGED <<wrapper, lazy, given, phase, target, listening>>
  BY DEF parameters
<1>3. CtxTypeOK'
  BY <1>1, <1>2 DEF CtxTypeOK
<1>4. CallOK'
  BY <1>1, <1>2 DEF CallOK, CtxTypeOK
<1>5. (Owns' <=> Owns) /\ (Eager' <=> Eager)
  BY <1>2 DEF Owns, Eager
<1>6. NothingLeft'
  <2>1. /\ timer'.armed # "no" <=> timer'.status = "null"
        /\ timer'.status = "settled" => timer'.p # "pending"
    BY DEF TimerOK
  <2>2. Owns => ~ timer.lazy
    BY <1>1 DEF CallOK, Owns
  <2>3. phase' = "ended" => ~ listening' /\ (Owns => timer'.status = "settled")
    BY <1>1, <1>2, <2>2 DEF NothingLeft
  <2>4. QED
    BY <1>2, <1>5, <2>1, <2>3 DEF NothingLeft
<1>7. ResultOfTarget'
  BY <1>1, <1>2, <1>5 DEF ResultOfTarget, CtxTypeOK, Reasons
<1>8. QED
  BY <1>3, <1>4, <1>6, <1>7 DEF CtxInv

LEMMA CtxInvInit == CtxInit => CtxInv
<1> SUFFICES ASSUME CtxInit
             PROVE  CtxInv
  OBVIOUS
<1>1. PICK d \in {"timeout", "interval"}, l \in BOOLEAN : timer = NewTimer(d, l)
  BY DEF CtxInit
<1>2. timer \in Timers /\ TimerOK(timer) /\ timer.status = "null"
  BY <1>1 DEF NewTimer, Timers, TimerOK
<1>3. CtxTypeOK
  <2>1. /\ wrapper \in {"timedCancellable", "timed", "cancellable"}
        /\ lazy \in BOOLEAN /\ given \in SUBSET {"signal", "timer"} /\ upSignal \in BOOLEAN
        /\ phase = "before" /\ target = "none" /\ aborted = "no" /\ p = "pending"
        /\ listening = FALSE /\ noticed = FALSE
    BY DEF CtxInit
  <2>2. QED
    BY <1>2, <2>1 DEF CtxTypeOK
<1>4. CallOK
  BY DEF CtxInit, CallOK
<1>5. NothingLeft
  BY <1>2 DEF CtxInit, NothingLeft, TimerOK
<1>6. ResultOfTarget
  BY DEF CtxInit, ResultOfTarget, Reasons
<1>7. QED
  BY <1>2, <1>3, <1>4, <1>5, <1>6 DEF CtxInv

LEMMA CtxInvNext == CtxInv /\ [CtxNext]_ctxVars => CtxInv'
<1> SUFFICES ASSUME CtxInv, [CtxNext]_ctxVars
             PROVE  CtxInv'
  OBVIOUS
<1>1. /\ CtxTypeOK /\ CallOK /\ NothingLeft /\ ResultOfTarget
      /\ timer \in Timers /\ TimerOK(timer)
  BY DEF CtxInv, CtxTypeOK
<1>2. /\ Owns => ~ timer.lazy /\ given \in {{}, {"signal"}}
      /\ aborted \in {"no"} \cup Reasons
      /\ upSignal \in BOOLEAN /\ noticed \in BOOLEAN
      /\ upSignal => "signal" \in given
      /\ phase = "before" => aborted = "no" /\ ~ listening
  BY <1>1 DEF CallOK, Owns, CtxTypeOK
<1>3. /\ Cancelled(timer) \in Timers /\ TimerOK(Cancelled(timer))
      /\ Cancelled(timer).armed = "no" /\ Cancelled(timer).lazy = timer.lazy
      /\ ~ timer.lazy => Cancelled(timer).status = "settled"
  BY <1>1, CancelledFacts
<1>4. Owns /\ aborted # "no" /\ ~ (given = {"signal"} /\ aborted = "cancel") =>
         timer.armed = "no"
  BY <1>1 DEF NothingLeft
<1>5. Inherits => ~ Owns
  BY DEF Inherits, Owns
<1>6. CASE Setup
  <2>1. /\ phase = "before" /\ phase' = "running" /\ target' = "running"
        /\ aborted' = IF upSignal THEN "upstream" ELSE "no"
        /\ p' = IF upSignal /\ Eager THEN "upstream" ELSE "pending"
        /\ timer' = IF upSignal /\ Owns THEN Cancelled(timer) ELSE timer
        /\ listening' = (Follows /\ ~ upSignal)
        /\ UNCHANGED <<wrapper, lazy, given, upSignal, noticed>>
    BY <1>6 DEF Setup, parameters
  <2>2. timer' \in Timers /\ TimerOK(timer') /\ timer'.lazy = timer.lazy
    BY <1>1, <1>3, <2>1
  <2>3. upSignal /\ Owns => timer'.armed = "no"
    BY <1>3, <2>1
  <2>4. (Owns' <=> Owns) /\ (Eager' <=> Eager)
    BY <2>1 DEF Owns, Eager
  <2>5. CtxTypeOK'
    BY <1>1, <2>1, <2>2 DEF CtxTypeOK, Reasons
  <2>6. CallOK'
    BY <1>1, <2>1, <2>2 DEF CallOK
  <2>7. NothingLeft'
    BY <2>1, <2>2, <2>3, <2>4 DEF NothingLeft, TimerOK
  <2>8. ResultOfTarget'
    BY <2>1, <2>4 DEF ResultOfTarget, Reasons
  <2>9. QED
    BY <2>2, <2>5, <2>6, <2>7, <2>8 DEF CtxInv
<1>7. CASE AbortUpstream
  <2>1. /\ "signal" \in given /\ upSignal' = TRUE /\ Heard(timer)
        /\ UNCHANGED <<parameters, phase, target, listening, noticed>>
    BY <1>7 DEF AbortUpstream
  <2>2. CASE listening \/ (Direct /\ phase # "before")
    <3> DEFINE t == IF Owns THEN Cancelled(timer) ELSE timer
    <3>1. t \in Timers /\ TimerOK(t) /\ t.lazy = timer.lazy /\ (Owns => t.armed = "no")
      BY <1>1, <1>3
    <3>2. ~ timer.lazy /\ timer.status = "settled" => t.status = "settled"
      BY <1>3
    <3>3. Signal("upstream", t)
      BY <2>1, <2>2 DEF Heard
    <3> HIDE DEF t
    <3>4. "upstream" \in Reasons /\ phase # "before"
      BY <1>2, <2>2 DEF Reasons
    <3>5. QED
      BY <1>2, <2>1, <3>1, <3>2, <3>3, <3>4, SignalFacts, CtxKept DEF Reasons
  <2>3. CASE ~ (listening \/ (Direct /\ phase # "before"))
    <3>1. timer' = timer /\ aborted' = aborted /\ p' = p
      BY <2>1, <2>3 DEF Heard
    <3>2. QED
      BY <1>1, <1>2, <1>4, <2>1, <3>1, CtxKept
  <2>4. QED
    BY <2>2, <2>3
<1>8. CASE Cancel
  <2>1. /\ phase # "before" /\ Signal("cancel", timer)
        /\ UNCHANGED <<parameters, upSignal, phase, target, listening, noticed>>
    BY <1>8 DEF Cancel
  <2>2. "cancel" \in Reasons /\ "no" \notin Reasons
    BY DEF Reasons
  <2>3. /\ timer' \in Timers /\ TimerOK(timer') /\ timer'.lazy = timer.lazy
        /\ timer.armed = "no" => timer'.armed = "no"
        /\ ~ timer.lazy /\ timer.status = "settled" => timer'.status = "settled"
        /\ aborted = "no" /\ Owns /\ given = {} => timer'.armed = "no"
        /\ aborted' \in Reasons /\ (aborted # "no" => aborted' = aborted)
        /\ aborted = "no" => aborted' = "cancel"
        /\ p' = p \/ (Eager /\ p = "pending" /\ p' = aborted')
    BY <1>1, <2>1, <2>2, SignalFacts
  <2>4. Owns /\ aborted' # "no" /\ ~ (given = {"signal"} /\ aborted' = "cancel") =>
           timer'.armed = "no"
    BY <1>2, <1>4, <2>3
  <2>5. QED
    BY <1>2, <2>1, <2>2, <2>3, <2>4, CtxKept
<1>9. CASE Fire
  <2>1. /\ Exists /\ timer.armed = "timeout"
        /\ UNCHANGED <<parameters, phase, target, listening, noticed>>
    BY <1>9 DEF Fire
  <2>2. /\ Fired(timer) \in Timers /\ TimerOK(Fired(timer)) /\ timer.status = "null"
        /\ Fired(timer).armed = "no" /\ Fired(timer).lazy = timer.lazy
    BY <1>1, <2>1, FiredFacts DEF TimerOK
  <2>3. "timeout" \in Reasons /\ "upstream" \in Reasons /\ "no" \notin Reasons
    BY DEF Reasons
  <2>4. CASE Owns /\ Signal("timeout", Fired(timer)) /\ UNCHANGED upSignal
    <3>1. phase # "before"
      BY <2>1, <2>4 DEF Exists, Owns
    <3>2. QED
      BY <1>2, <2>1, <2>2, <2>3, <2>4, <3>1, SignalFacts, CtxKept
  <2>5. CASE /\ ~ Owns /\ upSignal' = ("signal" \in given)
             /\ upSignal' /\ ~ upSignal /\ Heard(Fired(timer))
    <3>1. CASE listening \/ (Direct /\ phase # "before")
      <4>1. Signal("upstream", Fired(timer)) /\ phase # "before"
        BY <1>2, <2>5, <3>1 DEF Heard
      <4>2. QED
        BY <1>2, <2>1, <2>2, <2>3, <2>5, <4>1, SignalFacts, CtxKept
    <3>2. CASE ~ (listening \/ (Direct /\ phase # "before"))
      <4>1. timer' = Fired(timer) /\ aborted' = aborted /\ p' = p
        BY <2>5, <3>2 DEF Heard
      <4>2. QED
        BY <1>2, <2>1, <2>2, <2>5, <4>1, CtxKept
    <3>3. QED
      BY <3>1, <3>2
  <2>6. CASE /\ ~ Owns /\ upSignal' = ("signal" \in given)
             /\ timer' = Fired(timer) /\ UNCHANGED <<aborted, p>>
    BY <1>2, <2>1, <2>2, <2>6, CtxKept
  <2>7. QED
    BY <1>9, <2>4, <2>5, <2>6 DEF Fire
<1>10. CASE Handle
  <2>1. /\ timer.handling
        /\ UNCHANGED <<parameters, upSignal, phase, target, aborted, p, listening, noticed>>
    BY <1>10 DEF Handle
  <2>2. PICK result \in {"resolved", "rejected"} : timer' = Handled(timer, result)
    BY <1>10 DEF Handle
  <2>3. /\ timer' \in Timers /\ TimerOK(timer') /\ timer'.armed = "no"
        /\ timer'.lazy = timer.lazy /\ timer'.status = "settled"
    BY <1>1, <2>1, <2>2, FiredFacts
  <2>4. QED
    BY <1>2, <2>1, <2>3, CtxKept
<1>11. CASE CancelTimer
  BY <1>2, <1>3, <1>11, CtxKept DEF CancelTimer
<1>12. CASE Reset
  <2>1. /\ timer.status = "null"
        /\ UNCHANGED <<parameters, upSignal, phase, target, aborted, p, listening, noticed>>
    BY <1>12 DEF Reset
  <2>2. PICK delay \in {"timeout", "interval"} : timer' = [timer EXCEPT !.armed = delay]
    BY <1>12 DEF Reset
  <2>3. timer' \in Timers /\ TimerOK(timer') /\ timer'.lazy = timer.lazy
    BY <1>1, <2>1, <2>2 DEF Timers, TimerOK
  <2>4. timer.armed # "no"
    BY <1>1, <2>1 DEF TimerOK
  <2>5. QED
    BY <1>2, <1>4, <2>1, <2>3, <2>4, CtxKept
<1>13. CASE Notice
  <2>1. /\ ~ Owns /\ phase # "before" /\ noticed' = TRUE
        /\ UNCHANGED <<parameters, upSignal, phase, target, listening>>
        /\ Signal("timeout", timer) \/ UNCHANGED <<aborted, p, timer>>
    BY <1>5, <1>13 DEF Notice
  <2>2. "timeout" \in Reasons /\ "no" \notin Reasons
    BY DEF Reasons
  <2>3. CASE Signal("timeout", timer)
    BY <1>1, <1>2, <2>1, <2>2, <2>3, SignalFacts, CtxKept
  <2>4. CASE UNCHANGED <<aborted, p, timer>>
    BY <1>1, <1>2, <1>4, <2>1, <2>4, CtxKept
  <2>5. QED
    BY <2>1, <2>3, <2>4
<1>14. CASE Finish \/ Settle \/ Teardown
  <2>1. UNCHANGED <<wrapper, lazy, given, upSignal, aborted, noticed>>
    BY <1>14 DEF Finish, Settle, Teardown, parameters
  <2>2. (Owns' <=> Owns) /\ (Eager' <=> Eager)
    BY <2>1 DEF Owns, Eager
  <2>3. /\ timer' = IF Teardown /\ Owns THEN Cancelled(timer) ELSE timer
        /\ Teardown => phase' = "ended" /\ ~ listening'
        /\ ~ Teardown => phase' = phase /\ listening' = listening
    BY <1>14 DEF Finish, Settle, Teardown
  <2>4. timer' \in Timers /\ TimerOK(timer') /\ timer'.lazy = timer.lazy
    BY <1>1, <1>3, <2>3
  <2>5. CtxTypeOK'
    BY <1>1, <1>14, <2>1, <2>4 DEF CtxTypeOK, Finish, Settle, Teardown
  <2>6. CallOK'
    BY <1>1, <1>14, <2>1, <2>4 DEF CallOK, Finish, Settle, Teardown
  <2>7. NothingLeft'
    <3>1. phase' = "ended" => ~ listening' /\ (Owns => timer'.status = "settled")
      BY <1>1, <1>2, <1>3, <2>3 DEF NothingLeft
    <3>2. timer.armed = "no" => timer'.armed = "no"
      BY <1>3, <2>3
    <3>3. QED
      BY <1>4, <2>1, <2>2, <2>4, <3>1, <3>2 DEF NothingLeft, TimerOK
  <2>8. ResultOfTarget'
    BY <1>1, <1>14, <2>1, <2>2 DEF ResultOfTarget, Finish, Settle, Teardown, Reasons
  <2>9. QED
    BY <2>4, <2>5, <2>6, <2>7, <2>8 DEF CtxInv
<1>15. CASE UNCHANGED ctxVars
  BY <1>1, <1>2, <1>4, <1>15, CtxKept DEF ctxVars
<1>16. QED
  BY <1>6, <1>7, <1>8, <1>9, <1>10, <1>11, <1>12, <1>13, <1>14, <1>15 DEF CtxNext

LEMMA CtxInvariant == CtxSpec => []CtxInv
BY CtxInvInit, CtxInvNext, PTL DEF CtxSpec

\* Whatever fires, is cancelled or reset, and in whichever order: the call's own
\* timer holds no timeout once the call has ended or was told to, and nothing of
\* it is left with the caller's signal.
THEOREM ContextLeavesNothing == CtxSpec => []NothingLeft
<1>1. CtxInv => NothingLeft
  BY DEF CtxInv
<1>2. QED
  BY <1>1, CtxInvariant, PTL

\* A call ends with the result of its function, or with the reason of the abort
\* that the function was told of.
THEOREM ContextTellsTarget == CtxSpec => []ResultOfTarget
<1>1. CtxInv => ResultOfTarget
  BY DEF CtxInv
<1>2. QED
  BY <1>1, CtxInvariant, PTL

\* After its end no timer and no signal of the caller aborts the call.
THEOREM ContextIsQuiet == CtxSpec => QuietAfterEnd
<1> DEFINE Kept == (phase = "ended" /\ aborted = "no" /\ ~ Direct) =>
                       aborted' \in {"no", "cancel"}
<1>1. CtxInv /\ [CtxNext]_ctxVars => [Kept]_ctxVars
  <2> SUFFICES ASSUME CtxInv, CtxNext, phase = "ended", aborted = "no", ~ Direct
               PROVE  aborted' \in {"no", "cancel"}
    OBVIOUS
  <2>1. ~ listening /\ (Owns => timer.armed = "no")
    BY DEF CtxInv, NothingLeft
  <2>2. \A t : Heard(t) => aborted' = aborted
    BY <2>1 DEF Heard
  <2>3. CASE Fire
    BY <2>1, <2>2, <2>3 DEF Fire
  <2>4. CASE AbortUpstream
    BY <2>2, <2>4 DEF AbortUpstream
  <2>5. CASE Cancel
    BY <2>5 DEF Cancel, Signal
  <2>6. CASE Notice
    BY <2>6 DEF Notice
  <2>7. CASE Setup
    BY <2>7 DEF Setup
  <2>8. CASE Handle \/ CancelTimer \/ Reset \/ Finish \/ Settle \/ Teardown
    BY <2>8 DEF Handle, CancelTimer, Reset, Finish, Settle, Teardown
  <2>9. QED
    BY <2>3, <2>4, <2>5, <2>6, <2>7, <2>8 DEF CtxNext
<1> HIDE DEF Kept
<1>2. CtxSpec => [][Kept]_ctxVars
  BY <1>1, CtxInvariant, PTL DEF CtxSpec
<1>3. QED
  BY <1>2 DEF Kept, QuietAfterEnd
=============================================================================
