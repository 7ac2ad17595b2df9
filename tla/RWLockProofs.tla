--------------------------- MODULE RWLockProofs ---------------------------
(***************************************************************************)
(* Proofs about RWLock, for any finite set of clients and both variants.   *)
(***************************************************************************)
EXTENDS RWLock, FiniteSetTheorems, NaturalsInduction, TLAPS

-----------------------------------------------------------------------------
(* The queue of one Lock, seen through its entries and their order.        *)

Kinds == {"read", "write", "wait"}

Call(c, k) == [client |-> c, kind |-> k]

Has(q, c, k) == \E i \in DOMAIN q : q[i] = Call(c, k)

\* A client waits once.
Single(q) == \A i, j \in DOMAIN q : q[i].client = q[j].client => i = j

\* A writer waits before the client.
Precedes(q, w, c) ==
    \E i, j \in DOMAIN q : i < j /\ q[i] = Call(w, "write") /\ q[j].client = c

LEMMA HoldsNotNone ==
    \A c \in Clients : /\ <<c, "read">> # None /\ <<c, "read">> \in Holds
                       /\ <<c, "write">> # None /\ <<c, "write">> \in Holds
BY RWLockAssumption DEF Holds

LEMMA CallFacts ==
    /\ \A c \in Clients, k \in Kinds :
          /\ Call(c, k) \in Entries
          /\ Call(c, k).client = c
          /\ Call(c, k).kind = k
    /\ \A e \in Entries : /\ e.client \in Clients
                          /\ e.kind \in Kinds
                          /\ e = Call(e.client, e.kind)
<1>1. \A c \in Clients, k \in Kinds :
         /\ Call(c, k) \in Entries
         /\ Call(c, k).client = c
         /\ Call(c, k).kind = k
  BY DEF Call, Entries, Kinds
<1>2. ASSUME NEW e \in Entries
      PROVE  e.client \in Clients /\ e.kind \in Kinds /\ e = Call(e.client, e.kind)
  BY <1>2 DEF Call, Entries, Kinds
<1>3. QED
  BY <1>1, <1>2

LEMMA QueueFacts ==
    ASSUME NEW q \in Seq(Entries)
    PROVE  /\ Len(q) \in Nat
           /\ DOMAIN q = 1 .. Len(q)
           /\ \A i \in 1 .. Len(q) : /\ q[i] \in Entries
                                     /\ q[i].client \in Clients
                                     /\ q[i].kind \in Kinds
                                     /\ q[i] = Call(q[i].client, q[i].kind)
<1>1. Len(q) \in Nat /\ DOMAIN q = 1 .. Len(q)
  OBVIOUS
<1>2. \A i \in 1 .. Len(q) : q[i] \in Entries
  <2> DEFINE E == Entries
  <2> HIDE DEF E
  <2>1. q \in Seq(E)
    BY DEF E
  <2>2. \A i \in 1 .. Len(q) : q[i] \in E
    BY <2>1
  <2>3. QED
    BY <2>2 DEF E
<1>3. QED
  BY <1>1, <1>2, CallFacts

LEMMA AppendFacts ==
    ASSUME NEW q \in Seq(Entries), Single(q),
           NEW c \in Clients, NEW k \in Kinds, \A j \in Kinds : ~ Has(q, c, j)
    PROVE  LET r == Append(q, Call(c, k))
           IN  /\ r \in Seq(Entries) /\ r # <<>> /\ Single(r)
               /\ \A d \in Clients, j \in Kinds :
                     Has(r, d, j) <=> Has(q, d, j) \/ (d = c /\ j = k)
               /\ \A w, d \in Clients : Precedes(q, w, d) => Precedes(r, w, d)
               /\ \A w \in Clients : Has(q, w, "write") => Precedes(r, w, c)
<1> DEFINE r == Append(q, Call(c, k))
           n == Len(q)
           e == Call(c, k)
<1>1. e \in Entries /\ e.client = c /\ e.kind = k
  BY CallFacts
<1>2. n \in Nat /\ DOMAIN q = 1 .. n
  BY QueueFacts
<1>3. r \in Seq(Entries) /\ Len(r) = n + 1 /\ DOMAIN r = 1 .. n + 1
  <2> DEFINE E == Entries
  <2>1. q \in Seq(E) /\ e \in E
    BY <1>1
  <2> HIDE DEF E, e
  <2>2. Append(q, e) \in Seq(E) /\ Len(Append(q, e)) = n + 1
    BY <2>1
  <2>3. QED
    BY <2>2 DEF E, e
<1>4. \A i \in 1 .. n : r[i] = q[i] /\ q[i].client # c
  <2>1. \A i \in 1 .. n : r[i] = q[i]
    BY <1>2
  <2>2. \A i \in 1 .. n : q[i].client # c
    BY <1>2, QueueFacts DEF Has
  <2>3. QED
    BY <2>1, <2>2
<1>5. r[n + 1] = e
  BY <1>2
<1> HIDE DEF r, n, e
<1>6. r # <<>>
  BY <1>2, <1>3
<1>7. Single(r)
  <2> SUFFICES ASSUME NEW i \in 1 .. n + 1, NEW j \in 1 .. n + 1,
                      r[i].client = r[j].client
               PROVE  i = j
    BY <1>3 DEF Single
  <2>1. CASE i \in 1 .. n /\ j \in 1 .. n
    BY <1>2, <1>4, <2>1 DEF Single
  <2>2. CASE i = n + 1 \/ j = n + 1
    BY <1>1, <1>2, <1>4, <1>5, <2>2
  <2>3. QED
    BY <1>2, <2>1, <2>2
<1>8. \A d \in Clients, j \in Kinds : Has(r, d, j) <=> Has(q, d, j) \/ (d = c /\ j = k)
  <2> SUFFICES ASSUME NEW d \in Clients, NEW j \in Kinds
               PROVE  Has(r, d, j) <=> Has(q, d, j) \/ (d = c /\ j = k)
    OBVIOUS
  <2>1. e = Call(d, j) <=> d = c /\ j = k
    BY <1>1, CallFacts DEF e
  <2>2. Has(r, d, j) <=> Has(q, d, j) \/ e = Call(d, j)
    <3>1. \A i \in 1 .. n + 1 : i \in 1 .. n \/ i = n + 1
      BY <1>2
    <3>2. 1 .. n \subseteq 1 .. n + 1 /\ n + 1 \in 1 .. n + 1
      BY <1>2
    <3>3. QED
      BY <1>2, <1>3, <1>4, <1>5, <3>1, <3>2 DEF Has
  <2>3. QED
    BY <2>1, <2>2
<1>9. \A w, d \in Clients : Precedes(q, w, d) => Precedes(r, w, d)
  BY <1>2, <1>3, <1>4 DEF Precedes
<1>10. \A w \in Clients : Has(q, w, "write") => Precedes(r, w, c)
  <2> SUFFICES ASSUME NEW w \in Clients, NEW i \in 1 .. n, q[i] = Call(w, "write")
               PROVE  Precedes(r, w, c)
    BY <1>2 DEF Has
  <2>1. i \in 1 .. n + 1 /\ n + 1 \in 1 .. n + 1 /\ i < n + 1
    BY <1>2
  <2>2. r[i] = Call(w, "write") /\ r[n + 1].client = c
    BY <1>1, <1>4, <1>5
  <2>3. QED
    BY <1>3, <2>1, <2>2 DEF Precedes
<1>11. QED
  BY <1>3, <1>6, <1>7, <1>8, <1>9, <1>10 DEF r, e

LEMMA WithoutFacts ==
    ASSUME NEW q \in Seq(Entries), Single(q), NEW c \in Clients
    PROVE  LET r == Without(q, c)
           IN  /\ r \in Seq(Entries) /\ Single(r) /\ (r # <<>> => q # <<>>)
               /\ \A d \in Clients, j \in Kinds : Has(r, d, j) <=> Has(q, d, j) /\ d # c
               /\ \A w, d \in Clients :
                     Precedes(q, w, d) /\ w # c /\ d # c => Precedes(r, w, d)
<1> DEFINE r == Without(q, c)
           n == Len(q)
<1>1. n \in Nat /\ DOMAIN q = 1 .. n
  BY QueueFacts
<1>2. CASE ~ \E j \in DOMAIN q : q[j].client = c
  <2>1. r = q
    BY <1>2 DEF Without
  <2>2. \A d \in Clients, j \in Kinds : Has(q, d, j) => d # c
    BY <1>2, CallFacts DEF Has
  <2> HIDE DEF r
  <2>3. QED
    BY <2>1, <2>2 DEF r
<1>3. CASE \E j \in DOMAIN q : q[j].client = c
  <2>1. PICK m \in 1 .. n : q[m].client = c
    BY <1>1, <1>3
  <2>2. \A i \in 1 .. n : (\E j \in 1 .. i : q[j].client = c) <=> m <= i
    <3>1. \A j \in 1 .. n : q[j].client = c => j = m
      BY <1>1, <2>1 DEF Single
    <3>2. \A i \in 1 .. n : \A j \in 1 .. i : j \in 1 .. n
      BY <1>1
    <3>3. QED
      BY <1>1, <2>1, <3>1, <3>2
  <2>3. r = [i \in 1 .. n - 1 |-> IF \E j \in 1 .. i : q[j].client = c THEN q[i + 1] ELSE q[i]]
    BY <1>3 DEF Without
  <2>4. r = [i \in 1 .. n - 1 |-> IF m <= i THEN q[i + 1] ELSE q[i]]
    <3>1. \A i \in 1 .. n - 1 : i \in 1 .. n
      BY <1>1
    <3> HIDE DEF r, n
    <3>2. QED
      BY <2>2, <2>3, <3>1
  <2> HIDE DEF r, n
  <2>5. \A i \in 1 .. n - 1 : /\ m <= i => i + 1 \in 1 .. n /\ r[i] = q[i + 1]
                              /\ ~ (m <= i) => i \in 1 .. n /\ r[i] = q[i]
    BY <1>1, <2>4
  <2>6. r \in Seq(Entries) /\ Len(r) = n - 1 /\ DOMAIN r = 1 .. n - 1
    <3>1. \A i \in 1 .. n - 1 : r[i] \in Entries
      BY <1>1, <2>1, <2>5, QueueFacts DEF n
    <3> DEFINE E == Entries
    <3> HIDE DEF E
    <3>2. r \in [1 .. n - 1 -> E] /\ n - 1 \in Nat
      BY <1>1, <2>1, <2>4, <3>1 DEF E
    <3>3. r \in Seq(E) /\ Len(r) = n - 1
      BY <3>2
    <3>4. QED
      BY <3>2, <3>3 DEF E
  \* Where the entry at i comes from, and where that at j goes.
  <2> DEFINE From(i) == IF m <= i THEN i + 1 ELSE i
             To(j) == IF m < j THEN j - 1 ELSE j
  <2>7. \A i \in 1 .. n - 1 : From(i) \in 1 .. n /\ From(i) # m /\ r[i] = q[From(i)]
    BY <1>1, <2>1, <2>5
  <2>8. \A j \in 1 .. n : j # m => To(j) \in 1 .. n - 1 /\ r[To(j)] = q[j]
    BY <1>1, <2>1, <2>5
  <2>9. \A i, j \in 1 .. n : i # m /\ j # m /\ i < j => To(i) < To(j)
    BY <1>1, <2>1
  <2>10. \A i, j \in 1 .. n - 1 : From(i) = From(j) => i = j
    BY <1>1, <2>1
  <2> HIDE DEF From, To
  <2>11. Single(r)
    BY <1>1, <2>6, <2>7, <2>10 DEF Single
  <2>12. \A d \in Clients, j \in Kinds : Has(r, d, j) <=> Has(q, d, j) /\ d # c
    <3>1. \A j \in 1 .. n : q[j].client = c => j = m
      BY <1>1, <2>1 DEF Single
    <3> SUFFICES ASSUME NEW d \in Clients, NEW j \in Kinds
                 PROVE  Has(r, d, j) <=> Has(q, d, j) /\ d # c
      OBVIOUS
    <3>2. ASSUME NEW i \in 1 .. n - 1, r[i] = Call(d, j)
          PROVE  Has(q, d, j) /\ d # c
      <4>1. q[From(i)] = Call(d, j) /\ From(i) \in 1 .. n /\ From(i) # m
        BY <2>7, <3>2
      <4>2. QED
        BY <1>1, <3>1, <4>1, CallFacts DEF Has
    <3>3. ASSUME NEW i \in 1 .. n, q[i] = Call(d, j), d # c
          PROVE  Has(r, d, j)
      <4>1. i # m
        BY <2>1, <3>3, CallFacts
      <4>2. QED
        BY <2>6, <2>8, <3>3, <4>1 DEF Has
    <3>4. QED
      BY <1>1, <2>6, <3>2, <3>3 DEF Has
  <2>13. ASSUME NEW w \in Clients, NEW d \in Clients, Precedes(q, w, d), w # c, d # c
         PROVE  Precedes(r, w, d)
    <3>1. PICK i \in 1 .. n, j \in 1 .. n :
             i < j /\ q[i] = Call(w, "write") /\ q[j].client = d
      BY <1>1, <2>13 DEF Precedes
    <3>2. i # m /\ j # m
      BY <2>1, <2>13, <3>1, CallFacts DEF Kinds
    <3>3. To(i) \in 1 .. n - 1 /\ To(j) \in 1 .. n - 1 /\ To(i) < To(j)
      BY <2>8, <2>9, <3>1, <3>2
    <3>4. r[To(i)] = Call(w, "write") /\ r[To(j)].client = d
      BY <2>8, <3>1, <3>2
    <3>5. QED
      BY <2>6, <3>3, <3>4 DEF Precedes
  <2>14. q # <<>>
    BY <1>1, <2>1 DEF n
  <2>15. QED
    BY <2>6, <2>11, <2>12, <2>13, <2>14 DEF r
<1>4. QED
  BY <1>2, <1>3

\* The lock at which a release stops; it is one past the queue when there is none.
LEMMA FirstLockExists ==
    ASSUME NEW q \in Seq(Entries)
    PROVE  /\ FirstLock(q) \in 1 .. Len(q) + 1
           /\ FirstLock(q) <= Len(q) => q[FirstLock(q)].kind # "wait"
           /\ \A i \in 1 .. FirstLock(q) - 1 : q[i].kind = "wait"
<1> DEFINE S == {i \in 1 .. Len(q) + 1 : i <= Len(q) => q[i].kind # "wait"}
           R == OpToRel(<, Nat)
<1>1. Len(q) \in Nat
  OBVIOUS
<1>2. Len(q) + 1 \in S /\ S \subseteq Nat /\ S \subseteq 1 .. Len(q) + 1
  BY <1>1
<1> HIDE DEF S
<1>3. PICK n \in S : \A y \in S : ~ (<<y, n>> \in R)
  <2>1. IsWellFoundedOn(R, Nat)
    BY NatLessThanWellFounded
  <2> HIDE DEF R
  <2>2. QED
    BY <1>2, <2>1, WFMin
<1>4. \A y \in S : n <= y
  <2> SUFFICES ASSUME NEW y \in S, ~ (n <= y)
               PROVE  FALSE
    OBVIOUS
  <2>1. y \in Nat /\ n \in Nat /\ y < n
    BY <1>2
  <2>2. <<y, n>> \in R
    BY <2>1 DEF OpToRel
  <2> HIDE DEF R
  <2>3. QED
    BY <1>3, <2>2
<1>5. n \in 1 .. Len(q) + 1 /\ (n <= Len(q) => q[n].kind # "wait")
  BY DEF S
<1>6. \A i \in 1 .. n - 1 : q[i].kind = "wait"
  <2> SUFFICES ASSUME NEW i \in 1 .. n - 1
               PROVE  q[i].kind = "wait"
    OBVIOUS
  <2>1. i \in 1 .. Len(q) + 1 /\ ~ (n <= i)
    BY <1>1, <1>5
  <2>2. i \notin S
    BY <1>4, <2>1
  <2>3. QED
    BY <2>1, <2>2 DEF S
<1>7. QED
  BY <1>5, <1>6 DEF FirstLock

LEMMA ServedFacts ==
    ASSUME NEW q \in Seq(Entries), Single(q)
    PROVE  LET n == FirstLock(q)
               r == SubSeq(q, n + 1, Len(q))
           IN  /\ r \in Seq(Entries) /\ Single(r) /\ (r # <<>> => n <= Len(q))
               /\ n <= Len(q) =>
                     /\ q[n].client \in Clients /\ q[n].kind \in {"read", "write"}
                     /\ Has(q, q[n].client, q[n].kind)
                     /\ \A j \in Kinds : ~ Has(r, q[n].client, j)
               /\ \A d \in Clients, j \in Kinds :
                     /\ Has(r, d, j) => Has(q, d, j)
                     /\ Has(q, d, j) /\ ~ Has(r, d, j) =>
                           j = "wait" \/ (n <= Len(q) /\ d = q[n].client /\ j = q[n].kind)
               /\ \A w, d \in Clients :
                     Precedes(q, w, d) =>
                        /\ \E j \in Kinds : Has(r, d, j)
                        /\ \/ n <= Len(q) /\ w = q[n].client /\ q[n].kind = "write"
                           \/ Precedes(r, w, d)
<1> DEFINE n == FirstLock(q)
           m == Len(q)
           r == SubSeq(q, n + 1, Len(q))
<1>1. m \in Nat /\ DOMAIN q = 1 .. m
  BY QueueFacts
<1>2. /\ n \in 1 .. m + 1
      /\ n <= m => q[n].kind # "wait"
      /\ \A i \in 1 .. n - 1 : q[i].kind = "wait"
  BY FirstLockExists
<1>3. r \in Seq(Entries)
  <2> DEFINE E == Entries
  <2> HIDE DEF E, n
  <2>1. q \in Seq(E)
    BY DEF E
  <2>2. n + 1 \in 1 .. m + 2
    BY <1>1, <1>2
  <2>3. \A i \in n + 1 .. m : i \in 1 .. m /\ q[i] \in E
    BY <1>1, <2>1, <2>2
  <2>4. SubSeq(q, n + 1, m) \in Seq(E)
    BY <1>1, <2>1, <2>2, <2>3
  <2>5. QED
    BY <2>4 DEF E
<1>4. Len(r) = IF n <= m THEN m - n ELSE 0
  BY <1>1, <1>2
<1>5. DOMAIN r = 1 .. Len(r)
  BY <1>3, QueueFacts
<1>6. \A i \in 1 .. Len(r) : n + i \in 1 .. m /\ r[i] = q[n + i]
  <2> HIDE DEF n, m
  <2> SUFFICES ASSUME NEW i \in 1 .. Len(r)
               PROVE  n + i \in 1 .. m /\ r[i] = q[n + i]
    OBVIOUS
  <2>1. n + i \in 1 .. m /\ i \in 1 .. m - n
    BY <1>1, <1>2, <1>4
  <2>2. n \in Nat /\ n + 1 + i - 1 = n + i
    BY <1>1, <1>2, <2>1
  <2>3. QED
    BY <1>1, <2>1, <2>2
<1>7. \A j \in n + 1 .. m : j - n \in 1 .. Len(r) /\ r[j - n] = q[j]
  <2> HIDE DEF n, m, r
  <2> SUFFICES ASSUME NEW j \in n + 1 .. m
               PROVE  j - n \in 1 .. Len(r) /\ r[j - n] = q[j]
    OBVIOUS
  <2>1. j - n \in 1 .. Len(r) /\ n + (j - n) = j
    BY <1>1, <1>2, <1>4
  <2>2. QED
    BY <1>6, <2>1
<1> HIDE DEF n, m, r
<1>8. Single(r)
  <2>1. \A i, j \in 1 .. Len(r) : n + i = n + j => i = j
    BY <1>1, <1>2, <1>4
  <2>2. QED
    BY <1>1, <1>5, <1>6, <2>1 DEF Single
<1>9. r # <<>> => n <= m
  <2> SUFFICES ASSUME ~ (n <= m)
               PROVE  r = <<>>
    OBVIOUS
  <2>1. QED
    BY <1>3, <1>4
<1>10. ASSUME n <= m
       PROVE  /\ q[n].client \in Clients /\ q[n].kind \in {"read", "write"}
              /\ Has(q, q[n].client, q[n].kind)
              /\ \A j \in Kinds : ~ Has(r, q[n].client, j)
  <2>1. n \in 1 .. m
    BY <1>1, <1>2, <1>10
  <2>2. /\ q[n].client \in Clients /\ q[n].kind \in Kinds
        /\ q[n] = Call(q[n].client, q[n].kind)
    BY <2>1, QueueFacts DEF m
  <2>3. ASSUME NEW j \in Kinds, NEW i \in 1 .. Len(r), r[i] = Call(q[n].client, j)
        PROVE  FALSE
    <3>1. n + i \in 1 .. m /\ q[n + i].client = q[n].client
      BY <1>6, <2>2, <2>3, CallFacts
    <3>2. n + i = n
      BY <1>1, <2>1, <3>1 DEF Single
    <3>3. QED
      BY <1>1, <1>2, <1>4, <3>2
  <2>4. QED
    BY <1>1, <1>2, <1>5, <1>10, <2>1, <2>2, <2>3 DEF Has, Kinds
<1>11. ASSUME NEW d \in Clients, NEW j \in Kinds
       PROVE  /\ Has(r, d, j) => Has(q, d, j)
              /\ Has(q, d, j) /\ ~ Has(r, d, j) =>
                    j = "wait" \/ (n <= m /\ d = q[n].client /\ j = q[n].kind)
  <2>1. Has(r, d, j) => Has(q, d, j)
    BY <1>1, <1>5, <1>6 DEF Has
  <2>2. ASSUME NEW i \in 1 .. m, q[i] = Call(d, j), ~ Has(r, d, j)
        PROVE  j = "wait" \/ (n <= m /\ d = q[n].client /\ j = q[n].kind)
    <3>1. q[i].client = d /\ q[i].kind = j
      BY <2>2, CallFacts
    <3>2. i \notin n + 1 .. m
      BY <1>5, <1>7, <2>2 DEF Has
    <3>3. CASE i = n
      BY <1>1, <1>2, <3>1, <3>3
    <3>4. CASE i \in 1 .. n - 1
      BY <1>2, <3>1, <3>4
    <3>5. QED
      BY <1>1, <1>2, <3>2, <3>3, <3>4
  <2>3. QED
    BY <1>1, <2>1, <2>2 DEF Has
<1>12. ASSUME NEW w \in Clients, NEW d \in Clients, Precedes(q, w, d)
       PROVE  /\ \E j \in Kinds : Has(r, d, j)
              /\ \/ n <= m /\ w = q[n].client /\ q[n].kind = "write"
                 \/ Precedes(r, w, d)
  <2>1. PICK i \in 1 .. m, j \in 1 .. m :
           i < j /\ q[i] = Call(w, "write") /\ q[j].client = d
    BY <1>1, <1>12 DEF Precedes
  <2>2. q[i].client = w /\ q[i].kind = "write"
    BY <2>1, CallFacts DEF Kinds
  <2>3. i \notin 1 .. n - 1
    BY <1>2, <2>2
  <2>4. j \in n + 1 .. m
    BY <1>1, <1>2, <2>1, <2>3
  <2>5. j - n \in 1 .. Len(r) /\ r[j - n] = q[j]
    BY <1>7, <2>4
  <2>6. q[j].kind \in Kinds /\ q[j] = Call(d, q[j].kind)
    BY <2>1, QueueFacts DEF m
  <2>7. \E k \in Kinds : Has(r, d, k)
    BY <1>5, <2>5, <2>6 DEF Has
  <2>8. CASE i = n
    BY <1>1, <2>1, <2>2, <2>7, <2>8
  <2>9. CASE i \in n + 1 .. m
    <3>1. i - n \in 1 .. Len(r) /\ r[i - n] = q[i] /\ i - n < j - n
      BY <1>1, <1>2, <1>7, <2>1, <2>9
    <3>2. Precedes(r, w, d)
      BY <1>5, <2>1, <2>5, <3>1 DEF Precedes
    <3>3. QED
      BY <2>7, <3>2
  <2>10. QED
    BY <1>1, <1>2, <2>3, <2>8, <2>9
<1>13. QED
  BY <1>3, <1>8, <1>9, <1>10, <1>11, <1>12 DEF n, m, r

-----------------------------------------------------------------------------
(* The inductive invariant.                                                *)

\* Who waits in a Lock, and for what.
Entry(l, c, k) == Has(queue[l], c, k)

\* A writer waits for writersLock before the client.
Before(w, c) == Precedes(queue["writers"], w, c)

\* The call that the client awaits was not rejected.
Won(c) == ~ Pending(c) /\ c \notin failed

\* Nobody waits for a Lock that is free, and nobody waits in one twice.
QueueTypes ==
    /\ owner \in [Locks -> Holds \cup {None}]
    /\ queue \in [Locks -> Seq(Entries)]
    /\ \A l \in Locks : Single(queue[l]) /\ (queue[l] # <<>> => owner[l] # None)

\* How far a call has come that waits in a Lock.
Place(l, k) ==
    CASE k = "wait" ->
            {"unlock"} \cup (IF prefers = "write" /\ l = "writers" THEN {"blocked"} ELSE {})
      [] k = "read" /\ prefers = "write" -> IF l = "readers" THEN {"first"} ELSE {}
      [] k = "read" /\ prefers = "read" ->
            IF l = "readers" THEN {"entering", "leaving"} ELSE {"first"}
      [] k = "write" /\ prefers = "write" -> IF l = "readers" THEN {"readers"} ELSE {"writers"}
      [] k = "write" /\ prefers = "read" -> IF l = "readers" THEN {} ELSE {"writers"}

PlaceInv ==
    \A l \in Locks, c \in Clients, k \in Kinds : Entry(l, c, k) => pc[c] \in Place(l, k)

\* A rejection is for a call that is awaited and no longer queued.
Awaiting == {"blocked", "entering", "first", "writers", "readers", "unlock"}

FailedInv == \A c \in failed : ~ Pending(c) /\ pc[c] \in Awaiting

\* The counters count the calls between two places.
At(S) == {c \in Clients : pc[c] \in S}
CountedReaders == {"first", "second", "reading", "leaving"}
CountedBlocked == {"blocked", "entering"}
CountedWriters == {"writers", "readers", "writing", "unlocking", "released"}

CountInv ==
    /\ readerCount = Cardinality(At(CountedReaders))
    /\ blocked = Cardinality(At(CountedBlocked))
    /\ writerCount = Cardinality(At(CountedWriters))

\* The Lock that the readers hold together.
Shared == IF prefers = "write" THEN "readers" ELSE "writers"

\* The first reader holds it from the grant on, the shared field has its
\* release from the moment the first reader resumed.
SharedAt(c) ==
    /\ pc[c] = "first" => ~ settled
    /\ pc[c] = "reading" => settled
    /\ pc[c] = "first" /\ Won(c) => owner[Shared] = <<c, "read">> /\ release = None
    /\ owner[Shared] = <<c, "read">> /\ release = None => pc[c] = "first" /\ Won(c)
    /\ owner[Shared] = <<c, "read">> /\ release # None =>
          settled /\ \E d \in Clients : pc[d] \in CountedReaders

SharedInv ==
    /\ release \in {None, owner[Shared]}
    /\ \A c \in Clients : SharedAt(c)
    /\ \A c, d \in Clients : pc[c] = "first" /\ pc[d] = "first" => c = d
    /\ ~ settled => \E c \in Clients : pc[c] = "first"
    /\ ~ orphaned /\ settled /\ (\E c \in Clients : pc[c] \in CountedReaders) =>
          \E d \in Clients : owner[Shared] = <<d, "read">> /\ release = owner[Shared]

\* RWLockWriter: writersLock is held from its grant to the end of the writer;
\* the readersLock of a writer may be gone only when an orphan released it.
WriterAt(c) ==
    /\ pc[c] \notin {"entering", "leaving", "left"}
    /\ owner["writers"] = <<c, "write">> <=>
          pc[c] \in {"readers", "writing", "unlocking"} \/ (pc[c] = "writers" /\ Won(c))
    /\ owner["writers"] # <<c, "read">>
    /\ pc[c] = "readers" /\ Won(c) => owner["readers"] = <<c, "write">> /\ release = None
    /\ owner["readers"] = <<c, "write">> =>
          \/ pc[c] = "readers" /\ Won(c) /\ release = None
          \/ pc[c] = "writing" /\ release = owner["readers"]
    /\ pc[c] = "writing" => \/ owner["readers"] = <<c, "write">>
                            \/ orphaned /\ owner["readers"] = None
    /\ pc[c] \in {"readers", "writing", "unlocking"} =>
          \A r \in Clients : ~ (pc[r] = "blocked" /\ Won(r))

WriterInv == \A c \in Clients : WriterAt(c)

\* RWLockReader: readersLock is held for the length of an entry or an exit,
\* and the first reader enters alone.
ReaderAt(c) ==
    /\ pc[c] \notin {"blocked", "readers", "unlocking"}
    /\ pc[c] = "leaving" => c \notin failed
    /\ owner["readers"] = <<c, "read">> <=>
          pc[c] \in {"first", "left"} \/ (pc[c] \in {"entering", "leaving"} /\ Won(c))
    /\ owner["readers"] # <<c, "write">>
    /\ owner["writers"] = <<c, "write">> <=>
          pc[c] = "writing" \/ (pc[c] = "writers" /\ Won(c))
    /\ pc[c] = "first" => \A d \in Clients : pc[d] \in CountedReaders => c = d

ReaderInv ==
    /\ ~ orphaned
    /\ release # None => release[2] = "read"
    /\ \A c \in Clients : ReaderAt(c)

\* RWLockWriter: the writers that waited when a reader called have failed when
\* it goes on; until then they are before it.
AheadAt(c) ==
    /\ \A w \in ahead[c] : pc[w] \in WriterWaits
    /\ pc[c] \in {"first", "second"} \/ (pc[c] = "blocked" /\ Won(c)) =>
          ahead[c] \subseteq failed
    /\ pc[c] = "blocked" /\ Pending(c) =>
          \A w \in ahead[c] : \/ w \in failed
                              \/ owner["writers"] = <<w, "write">>
                              \/ Before(w, c)

AheadInv == \A c \in Clients : AheadAt(c)

IInv ==
    /\ TypeOK
    /\ QueueTypes
    /\ PlaceInv
    /\ FailedInv
    /\ CountInv
    /\ SharedInv
    /\ prefers = "write" => WriterInv /\ AheadInv
    /\ prefers = "read" => ReaderInv

-----------------------------------------------------------------------------
(* What the calls of a Lock do to its queue.                               *)

LEMMA WaitingHas ==
    ASSUME NEW qs \in [Locks -> Seq(Entries)], NEW c \in Clients
    PROVE  (\E l \in Locks : \E i \in DOMAIN qs[l] : qs[l][i].client = c)
              <=> \E l \in Locks, k \in Kinds : Has(qs[l], c, k)
<1>1. ASSUME NEW l \in Locks
      PROVE  (\E i \in DOMAIN qs[l] : qs[l][i].client = c)
                <=> \E k \in Kinds : Has(qs[l], c, k)
  <2>1. qs[l] \in Seq(Entries)
    OBVIOUS
  <2> DEFINE q == qs[l]
  <2> HIDE DEF q
  <2>2. q \in Seq(Entries)
    BY <2>1 DEF q
  <2>3. ASSUME NEW i \in DOMAIN q, q[i].client = c
        PROVE  \E k \in Kinds : Has(q, c, k)
    BY <2>2, <2>3, QueueFacts DEF Has
  <2>4. ASSUME NEW k \in Kinds, NEW i \in DOMAIN q, q[i] = Call(c, k)
        PROVE  q[i].client = c
    BY <2>4, CallFacts
  <2>5. QED
    BY <2>3, <2>4 DEF q, Has
<1>2. QED
  BY <1>1

LEMMA PendingEntry ==
    ASSUME queue \in [Locks -> Seq(Entries)], NEW c \in Clients
    PROVE  Pending(c) <=> \E l \in Locks, k \in Kinds : Entry(l, c, k)
BY WaitingHas DEF Pending, Entry

LEMMA PendingEntryNext ==
    ASSUME queue' \in [Locks -> Seq(Entries)], NEW c \in Clients
    PROVE  Pending(c)' <=> \E l \in Locks, k \in Kinds : Entry(l, c, k)'
BY WaitingHas DEF Pending, Entry

LEMMA RequestEffect ==
    ASSUME QueueTypes, NEW l \in Locks, NEW c \in Clients, NEW k \in Kinds,
           NEW signalled \in BOOLEAN, ~ Pending(c), Request(l, c, k, signalled)
    PROVE  /\ QueueTypes'
           /\ \A m \in Locks, d \in Clients, j \in Kinds :
                 Entry(m, d, j)' => Entry(m, d, j) \/ (m = l /\ d = c /\ j = k)
           /\ \A w, d \in Clients : Before(w, d) => Before(w, d)'
           /\ \A d \in Clients : d # c => (Pending(d)' <=> Pending(d))
           /\ \/ /\ signalled
                 /\ failed' = failed \cup {c} /\ owner' = owner
                 /\ ~ Pending(c)'
              \/ /\ ~ signalled
                 /\ failed' = failed
                 /\ owner[l] = None
                 /\ owner' = IF k = "wait" THEN owner ELSE [owner EXCEPT ![l] = <<c, k>>]
                 /\ ~ Pending(c)'
              \/ /\ ~ signalled
                 /\ failed' = failed /\ owner' = owner
                 /\ owner[l] # None
                 /\ Pending(c)'
                 /\ l = "writers" =>
                       \A w \in Clients : Entry(l, w, "write") => Before(w, c)'
<1> USE DEF QueueTypes
<1>1. CASE queue' = queue
  <2>1. QueueTypes'
    <3>1. owner' \in [Locks -> Holds \cup {None}]
      BY DEF Request, Holds, Kinds
    <3>2. \A m \in Locks : owner[m] # None => owner'[m] # None
      BY RWLockAssumption DEF Request, Kinds
    <3>3. QED
      BY <1>1, <3>1, <3>2
  <2>2. /\ \A m, d, j : Entry(m, d, j)' <=> Entry(m, d, j)
        /\ \A w, d : Before(w, d)' <=> Before(w, d)
        /\ \A d : Pending(d)' <=> Pending(d)
    BY <1>1 DEF Entry, Before, Pending
  <2>3. \/ signalled /\ failed' = failed \cup {c} /\ owner' = owner
        \/ /\ ~ signalled /\ failed' = failed /\ owner[l] = None
           /\ owner' = IF k = "wait" THEN owner ELSE [owner EXCEPT ![l] = <<c, k>>]
    <3>1. CASE queue' = [queue EXCEPT ![l] = Append(queue[l], Call(c, k))]
      <4>1. queue[l] \in Seq(Entries)
        OBVIOUS
      <4>2. Append(queue[l], Call(c, k)) # queue[l]
        <5> DEFINE q == queue[l]
        <5> HIDE DEF q
        <5>1. q \in Seq(Entries)
          BY <4>1 DEF q
        <5>2. Len(Append(q, Call(c, k))) = Len(q) + 1 /\ Len(q) \in Nat
          BY <5>1
        <5>3. QED
          BY <5>2 DEF q
      <4>3. QED
        BY <1>1, <3>1, <4>2
    <3>2. CASE queue' # [queue EXCEPT ![l] = Append(queue[l], Call(c, k))]
      BY <3>2 DEF Request, Call
    <3>3. QED
      BY <3>1, <3>2
  <2>4. QED
    BY <2>1, <2>2, <2>3
<1>2. CASE queue' # queue
  <2>1. /\ ~ signalled /\ owner[l] # None /\ owner' = owner /\ failed' = failed
        /\ queue' = [queue EXCEPT ![l] = Append(queue[l], Call(c, k))]
    BY <1>2 DEF Request, Call
  <2>2. queue[l] \in Seq(Entries) /\ Single(queue[l])
    OBVIOUS
  <2>3. \A j \in Kinds : ~ Has(queue[l], c, j)
    BY PendingEntry DEF Entry
  <2> DEFINE q == queue[l]
             r == queue'[l]
  <2>4. /\ r = Append(q, Call(c, k))
        /\ \A m \in Locks : m # l => queue'[m] = queue[m]
    BY <2>1
  <2>5. /\ r \in Seq(Entries) /\ r # <<>> /\ Single(r)
        /\ \A d \in Clients, j \in Kinds : Has(r, d, j) <=> Has(q, d, j) \/ (d = c /\ j = k)
        /\ \A w, d \in Clients : Precedes(q, w, d) => Precedes(r, w, d)
        /\ \A w \in Clients : Has(q, w, "write") => Precedes(r, w, c)
    <3> HIDE DEF q, r
    <3>1. q \in Seq(Entries) /\ Single(q) /\ \A j \in Kinds : ~ Has(q, c, j)
      BY <2>2, <2>3 DEF q
    <3>2. QED
      BY <2>4, <3>1, AppendFacts
  <2>6. QueueTypes'
    BY <2>1, <2>4, <2>5
  <2>7. \A m \in Locks, d \in Clients, j \in Kinds :
           Entry(m, d, j)' <=> Entry(m, d, j) \/ (m = l /\ d = c /\ j = k)
    BY <2>4, <2>5 DEF Entry
  <2>8. \A w, d \in Clients : Before(w, d) => Before(w, d)'
    BY <2>4, <2>5 DEF Before, Locks
  <2>9. \A d \in Clients : d # c => (Pending(d)' <=> Pending(d))
    BY <2>6, <2>7, PendingEntry, PendingEntryNext
  <2>10. Pending(c)'
    BY <2>6, <2>7, PendingEntryNext
  <2>11. l = "writers" => \A w \in Clients : Entry(l, w, "write") => Before(w, c)'
    BY <2>5 DEF Entry, Before
  <2>12. QED
    BY <2>1, <2>6, <2>7, <2>8, <2>9, <2>10, <2>11
<1>3. QED
  BY <1>1, <1>2

\* The release of a Lock: what was answered, and who holds it now.
Passed(l, x) ==
    /\ owner' = [owner EXCEPT ![l] = x]
    /\ \A d \in Clients : Pending(d)' => Pending(d)
    /\ \A d \in Clients :
          Pending(d) /\ ~ Pending(d)' =>
             \/ pc[d] = "unlock"
             \/ prefers = "write" /\ l = "writers" /\ pc[d] = "blocked"
             \/ x = <<d, "read">> \/ x = <<d, "write">>
    /\ \A d \in Clients, k \in {"read", "write"} :
          x = <<d, k>> =>
             Pending(d) /\ ~ Pending(d)' /\ d \notin failed /\ pc[d] \in Place(l, k)
    /\ \A w, d \in Clients :
          Before(w, d) =>
             /\ Pending(d)'
             /\ x = <<w, "write">> \/ Before(w, d)'

LEMMA FreeEffect ==
    ASSUME prefers \in {"read", "write"}, QueueTypes, PlaceInv, FailedInv,
           NEW l \in Locks, Free(l)
    PROVE  /\ QueueTypes'
           /\ \A m \in Locks, d \in Clients, j \in Kinds :
                 Entry(m, d, j)' => Entry(m, d, j)
           /\ \E x \in Holds \cup {None} : Passed(l, x)
<1> USE DEF QueueTypes
<1> DEFINE q == queue[l]
           n == FirstLock(q)
           r == queue'[l]
           x == IF n <= Len(q) THEN <<q[n].client, q[n].kind>> ELSE None
<1>1. /\ owner' = [owner EXCEPT ![l] = x]
      /\ r = SubSeq(q, n + 1, Len(q))
      /\ \A m \in Locks : m # l => queue'[m] = queue[m]
      /\ queue' = [queue EXCEPT ![l] = r]
  BY DEF Free
<1>2. q \in Seq(Entries) /\ Single(q)
  OBVIOUS
<1> HIDE DEF q, r
<1>3. /\ r \in Seq(Entries) /\ Single(r) /\ (r # <<>> => n <= Len(q))
      /\ n <= Len(q) => /\ q[n].client \in Clients /\ q[n].kind \in {"read", "write"}
                        /\ Has(q, q[n].client, q[n].kind)
                        /\ \A j \in Kinds : ~ Has(r, q[n].client, j)
  BY <1>1, <1>2, ServedFacts
<1>4. \A d \in Clients, j \in Kinds :
         /\ Has(r, d, j) => Has(q, d, j)
         /\ Has(q, d, j) /\ ~ Has(r, d, j) =>
               j = "wait" \/ (n <= Len(q) /\ d = q[n].client /\ j = q[n].kind)
  BY <1>1, <1>2, ServedFacts
<1>5. \A w, d \in Clients :
         Precedes(q, w, d) =>
            /\ \E j \in Kinds : Has(r, d, j)
            /\ \/ n <= Len(q) /\ w = q[n].client /\ q[n].kind = "write"
               \/ Precedes(r, w, d)
  BY <1>1, <1>2, ServedFacts
<1> HIDE DEF n
<1>6. /\ x \in Holds \cup {None}
      /\ r # <<>> => x # None
      /\ x # None => n <= Len(q)
  BY <1>3, RWLockAssumption DEF Holds
<1>7. \A d \in Clients, k \in {"read", "write"} :
         x = <<d, k>> => n <= Len(q) /\ d = q[n].client /\ k = q[n].kind
  BY <1>3, RWLockAssumption
<1>8. n <= Len(q) => x = <<q[n].client, q[n].kind>>
  OBVIOUS
<1> HIDE DEF x
<1>9. QueueTypes'
  BY <1>1, <1>3, <1>6
<1>10. \A m \in Locks, d \in Clients, j \in Kinds :
          Entry(m, d, j)' => Entry(m, d, j)
  BY <1>1, <1>4 DEF Entry, q, r
<1>11. \A d \in Clients : Pending(d)' => Pending(d)
  BY <1>9, <1>10, PendingEntry, PendingEntryNext
<1>12. ASSUME NEW d \in Clients, Pending(d), ~ Pending(d)'
       PROVE  \/ pc[d] = "unlock"
              \/ prefers = "write" /\ l = "writers" /\ pc[d] = "blocked"
              \/ x = <<d, "read">> \/ x = <<d, "write">>
  <2>1. PICK m \in Locks, j \in Kinds : Entry(m, d, j)
    BY <1>12, PendingEntry
  <2>2. ~ Entry(m, d, j)'
    BY <1>9, <1>12, PendingEntryNext
  <2>3. m = l
    BY <1>1, <2>1, <2>2 DEF Entry
  <2>4. Has(q, d, j) /\ ~ Has(r, d, j)
    BY <2>1, <2>2, <2>3 DEF Entry, q, r
  <2>5. CASE j = "wait"
    BY <2>1, <2>3, <2>5 DEF PlaceInv, Place
  <2>6. CASE n <= Len(q) /\ d = q[n].client /\ j = q[n].kind
    BY <1>3, <1>8, <2>6
  <2>7. QED
    BY <1>4, <2>4, <2>5, <2>6
<1>13. ASSUME NEW d \in Clients, NEW k \in {"read", "write"}, x = <<d, k>>
       PROVE  Pending(d) /\ ~ Pending(d)' /\ d \notin failed /\ pc[d] \in Place(l, k)
  <2>1. Entry(l, d, k) /\ k \in Kinds
    BY <1>3, <1>7, <1>13 DEF Entry, q, Kinds
  <2>2. pc[d] \in Place(l, k)
    BY <2>1 DEF PlaceInv
  <2>3. Pending(d)
    BY <2>1, PendingEntry
  <2>4. ASSUME NEW m \in Locks, NEW j \in Kinds, Entry(m, d, j)'
        PROVE  FALSE
    <3>1. m # l
      BY <1>3, <1>7, <1>13, <2>4 DEF Entry, q, r
    <3>2. pc[d] \in Place(m, j)
      BY <1>10, <2>4 DEF PlaceInv
    <3>3. QED
      BY <2>2, <3>1, <3>2 DEF Place, Locks, Kinds
  <2>5. ~ Pending(d)'
    BY <1>9, <2>4, PendingEntryNext
  <2>6. QED
    BY <2>2, <2>3, <2>5 DEF FailedInv
<1>14. ASSUME NEW w \in Clients, NEW d \in Clients, Before(w, d)
       PROVE  Pending(d)' /\ (x = <<w, "write">> \/ Before(w, d)')
  <2>1. CASE l = "writers"
    <3>1. Precedes(q, w, d)
      BY <1>14, <2>1 DEF Before, q
    <3>2. PICK j \in Kinds : Has(r, d, j)
      BY <1>5, <3>1
    <3>3. Entry(l, d, j)'
      BY <3>2 DEF Entry, r
    <3>4. Pending(d)'
      BY <1>9, <3>3, PendingEntryNext
    <3>5. x = <<w, "write">> \/ Precedes(r, w, d)
      BY <1>5, <1>8, <3>1
    <3>6. QED
      BY <2>1, <3>4, <3>5 DEF Before, r
  <2>2. CASE l # "writers"
    <3>1. queue'["writers"] = queue["writers"]
      BY <1>1, <2>2 DEF Locks
    <3>2. PICK i \in DOMAIN queue["writers"] : queue["writers"][i].client = d
      BY <1>14 DEF Before, Precedes
    <3>3. Pending(d)'
      BY <3>1, <3>2 DEF Pending, Locks
    <3>4. QED
      BY <1>14, <3>1, <3>3 DEF Before
  <2>3. QED
    BY <2>1, <2>2
<1>15. Passed(l, x)
  BY <1>1, <1>11, <1>12, <1>13, <1>14 DEF Passed
<1>16. QED
  BY <1>6, <1>9, <1>10, <1>15

LEMMA AbortEffect ==
    ASSUME QueueTypes, NEW c \in Clients, owner' = owner,
           queue' = [l \in Locks |-> Without(queue[l], c)]
    PROVE  /\ QueueTypes'
           /\ \A m \in Locks, d \in Clients, j \in Kinds :
                 Entry(m, d, j)' => Entry(m, d, j)
           /\ \A d \in Clients : Pending(d)' <=> Pending(d) /\ d # c
           /\ \A w, d \in Clients :
                 Before(w, d) /\ w # c /\ d # c => Before(w, d)'
<1> USE DEF QueueTypes
<1>1. ASSUME NEW l \in Locks
      PROVE  /\ queue'[l] \in Seq(Entries) /\ Single(queue'[l])
             /\ queue'[l] # <<>> => queue[l] # <<>>
             /\ \A d \in Clients, j \in Kinds :
                   Has(queue'[l], d, j) <=> Has(queue[l], d, j) /\ d # c
             /\ \A w, d \in Clients :
                   Precedes(queue[l], w, d) /\ w # c /\ d # c => Precedes(queue'[l], w, d)
  <2> DEFINE q == queue[l]
             r == queue'[l]
  <2>1. q \in Seq(Entries) /\ Single(q) /\ r = Without(q, c)
    OBVIOUS
  <2> HIDE DEF q, r
  <2>2. /\ r \in Seq(Entries) /\ Single(r) /\ (r # <<>> => q # <<>>)
        /\ \A d \in Clients, j \in Kinds : Has(r, d, j) <=> Has(q, d, j) /\ d # c
        /\ \A w, d \in Clients : Precedes(q, w, d) /\ w # c /\ d # c => Precedes(r, w, d)
    BY <2>1, WithoutFacts
  <2>3. QED
    BY <2>2 DEF q, r
<1>2. queue' \in [Locks -> Seq(Entries)]
  BY <1>1
<1>3. QueueTypes'
  BY <1>1, <1>2
<1>4. \A m \in Locks, d \in Clients, j \in Kinds :
         Entry(m, d, j)' <=> Entry(m, d, j) /\ d # c
  BY <1>1 DEF Entry
<1>5. \A d \in Clients : Pending(d)' <=> Pending(d) /\ d # c
  BY <1>2, <1>4, PendingEntry, PendingEntryNext
<1>6. \A w, d \in Clients : Before(w, d) /\ w # c /\ d # c => Before(w, d)'
  BY <1>1 DEF Before, Locks
<1>7. QED
  BY <1>3, <1>4, <1>5, <1>6

\* waitForUnlock waits in every Lock that is held.
LEMMA WaitEffect ==
    ASSUME QueueTypes, NEW c \in Clients, ~ Pending(c), owner' = owner,
           queue' = [l \in Locks |->
                        IF owner[l] = None THEN queue[l]
                        ELSE Append(queue[l], [client |-> c, kind |-> "wait"])]
    PROVE  /\ QueueTypes'
           /\ \A m \in Locks, d \in Clients, j \in Kinds :
                 Entry(m, d, j)' => Entry(m, d, j) \/ (d = c /\ j = "wait")
           /\ \A d \in Clients : d # c => (Pending(d)' <=> Pending(d))
           /\ \A w, d \in Clients : Before(w, d) => Before(w, d)'
<1> USE DEF QueueTypes
<1>1. ASSUME NEW l \in Locks, owner[l] # None
      PROVE  /\ queue'[l] \in Seq(Entries) /\ Single(queue'[l])
             /\ \A d \in Clients, j \in Kinds :
                   Has(queue'[l], d, j) <=> Has(queue[l], d, j) \/ (d = c /\ j = "wait")
             /\ \A w, d \in Clients : Precedes(queue[l], w, d) => Precedes(queue'[l], w, d)
  <2> DEFINE q == queue[l]
             r == queue'[l]
  <2>1. q \in Seq(Entries) /\ Single(q) /\ r = Append(q, Call(c, "wait"))
    BY <1>1 DEF Call
  <2>2. \A j \in Kinds : ~ Has(q, c, j)
    BY PendingEntry DEF Entry
  <2>3. "wait" \in Kinds
    BY DEF Kinds
  <2> HIDE DEF q, r
  <2>4. /\ r \in Seq(Entries) /\ Single(r)
        /\ \A d \in Clients, j \in Kinds :
              Has(r, d, j) <=> Has(q, d, j) \/ (d = c /\ j = "wait")
        /\ \A w, d \in Clients : Precedes(q, w, d) => Precedes(r, w, d)
    BY <2>1, <2>2, <2>3, AppendFacts
  <2>5. QED
    BY <2>4 DEF q, r
<1>2. \A l \in Locks : owner[l] = None => queue'[l] = queue[l]
  OBVIOUS
<1>3. queue' \in [Locks -> Seq(Entries)]
  <2>1. \A l \in Locks : queue'[l] \in Seq(Entries)
    BY <1>1, <1>2
  <2>2. QED
    BY <2>1
<1>4. QueueTypes'
  BY <1>1, <1>2, <1>3
<1>5. \A m \in Locks, d \in Clients, j \in Kinds :
         /\ Entry(m, d, j)' => Entry(m, d, j) \/ (d = c /\ j = "wait")
         /\ Entry(m, d, j) => Entry(m, d, j)'
  BY <1>1, <1>2 DEF Entry
<1>6. \A d \in Clients : d # c => (Pending(d)' <=> Pending(d))
  BY <1>3, <1>5, PendingEntry, PendingEntryNext
<1>7. \A w, d \in Clients : Before(w, d) => Before(w, d)'
  BY <1>1, <1>2 DEF Before, Locks
<1>8. QED
  BY <1>4, <1>5, <1>6, <1>7

-----------------------------------------------------------------------------
(* What an action that moves one client keeps.                             *)

One(x, S) == IF x \in S THEN 1 ELSE 0

LEMMA AtFinite ==
    ASSUME NEW S
    PROVE  IsFiniteSet(At(S)) /\ Cardinality(At(S)) \in Nat
<1>1. At(S) \subseteq Clients
  BY DEF At
<1>2. IsFiniteSet(At(S))
  BY <1>1, RWLockAssumption, FS_Subset
<1>3. QED
  BY <1>2, FS_CardinalityType

LEMMA AtMove ==
    ASSUME NEW T, pc \in [Clients -> T], NEW c \in Clients, NEW x, NEW S,
           pc' = [pc EXCEPT ![c] = x]
    PROVE  Cardinality(At(S)') = Cardinality(At(S)) + One(x, S) - One(pc[c], S)
<1>1. \A d \in Clients : pc'[d] = IF d = c THEN x ELSE pc[d]
  OBVIOUS
<1>2. IsFiniteSet(At(S)) /\ Cardinality(At(S)) \in Nat
  BY AtFinite
<1>3. CASE x \in S <=> pc[c] \in S
  <2>1. At(S)' = At(S)
    BY <1>1, <1>3 DEF At
  <2>2. QED
    BY <1>2, <1>3, <2>1 DEF One
<1>4. CASE x \in S /\ pc[c] \notin S
  <2>1. At(S)' = At(S) \cup {c} /\ c \notin At(S)
    BY <1>1, <1>4 DEF At
  <2>2. Cardinality(At(S) \cup {c}) = Cardinality(At(S)) + 1
    BY <1>2, <2>1, FS_AddElement
  <2>3. QED
    BY <1>2, <1>4, <2>1, <2>2 DEF One
<1>5. CASE x \notin S /\ pc[c] \in S
  <2>1. At(S)' = At(S) \ {c} /\ c \in At(S)
    BY <1>1, <1>5 DEF At
  <2>2. Cardinality(At(S) \ {c}) = Cardinality(At(S)) - 1
    BY <1>2, <2>1, FS_RemoveElement
  <2>3. QED
    BY <1>2, <1>5, <2>1, <2>2 DEF One
<1>6. QED
  BY <1>3, <1>4, <1>5

\* The counters follow the client that moves.
Counts(c, x) ==
    /\ readerCount' = readerCount + One(x, CountedReaders) - One(pc[c], CountedReaders)
    /\ blocked' = blocked + One(x, CountedBlocked) - One(pc[c], CountedBlocked)
    /\ writerCount' = writerCount + One(x, CountedWriters) - One(pc[c], CountedWriters)

LEMMA CountStep ==
    ASSUME NEW T, pc \in [Clients -> T], CountInv, NEW c \in Clients, NEW x,
           pc' = [pc EXCEPT ![c] = x], Counts(c, x)
    PROVE  CountInv' /\ readerCount' \in Nat /\ blocked' \in Nat /\ writerCount' \in Nat
<1>1. /\ Cardinality(At(CountedReaders)') \in Nat
      /\ Cardinality(At(CountedBlocked)') \in Nat
      /\ Cardinality(At(CountedWriters)') \in Nat
  <2>1. ASSUME NEW S
        PROVE  Cardinality(At(S)') \in Nat
    <3>1. At(S)' \subseteq Clients
      BY DEF At
    <3>2. IsFiniteSet(At(S)')
      BY <3>1, RWLockAssumption, FS_Subset
    <3>3. QED
      BY <3>2, FS_CardinalityType
  <2>2. QED
    BY <2>1 DEF CountedReaders, CountedBlocked, CountedWriters
<1>2. /\ readerCount' = Cardinality(At(CountedReaders)')
      /\ blocked' = Cardinality(At(CountedBlocked)')
      /\ writerCount' = Cardinality(At(CountedWriters)')
  BY AtMove DEF CountInv, Counts
<1>3. QED
  BY <1>1, <1>2 DEF CountInv, CountedReaders, CountedBlocked, CountedWriters

\* What a counter of 0 or 1 says of the calls.
LEMMA CountFacts ==
    ASSUME CountInv
    PROVE  /\ readerCount \in Nat /\ blocked \in Nat /\ writerCount \in Nat
           /\ readerCount = 0 <=> \A d \in Clients : pc[d] \notin CountedReaders
           /\ readerCount = 1 =>
                 \A d, e \in Clients :
                    pc[d] \in CountedReaders /\ pc[e] \in CountedReaders => d = e
           /\ \A d \in Clients :
                 readerCount > 1 =>
                    \E e \in Clients : e # d /\ pc[e] \in CountedReaders
           /\ writerCount = 0 => \A d \in Clients : pc[d] \notin CountedWriters
<1> DEFINE R == At(CountedReaders)
           W == At(CountedWriters)
<1>1. /\ IsFiniteSet(R) /\ Cardinality(R) \in Nat
      /\ IsFiniteSet(W) /\ Cardinality(W) \in Nat
      /\ blocked \in Nat
  BY AtFinite DEF CountInv
<1>2. readerCount = Cardinality(R) /\ writerCount = Cardinality(W)
  BY DEF CountInv
<1>3. /\ \A d : d \in R <=> d \in Clients /\ pc[d] \in CountedReaders
      /\ \A d : d \in W <=> d \in Clients /\ pc[d] \in CountedWriters
  BY DEF At
<1> HIDE DEF R, W
<1>4. (Cardinality(R) = 0 <=> R = {}) /\ (Cardinality(W) = 0 <=> W = {})
  BY <1>1, FS_EmptySet
<1>5. ASSUME readerCount = 1, NEW d \in R, NEW e \in R
      PROVE  d = e
  <2>1. \E s : R = {s}
    BY <1>1, <1>2, <1>5, FS_Singleton
  <2>2. QED
    BY <2>1
<1>6. ASSUME NEW d, readerCount > 1
      PROVE  \E e \in R : e # d
  <2> SUFFICES ASSUME \A e \in R : e = d
               PROVE  FALSE
    OBVIOUS
  <2>1. R \subseteq {d}
    OBVIOUS
  <2>2. IsFiniteSet({d}) /\ Cardinality({d}) = 1
    BY FS_Singleton
  <2>3. Cardinality(R) <= 1
    BY <2>1, <2>2, FS_Subset
  <2>4. QED
    BY <1>1, <1>2, <1>6, <2>3
<1>7. QED
  BY <1>1, <1>2, <1>3, <1>4, <1>5, <1>6

LEMMA PlaceStep ==
    ASSUME PlaceInv, NEW T, pc \in [Clients -> T], NEW c \in Clients, NEW x,
           queue \in [Locks -> Seq(Entries)], ~ Pending(c),
           pc' = [pc EXCEPT ![c] = x], prefers' = prefers,
           \A m \in Locks, d \in Clients, j \in Kinds :
              Entry(m, d, j)' => Entry(m, d, j) \/ (d = c /\ x \in Place(m, j))
    PROVE  PlaceInv'
<1> SUFFICES ASSUME NEW m \in Locks, NEW d \in Clients, NEW j \in Kinds, Entry(m, d, j)'
             PROVE  pc'[d] \in Place(m, j)'
  BY DEF PlaceInv
<1>1. Place(m, j)' = Place(m, j)
  BY DEF Place
<1>2. CASE d = c /\ x \in Place(m, j)
  BY <1>1, <1>2
<1>3. CASE Entry(m, d, j)
  <2>1. d # c
    BY <1>3, PendingEntry
  <2>2. pc[d] \in Place(m, j)
    BY <1>3 DEF PlaceInv
  <2>3. QED
    BY <1>1, <2>1, <2>2
<1>4. QED
  BY <1>2, <1>3

LEMMA FailedStep ==
    ASSUME FailedInv, failed \in SUBSET Clients, NEW T, pc \in [Clients -> T],
           NEW c \in Clients, NEW x, pc' = [pc EXCEPT ![c] = x],
           \A d \in Clients : Pending(d)' => Pending(d) \/ d = c,
           failed' \subseteq failed \cup {c},
           c \in failed' => ~ Pending(c)' /\ x \in Awaiting
    PROVE  FailedInv'
<1> SUFFICES ASSUME NEW d \in failed'
             PROVE  ~ Pending(d)' /\ pc'[d] \in Awaiting
  BY DEF FailedInv, Awaiting
<1>1. CASE d = c
  BY <1>1
<1>2. CASE d # c
  <2>1. d \in failed /\ d \in Clients
    BY <1>2
  <2>2. QED
    BY <1>2, <2>1 DEF FailedInv
<1>3. QED
  BY <1>1, <1>2

\* A client that is in no Lock's queue.
LEMMA NotWaiting ==
    ASSUME prefers \in {"read", "write"}, queue \in [Locks -> Seq(Entries)], PlaceInv,
           NEW c \in Clients, pc[c] \notin Awaiting \cup {"leaving"}
    PROVE  ~ Pending(c)
<1>1. ASSUME NEW l \in Locks, NEW k \in Kinds
      PROVE  ~ Entry(l, c, k)
  BY <1>1 DEF PlaceInv, Place, Awaiting, Kinds
<1>2. QED
  BY <1>1, PendingEntry

\* The Lock in which a client waits.
LEMMA WaitingPlace ==
    ASSUME prefers \in {"read", "write"}, queue \in [Locks -> Seq(Entries)], PlaceInv,
           NEW c \in Clients, Pending(c)
    PROVE  /\ pc[c] = "writers" => Entry("writers", c, "write")
           /\ pc[c] \in Awaiting \cup {"leaving"}
<1>1. PICK l \in Locks, k \in Kinds : Entry(l, c, k)
  BY PendingEntry
<1>2. pc[c] \in Place(l, k)
  BY <1>1 DEF PlaceInv
<1>3. QED
  BY <1>1, <1>2 DEF Place, Awaiting, Locks, Kinds

\* What is remembered of the writers that waited.
LEMMA AheadStep ==
    ASSUME ahead \in [Clients -> SUBSET Clients], NEW T, pc \in [Clients -> T],
           NEW c \in Clients, NEW x, pc' = [pc EXCEPT ![c] = x], Remember
    PROVE  /\ ahead' \in [Clients -> SUBSET Clients]
           /\ \A d \in Clients :
                 /\ \A w \in ahead'[d] : pc'[w] \in WriterWaits
                 /\ d # c \/ pc[c] # "idle" => ahead'[d] \subseteq ahead[d]
           /\ pc[c] = "idle" /\ x \in ReaderWaits =>
                 ahead'[c] = {w \in Clients : pc[w] \in WriterWaits}
<1>1. ahead' = [d \in Clients |->
                   IF pc[d] = "idle" /\ pc'[d] \in ReaderWaits
                   THEN {w \in Clients : pc[w] \in WriterWaits}
                   ELSE {w \in ahead[d] : pc'[d] # "idle" /\ pc'[w] \in WriterWaits}]
  BY DEF Remember
<1>2. \A d \in Clients : ahead[d] \subseteq Clients /\ pc'[d] = IF d = c THEN x ELSE pc[d]
  OBVIOUS
<1>3. ASSUME NEW d \in Clients
      PROVE  /\ ahead'[d] \subseteq Clients
             /\ \A w \in ahead'[d] : pc'[w] \in WriterWaits
             /\ d # c \/ pc[c] # "idle" => ahead'[d] \subseteq ahead[d]
             /\ d = c /\ pc[c] = "idle" /\ x \in ReaderWaits =>
                   ahead'[d] = {w \in Clients : pc[w] \in WriterWaits}
  <2>1. CASE pc[d] = "idle" /\ pc'[d] \in ReaderWaits
    <3>1. ahead'[d] = {w \in Clients : pc[w] \in WriterWaits}
      BY <1>1, <2>1
    <3>2. d = c /\ pc[c] = "idle"
      BY <1>2, <2>1 DEF ReaderWaits
    <3>3. \A w \in Clients : pc[w] \in WriterWaits => pc'[w] = pc[w]
      BY <1>2, <3>2 DEF WriterWaits
    <3>4. QED
      BY <3>1, <3>2, <3>3
  <2>2. CASE ~ (pc[d] = "idle" /\ pc'[d] \in ReaderWaits)
    <3>1. ahead'[d] = {w \in ahead[d] : pc'[d] # "idle" /\ pc'[w] \in WriterWaits}
      BY <1>1, <2>2
    <3>2. QED
      BY <1>2, <2>2, <3>1
  <2>3. QED
    BY <2>1, <2>2
<1>4. ahead' \in [Clients -> SUBSET Clients]
  BY <1>1, <1>3
<1>5. QED
  BY <1>3, <1>4

\* A call of lock(ctx), seen from the client.
LEMMA LockEffect ==
    ASSUME IInv, NEW l \in Locks, NEW c \in Clients, NEW k \in {"read", "write"},
           NEW signalled, ~ Pending(c), c \notin failed,
           Request(l, c, k, signalled), signalled \in BOOLEAN
    PROVE  /\ QueueTypes'
           /\ \A m \in Locks, d \in Clients, j \in Kinds :
                 Entry(m, d, j)' => Entry(m, d, j) \/ (m = l /\ d = c /\ j = k)
           /\ \A w, d \in Clients : Before(w, d) => Before(w, d)'
           /\ \A d \in Clients : d # c => (Pending(d)' <=> Pending(d))
           /\ failed' \in {failed, failed \cup {c}}
           /\ ~ signalled => failed' = failed
           /\ c \in failed' => ~ Pending(c)'
           /\ \A m \in Locks : m # l => owner'[m] = owner[m]
           /\ Won(c)' => owner'[l] = <<c, k>> /\ owner[l] = None
           /\ ~ Won(c)' => owner'[l] = owner[l]
<1>1. QueueTypes /\ k \in Kinds /\ k # "wait"
  BY DEF IInv, Kinds
<1>2. owner \in [Locks -> Holds \cup {None}]
  BY <1>1 DEF QueueTypes
<1>3. /\ QueueTypes'
      /\ \A m \in Locks, d \in Clients, j \in Kinds :
            Entry(m, d, j)' => Entry(m, d, j) \/ (m = l /\ d = c /\ j = k)
      /\ \A w, d \in Clients : Before(w, d) => Before(w, d)'
      /\ \A d \in Clients : d # c => (Pending(d)' <=> Pending(d))
      /\ \/ signalled /\ failed' = failed \cup {c} /\ owner' = owner /\ ~ Pending(c)'
         \/ /\ failed' = failed /\ owner[l] = None /\ ~ Pending(c)'
            /\ owner' = [owner EXCEPT ![l] = <<c, k>>]
         \/ failed' = failed /\ owner' = owner /\ Pending(c)'
  BY <1>1, RequestEffect
<1>4. CASE signalled /\ failed' = failed \cup {c} /\ owner' = owner /\ ~ Pending(c)'
  BY <1>3, <1>4 DEF Won
<1>5. CASE /\ failed' = failed /\ owner[l] = None /\ ~ Pending(c)'
           /\ owner' = [owner EXCEPT ![l] = <<c, k>>]
  BY <1>2, <1>3, <1>5 DEF Won
<1>6. CASE failed' = failed /\ owner' = owner /\ Pending(c)'
  BY <1>3, <1>6 DEF Won
<1>7. QED
  BY <1>3, <1>4, <1>5, <1>6

\* The release of a Lock: everybody it answers, and whoever has it now.
LEMMA FreeStep ==
    ASSUME IInv, NEW l \in Locks, Free(l)
    PROVE  /\ QueueTypes'
           /\ \A m \in Locks, d \in Clients, j \in Kinds : Entry(m, d, j)' => Entry(m, d, j)
           /\ \A m \in Locks : m # l => owner'[m] = owner[m]
           /\ \A d \in Clients : Pending(d)' => Pending(d)
           /\ \A d \in Clients :
                 Pending(d) /\ ~ Pending(d)' =>
                    \/ pc[d] = "unlock"
                    \/ prefers = "write" /\ l = "writers" /\ pc[d] = "blocked"
                    \/ owner'[l] = <<d, "read">> \/ owner'[l] = <<d, "write">>
           /\ \A d \in Clients, k \in {"read", "write"} :
                 owner'[l] = <<d, k>> =>
                    Pending(d) /\ ~ Pending(d)' /\ d \notin failed /\ pc[d] \in Place(l, k)
           /\ \A w, d \in Clients :
                 Before(w, d) =>
                    Pending(d)' /\ (owner'[l] = <<w, "write">> \/ Before(w, d)')
<1>1. QueueTypes /\ PlaceInv /\ FailedInv /\ prefers \in {"read", "write"}
  BY DEF IInv, TypeOK
<1>2. /\ QueueTypes'
      /\ \A m \in Locks, d \in Clients, j \in Kinds : Entry(m, d, j)' => Entry(m, d, j)
  BY <1>1, FreeEffect
<1>3. PICK x \in Holds \cup {None} : Passed(l, x)
  BY <1>1, FreeEffect
<1>4. owner'[l] = x /\ \A m \in Locks : m # l => owner'[m] = owner[m]
  BY <1>1, <1>3 DEF Passed, QueueTypes
<1>5. QED
  BY <1>2, <1>3, <1>4 DEF Passed

\* An action that leaves both Locks alone.
LEMMA LocksKept ==
    ASSUME QueueTypes, owner' = owner, queue' = queue
    PROVE  /\ QueueTypes'
           /\ \A m, d, j : Entry(m, d, j)' <=> Entry(m, d, j)
           /\ \A d : Pending(d)' <=> Pending(d)
           /\ \A w, d : Before(w, d)' <=> Before(w, d)
BY DEF QueueTypes, Entry, Pending, Before

-----------------------------------------------------------------------------
(* One client moves: the parts of the invariant that do not depend on      *)
(* what it moved for.                                                      *)

PCs == {"idle", "reading", "writing", "unlock"} \cup ReaderWaits \cup WriterWaits \cup Ending

Moved(c, x) ==
    /\ pc' = [pc EXCEPT ![c] = x] /\ x \in PCs
    /\ prefers' = prefers
    /\ QueueTypes'
    /\ \A m \in Locks, d \in Clients, j \in Kinds :
          Entry(m, d, j)' => Entry(m, d, j) \/ (d = c /\ x \in Place(m, j))
    /\ failed' \subseteq failed \cup {c}
    /\ failed \ {c} \subseteq failed'
    /\ c \in failed' => ~ Pending(c)' /\ x \in Awaiting
    /\ Counts(c, x)
    /\ aborted' \subseteq Clients
    /\ settled' \in BOOLEAN
    /\ orphaned' \in BOOLEAN
    /\ release' \in Holds \cup {None}

LEMMA MoveStep ==
    ASSUME IInv, NEW c \in Clients, NEW x, ~ Pending(c), Moved(c, x), Remember
    PROVE  TypeOK' /\ QueueTypes' /\ PlaceInv' /\ FailedInv' /\ CountInv'
<1>1. pc \in [Clients -> PCs] /\ failed \in SUBSET Clients /\ ahead \in [Clients -> SUBSET Clients]
  BY DEF IInv, TypeOK, PCs
<1>2. pc' \in [Clients -> PCs]
  BY <1>1 DEF Moved
<1>3. CountInv' /\ readerCount' \in Nat /\ blocked' \in Nat /\ writerCount' \in Nat
  BY <1>1, CountStep DEF IInv, Moved
<1>4. ahead' \in [Clients -> SUBSET Clients]
  BY <1>1, AheadStep DEF Moved
<1>5. queue \in [Locks -> Seq(Entries)] /\ QueueTypes'
  BY DEF IInv, QueueTypes, Moved
<1>6. TypeOK'
  BY <1>1, <1>2, <1>3, <1>4, <1>5 DEF IInv, TypeOK, QueueTypes, Moved, PCs
<1>7. PlaceInv'
  BY <1>1, <1>5, PlaceStep DEF IInv, Moved
<1>8. \A d \in Clients : Pending(d)' => Pending(d) \/ d = c
  BY <1>5, PendingEntry, PendingEntryNext DEF QueueTypes, Moved
<1>9. FailedInv'
  BY <1>1, <1>8, FailedStep DEF IInv, Moved
<1>10. QED
  BY <1>3, <1>5, <1>6, <1>7, <1>9

\* The writers before the readers, when no reader overtakes one.
LEMMA AheadKept ==
    ASSUME IInv, AheadInv, NEW c \in Clients, NEW x, Moved(c, x), Remember,
           x \in WriterWaits => c \notin failed,
           \A d \in Clients : d # c /\ Pending(d)' => Pending(d),
           \A w, d \in Clients :
              Before(w, d) /\ Pending(d)' => Before(w, d)' \/ owner'["writers"] = <<w, "write">>,
           \A w \in Clients :
              owner["writers"] = <<w, "write">> =>
                 owner'["writers"] = <<w, "write">> \/ (w = c /\ x \notin WriterWaits),
           \A w, d \in Clients :
              pc[d] = "blocked" /\ Pending(d) /\ ~ Pending(d)' =>
                 /\ ~ Before(w, d)
                 /\ owner["writers"] = <<w, "write">> => w = c /\ x \notin WriterWaits,
           x \in {"blocked", "first", "second"} => AheadAt(c)'
    PROVE  AheadInv'
<1> SUFFICES ASSUME NEW d \in Clients
             PROVE  AheadAt(d)'
  BY DEF AheadInv
<1>1. /\ pc \in [Clients -> PCs] /\ failed \in SUBSET Clients
      /\ ahead \in [Clients -> SUBSET Clients]
  BY DEF IInv, TypeOK, PCs
<1>2. /\ \A e \in Clients : pc'[e] = IF e = c THEN x ELSE pc[e]
      /\ pc' = [pc EXCEPT ![c] = x]
      /\ failed \ {c} \subseteq failed'
  BY <1>1 DEF Moved
<1>3. /\ \A w \in ahead'[d] : w \in Clients /\ pc'[w] \in WriterWaits
      /\ d # c => ahead'[d] \subseteq ahead[d]
  <2>1. /\ ahead' \in [Clients -> SUBSET Clients]
        /\ \A e \in Clients :
              /\ \A w \in ahead'[e] : pc'[w] \in WriterWaits
              /\ e # c \/ pc[c] # "idle" => ahead'[e] \subseteq ahead[e]
    BY <1>1, <1>2, AheadStep
  <2>2. QED
    BY <2>1
<1>4. \A w \in ahead'[d] : w \in failed => w \in failed'
  BY <1>2, <1>3
<1>5. CASE d # c
  <2>1. AheadAt(d) /\ pc'[d] = pc[d] /\ (Pending(d)' => Pending(d))
    BY <1>2, <1>5 DEF AheadInv
  <2>2. ASSUME pc[d] \in {"first", "second"} \/ (pc[d] = "blocked" /\ Won(d))
        PROVE  ahead'[d] \subseteq failed'
    BY <1>3, <1>4, <1>5, <2>1, <2>2 DEF AheadAt
  <2>3. ASSUME pc[d] = "blocked", Pending(d), NEW w \in ahead'[d]
        PROVE  \/ w \in failed'
               \/ owner["writers"] = <<w, "write">>
               \/ Before(w, d)
    BY <1>3, <1>4, <1>5, <2>1, <2>3 DEF AheadAt
  <2>4. ASSUME pc[d] = "blocked", Won(d)', ~ Won(d)
        PROVE  ahead'[d] \subseteq failed'
    <3>1. Pending(d) /\ ~ Pending(d)'
      BY <1>2, <1>5, <2>4 DEF Won
    <3>2. ASSUME NEW w \in ahead'[d]
          PROVE  w \in failed'
      <4>1. w \in Clients /\ (w = c => x \in WriterWaits)
        BY <1>2, <1>3
      <4>2. QED
        BY <2>3, <2>4, <3>1, <4>1
    <3>3. QED
      BY <3>2
  <2>5. ASSUME pc[d] = "blocked", Pending(d)', NEW w \in ahead'[d]
        PROVE  \/ w \in failed'
               \/ owner'["writers"] = <<w, "write">>
               \/ Before(w, d)'
    <3>1. w \in Clients /\ (w = c => x \in WriterWaits)
      BY <1>2, <1>3
    <3>2. QED
      BY <2>1, <2>3, <2>5, <3>1
  <2>6. QED
    BY <1>3, <2>1, <2>2, <2>4, <2>5 DEF AheadAt
<1>6. CASE d = c /\ x \notin {"blocked", "first", "second"}
  BY <1>2, <1>3, <1>6 DEF AheadAt
<1>7. QED
  BY <1>5, <1>6

\* An action that moves no reader in or out.
LEMMA SharedKept ==
    ASSUME IInv, NEW c \in Clients, NEW x, Goto(c, x),
           owner'[Shared] = owner[Shared],
           UNCHANGED <<prefers, settled, release, orphaned>>,
           pc[c] # "first", x # "first", x = "reading" => settled,
           \/ pc[c] \in CountedReaders <=> x \in CountedReaders
           \/ \E d \in Clients : d # c /\ pc[d] \in CountedReaders,
           \A d \in Clients : d # c /\ pc[d] = "first" => (Won(d)' <=> Won(d))
    PROVE  SharedInv'
<1>1. pc \in [Clients -> PCs] /\ SharedInv
  BY DEF IInv, TypeOK, PCs
<1>2. \A d \in Clients : pc'[d] = IF d = c THEN x ELSE pc[d]
  BY <1>1 DEF Goto
<1>3. Shared' = Shared
  BY DEF Shared
<1>4. (\E d \in Clients : pc'[d] \in CountedReaders)
         <=> \E d \in Clients : pc[d] \in CountedReaders
  BY <1>2
<1> DEFINE o == owner[Shared]
           r == release
<1>5. (owner[Shared])' = o /\ release' = r
  BY <1>3
<1> HIDE DEF o, r
<1>6. ASSUME NEW d \in Clients
      PROVE  SharedAt(d)'
  <2>1. SharedAt(d)
    BY <1>1 DEF SharedInv
  <2>2. CASE d # c
    BY <1>2, <1>4, <1>5, <2>1, <2>2 DEF SharedAt, o, r
  <2>3. CASE d = c
    BY <1>2, <1>4, <1>5, <2>1, <2>3 DEF SharedAt, o, r
  <2>4. QED
    BY <2>2, <2>3
<1>7. QED
  BY <1>1, <1>2, <1>4, <1>5, <1>6 DEF SharedInv, o, r

\* What the proofs of the actions need to know of the state they start in.
LEMMA Parts ==
    ASSUME IInv
    PROVE  /\ pc \in [Clients -> PCs] /\ failed \in SUBSET Clients
           /\ ahead \in [Clients -> SUBSET Clients] /\ aborted \in SUBSET Clients
           /\ settled \in BOOLEAN /\ orphaned \in BOOLEAN
           /\ release \in Holds \cup {None} /\ prefers \in {"read", "write"}
           /\ owner \in [Locks -> Holds \cup {None}]
           /\ queue \in [Locks -> Seq(Entries)]
           /\ readerCount \in Nat /\ blocked \in Nat /\ writerCount \in Nat
           /\ QueueTypes /\ PlaceInv /\ FailedInv /\ CountInv /\ SharedInv
BY DEF IInv, TypeOK, PCs

-----------------------------------------------------------------------------
(* The three kinds of step: one that leaves the Locks alone, one that      *)
(* releases a Lock and one that asks for it.                               *)

Rest ==
    /\ TypeOK /\ QueueTypes /\ PlaceInv /\ FailedInv /\ CountInv
    /\ prefers = "write" => AheadInv

LEMMA RestGivesIInv ==
    ASSUME Rest', SharedInv', prefers' = prefers,
           prefers = "write" => WriterInv', prefers = "read" => ReaderInv'
    PROVE  IInv'
BY DEF Rest, IInv

\* What each of them does besides.
Goes(c, x) ==
    /\ Goto(c, x) /\ x \in PCs
    /\ prefers' = prefers
    /\ Counts(c, x)
    /\ aborted' \in {aborted, aborted \ {c}}
    /\ settled' \in BOOLEAN /\ orphaned' \in BOOLEAN
    /\ release' \in Holds \cup {None}
    /\ Remember

LEMMA StillStep ==
    ASSUME IInv, NEW c \in Clients, NEW x, Goes(c, x), ~ Pending(c),
           UNCHANGED <<owner, queue>>, failed' \in {failed, failed \ {c}}, c \notin failed',
           x \notin WriterWaits \cup {"blocked", "first", "second"}
    PROVE  /\ Rest'
           /\ \A d \in Clients : pc'[d] = IF d = c THEN x ELSE pc[d]
           /\ \A d \in Clients : d # c => (Won(d)' <=> Won(d))
<1>1. /\ QueueTypes'
      /\ \A m, d, j : Entry(m, d, j)' <=> Entry(m, d, j)
      /\ \A d : Pending(d)' <=> Pending(d)
      /\ \A w, d : Before(w, d)' <=> Before(w, d)
  BY Parts, LocksKept
<1>2. Moved(c, x)
  BY <1>1, Parts DEF Goes, Goto, Moved
<1>3. TypeOK' /\ QueueTypes' /\ PlaceInv' /\ FailedInv' /\ CountInv'
  BY <1>2, MoveStep DEF Goes
<1>4. ASSUME prefers = "write"
      PROVE  AheadInv'
  <2>1. AheadInv
    BY <1>4 DEF IInv
  <2>2. QED
    BY <1>1, <1>2, <2>1, AheadKept DEF Goes
<1>5. \A d \in Clients : pc'[d] = IF d = c THEN x ELSE pc[d]
  BY <1>2, Parts DEF Moved
<1>6. \A d \in Clients : d # c => (Won(d)' <=> Won(d))
  BY <1>1 DEF Won
<1>7. QED
  BY <1>2, <1>3, <1>4, <1>5, <1>6 DEF Rest, Moved

LEMMA ReleaseStep ==
    ASSUME IInv, NEW c \in Clients, NEW x, Goes(c, x), ~ Pending(c),
           NEW l \in Locks, Free(l), failed' \in {failed, failed \ {c}}, c \notin failed',
           prefers = "write" /\ l = "writers" => owner[l] = <<c, "write">>,
           x \notin WriterWaits, x \in {"blocked", "first", "second"} => prefers = "read"
    PROVE  /\ Rest'
           /\ \A m \in Locks : m # l => owner'[m] = owner[m]
           /\ owner'[l] \in Holds \cup {None}
           /\ \A d \in Clients : pc'[d] = IF d = c THEN x ELSE pc[d]
           /\ \A d \in Clients :
                 d # c =>
                    /\ Won(d) => Won(d)'
                    /\ Won(d)' /\ ~ Won(d) =>
                          \/ pc[d] = "unlock"
                          \/ prefers = "write" /\ l = "writers" /\ pc[d] = "blocked"
                          \/ owner'[l] = <<d, "read">> \/ owner'[l] = <<d, "write">>
           /\ \A d \in Clients, k \in {"read", "write"} :
                 owner'[l] = <<d, k>> => d # c /\ Won(d)' /\ ~ Won(d) /\ pc[d] \in Place(l, k)
<1>1. /\ QueueTypes'
      /\ \A m \in Locks, d \in Clients, j \in Kinds : Entry(m, d, j)' => Entry(m, d, j)
      /\ \A m \in Locks : m # l => owner'[m] = owner[m]
      /\ \A d \in Clients : Pending(d)' => Pending(d)
  BY FreeStep
<1>2. \A d \in Clients :
         Pending(d) /\ ~ Pending(d)' =>
            \/ pc[d] = "unlock"
            \/ prefers = "write" /\ l = "writers" /\ pc[d] = "blocked"
            \/ owner'[l] = <<d, "read">> \/ owner'[l] = <<d, "write">>
  BY FreeStep
<1>3. \A d \in Clients, k \in {"read", "write"} :
         owner'[l] = <<d, k>> =>
            Pending(d) /\ ~ Pending(d)' /\ d \notin failed /\ pc[d] \in Place(l, k)
  BY FreeStep
<1>4. \A w, d \in Clients :
         Before(w, d) => Pending(d)' /\ (owner'[l] = <<w, "write">> \/ Before(w, d)')
  BY FreeStep
<1>5. Moved(c, x)
  BY <1>1, Parts DEF Goes, Goto, Moved
<1>6. TypeOK' /\ QueueTypes' /\ PlaceInv' /\ FailedInv' /\ CountInv'
  BY <1>5, MoveStep DEF Goes
<1>7. owner'[l] \in Holds \cup {None}
  BY <1>1 DEF QueueTypes
<1>8. ASSUME prefers = "write"
      PROVE  AheadInv'
  <2>1. AheadInv /\ WriterInv
    BY <1>8 DEF IInv
  <2>2. \A d \in Clients :
           pc[d] = "blocked" /\ Pending(d) /\ ~ Pending(d)' => l = "writers"
    BY <1>2, <1>3, <1>8 DEF Place
  <2>3. \A w \in Clients :
           owner["writers"] = <<w, "write">> => owner'["writers"] = <<w, "write">> \/ w = c
    BY <1>1, <1>8 DEF Locks
  <2>4. ASSUME NEW w \in Clients, NEW d \in Clients, Before(w, d), Pending(d)'
        PROVE  Before(w, d)' \/ owner'["writers"] = <<w, "write">>
    <3>1. CASE l = "writers"
      BY <1>4, <2>4, <3>1
    <3>2. CASE l = "readers"
      <4>1. owner'[l] = <<w, "write">> => pc[w] = "readers" /\ Pending(w)
        BY <1>3, <1>8, <3>2 DEF Place
      <4>2. pc[w] = "readers" => owner["writers"] = <<w, "write">>
        BY <2>1 DEF WriterInv, WriterAt
      <4>3. QED
        BY <1>1, <1>4, <2>4, <3>2, <4>1, <4>2 DEF Locks
    <3>3. QED
      BY <3>1, <3>2 DEF Locks
  <2>5. ASSUME NEW w \in Clients, NEW d \in Clients,
               pc[d] = "blocked", Pending(d), ~ Pending(d)'
        PROVE  ~ Before(w, d) /\ (owner["writers"] = <<w, "write">> => w = c)
    BY <1>4, <1>8, <2>2, <2>5
  <2>6. QED
    BY <1>1, <1>5, <1>8, <2>1, <2>3, <2>4, <2>5, AheadKept DEF Goes
<1>9. \A d \in Clients : pc'[d] = IF d = c THEN x ELSE pc[d]
  BY <1>5, Parts DEF Moved
<1>10. ASSUME NEW d \in Clients, d # c
       PROVE  /\ Won(d) => Won(d)'
              /\ Won(d)' /\ ~ Won(d) => Pending(d) /\ ~ Pending(d)'
  BY <1>1, <1>10 DEF Won
<1>11. \A d \in Clients, k \in {"read", "write"} :
          owner'[l] = <<d, k>> => d # c /\ Won(d)' /\ ~ Won(d) /\ pc[d] \in Place(l, k)
  BY <1>3 DEF Won
<1>12. prefers' = prefers
  BY DEF Goes
<1>13. QED
  BY <1>1, <1>2, <1>6, <1>7, <1>8, <1>9, <1>10, <1>11, <1>12 DEF Rest

LEMMA LockStep ==
    ASSUME IInv, NEW c \in Clients, NEW x, Goes(c, x), ~ Pending(c), c \notin failed,
           NEW l \in Locks, NEW k \in {"read", "write"}, NEW signalled \in BOOLEAN,
           Request(l, c, k, signalled), x \in Place(l, k), signalled => x \in Awaiting,
           x \in {"blocked", "first", "second"} => prefers = "read"
    PROVE  /\ Rest'
           /\ \A m \in Locks : m # l => owner'[m] = owner[m]
           /\ \A d \in Clients : pc'[d] = IF d = c THEN x ELSE pc[d]
           /\ \A d \in Clients : d # c => (Won(d)' <=> Won(d))
           /\ \A d \in failed' : d \in failed \/ (d = c /\ signalled)
           /\ Won(c)' => owner'[l] = <<c, k>> /\ owner[l] = None
           /\ ~ Won(c)' => owner'[l] = owner[l]
           /\ \A d \in Clients :
                 /\ d # c \/ k = "write" =>
                       (owner'[l] = <<d, "read">> <=> owner[l] = <<d, "read">>)
                 /\ d # c \/ k = "read" =>
                       (owner'[l] = <<d, "write">> <=> owner[l] = <<d, "write">>)
<1>1. /\ QueueTypes'
      /\ \A m \in Locks, d \in Clients, j \in Kinds :
            Entry(m, d, j)' => Entry(m, d, j) \/ (m = l /\ d = c /\ j = k)
      /\ \A w, d \in Clients : Before(w, d) => Before(w, d)'
      /\ \A d \in Clients : d # c => (Pending(d)' <=> Pending(d))
      /\ failed' \in {failed, failed \cup {c}}
      /\ ~ signalled => failed' = failed
      /\ c \in failed' => ~ Pending(c)'
      /\ \A m \in Locks : m # l => owner'[m] = owner[m]
      /\ Won(c)' => owner'[l] = <<c, k>> /\ owner[l] = None
      /\ ~ Won(c)' => owner'[l] = owner[l]
  BY LockEffect
<1>2. Moved(c, x)
  BY <1>1, Parts DEF Goes, Goto, Moved
<1>3. TypeOK' /\ QueueTypes' /\ PlaceInv' /\ FailedInv' /\ CountInv'
  BY <1>2, MoveStep DEF Goes
<1>4. ASSUME prefers = "write"
      PROVE  AheadInv'
  <2>1. AheadInv
    BY <1>4 DEF IInv
  <2>2. \A w \in Clients :
           owner["writers"] = <<w, "write">> => owner'["writers"] = <<w, "write">>
    BY <1>1, HoldsNotNone DEF Locks
  <2>3. QED
    BY <1>1, <1>2, <1>4, <2>1, <2>2, AheadKept DEF Goes
<1>5. \A d \in Clients : pc'[d] = IF d = c THEN x ELSE pc[d]
  BY <1>2, Parts DEF Moved
<1>6. \A d \in Clients : d # c => (Won(d)' <=> Won(d))
  BY <1>1 DEF Won
<1>7. ASSUME NEW d \in Clients, NEW j \in {"read", "write"}, d # c \/ j # k
      PROVE  owner'[l] = <<d, j>> <=> owner[l] = <<d, j>>
  <2>1. CASE Won(c)'
    <3>1. owner'[l] = <<c, k>> /\ owner[l] = None
      BY <1>1, <2>1
    <3>2. <<c, k>> # <<d, j>> /\ <<d, j>> # None
      BY <1>7, HoldsNotNone
    <3>3. QED
      BY <3>1, <3>2
  <2>2. CASE ~ Won(c)'
    BY <1>1, <2>2
  <2>3. QED
    BY <2>1, <2>2
<1>8. QED
  BY <1>1, <1>2, <1>3, <1>4, <1>5, <1>6, <1>7 DEF Rest, Moved

-----------------------------------------------------------------------------
(* RWLockWriter.                                                           *)

LEMMA JoinWStep ==
    ASSUME IInv, prefers = "write", NEW c \in Clients, JoinW(c), Remember,
           pc[c] \in {"idle", "blocked"}, ~ Pending(c),
           blocked' = blocked - One(pc[c], CountedBlocked),
           \/ pc[c] = "blocked" /\ Won(c)
           \/ pc[c] = "idle" /\ \A w \in Clients : pc[w] \notin CountedWriters,
           failed \ {c} = failed,
           UNCHANGED <<prefers, writerCount, orphaned>>
    PROVE  IInv'
<1>1. /\ pc \in [Clients -> PCs] /\ failed \in SUBSET Clients
      /\ ahead \in [Clients -> SUBSET Clients]
      /\ aborted \in SUBSET Clients /\ settled \in BOOLEAN /\ orphaned \in BOOLEAN
      /\ release \in Holds \cup {None}
      /\ readerCount \in Nat /\ blocked \in Nat /\ writerCount \in Nat
  BY DEF IInv, TypeOK, PCs
<1>2. QueueTypes /\ PlaceInv /\ FailedInv /\ CountInv /\ SharedInv /\ WriterInv /\ AheadInv
  BY DEF IInv
<1> DEFINE x == IF readerCount = 0 THEN "first" ELSE "second"
<1>3. pc' = [pc EXCEPT ![c] = x] /\ release' = release /\ aborted' = aborted
  BY <1>1 DEF JoinW, Goto
<1>4. Counts(c, x)
  BY <1>1 DEF Counts, JoinW, One, CountedReaders, CountedBlocked, CountedWriters
<1>5. \A w \in Clients : pc[w] \notin {"readers", "writing", "unlocking"}
  BY <1>2 DEF WriterInv, WriterAt, CountedWriters
<1> x \in {"first", "second"}
  OBVIOUS
<1> HIDE DEF x
<1>6. failed \subseteq failed' => AheadAt(c)'
  <2>1. /\ pc[c] # "idle" => ahead'[c] \subseteq ahead[c]
        /\ pc[c] = "idle" => ahead'[c] = {w \in Clients : pc[w] \in WriterWaits}
        /\ \A w \in ahead'[c] : pc'[w] \in WriterWaits
    BY <1>1, <1>3, AheadStep DEF ReaderWaits
  <2>2. CASE pc[c] = "blocked"
    <3>1. ahead[c] \subseteq failed
      BY <1>2, <2>2 DEF AheadInv, AheadAt
    <3>2. QED
      BY <1>1, <1>3, <2>1, <2>2, <3>1 DEF AheadAt
  <2>3. CASE pc[c] = "idle"
    <3>1. ahead'[c] = {}
      BY <2>1, <2>3 DEF WriterWaits, CountedWriters
    <3>2. QED
      BY <1>1, <1>3, <2>1, <3>1 DEF AheadAt
  <2>4. QED
    BY <2>2, <2>3
<1>7. CASE readerCount > 0
  <2>1. UNCHANGED <<owner, queue, failed, settled>> /\ x = "second"
    BY <1>1, <1>7 DEF JoinW, locks, x
  <2>2. /\ QueueTypes'
        /\ \A m, d, j : Entry(m, d, j)' <=> Entry(m, d, j)
        /\ \A d : Pending(d)' <=> Pending(d)
        /\ \A w, d : Before(w, d)' <=> Before(w, d)
    BY <1>2, <2>1, LocksKept
  <2>3. Moved(c, x)
    BY <1>1, <1>2, <1>3, <1>4, <2>1, <2>2 DEF Moved, PCs, ReaderWaits
  <2>4. TypeOK' /\ QueueTypes' /\ PlaceInv' /\ FailedInv' /\ CountInv'
    BY <2>3, MoveStep
  <2>5. AheadInv'
    BY <1>2, <1>6, <2>1, <2>2, <2>3, AheadKept DEF WriterWaits
  <2>6. SharedInv'
    <3>1. \E d \in Clients : pc[d] \in CountedReaders
      BY <1>2, <1>7, CountFacts
    <3>2. QED
      BY <1>1, <1>2, <1>3, <2>1, <2>2, <3>1 DEF SharedInv, SharedAt, Won, Shared, CountedReaders
  <2>7. WriterInv'
    BY <1>1, <1>2, <1>3, <2>1, <2>2 DEF WriterInv, WriterAt, Won
  <2>8. QED
    BY <2>4, <2>5, <2>6, <2>7 DEF IInv
<1>8. CASE readerCount = 0
  <2>1. /\ Request("readers", c, "read", c \in aborted)
        /\ settled' = FALSE /\ x = "first"
    BY <1>1, <1>8 DEF JoinW, x
  <2>2. \A d \in Clients : pc[d] \notin CountedReaders
    BY <1>2, <1>8, CountFacts
  <2>3. \A d \in Clients : owner["readers"] # <<d, "read">>
    BY <1>2, <2>2 DEF SharedInv, SharedAt, Shared, CountedReaders
  <2> DEFINE s == c \in aborted
  <2>4. s \in BOOLEAN /\ Request("readers", c, "read", s) /\ c \notin failed
    BY <2>1
  <2> HIDE DEF s
  <2>5. /\ QueueTypes'
        /\ \A m \in Locks, d \in Clients, j \in Kinds :
              Entry(m, d, j)' => Entry(m, d, j) \/ (m = "readers" /\ d = c /\ j = "read")
        /\ \A w, d \in Clients : Before(w, d) => Before(w, d)'
        /\ \A d \in Clients : d # c => (Pending(d)' <=> Pending(d))
        /\ failed' \in {failed, failed \cup {c}}
        /\ c \in failed' => ~ Pending(c)'
        /\ owner'["writers"] = owner["writers"]
        /\ Won(c)' => owner'["readers"] = <<c, "read">> /\ owner["readers"] = None
        /\ ~ Won(c)' => owner'["readers"] = owner["readers"]
    BY <2>4, LockEffect DEF Locks
  <2>6. Moved(c, x)
    <3>1. x \in PCs /\ x \in Awaiting /\ x \in Place("readers", "read")
      BY <2>1 DEF PCs, ReaderWaits, Awaiting, Place
    <3>2. settled' \in BOOLEAN /\ orphaned' \in BOOLEAN
      BY <1>1, <2>1
    <3>3. release' \in Holds \cup {None} /\ aborted' \subseteq Clients
      BY <1>1, <1>3
    <3>4. QED
      BY <1>3, <1>4, <2>5, <3>1, <3>2, <3>3 DEF Moved
  <2>7. TypeOK' /\ QueueTypes' /\ PlaceInv' /\ FailedInv' /\ CountInv'
    BY <2>6, MoveStep
  <2>8. AheadInv'
    BY <1>2, <1>6, <2>1, <2>5, <2>6, AheadKept DEF WriterWaits
  <2>9. SharedInv'
    <3>1. release \in {None, owner["readers"]}
      BY <1>2 DEF SharedInv, Shared
    <3>2. /\ release' \in {None, owner'["readers"]}
          /\ owner'["readers"] = <<c, "read">> => release' = None
      BY <1>3, <2>3, <2>5, <3>1
    <3>3. ASSUME NEW d \in Clients
          PROVE  SharedAt(d)' /\ (pc'[d] \in CountedReaders => d = c)
      <4>1. CASE d = c
        BY <1>1, <1>3, <2>1, <2>3, <2>5, <3>2, <4>1 DEF SharedAt, Shared
      <4>2. CASE d # c
        BY <1>1, <1>3, <2>1, <2>2, <2>3, <2>5, <4>2 DEF SharedAt, Shared, CountedReaders
      <4>3. QED
        BY <4>1, <4>2
    <3>4. QED
      BY <1>1, <1>3, <2>1, <3>2, <3>3 DEF SharedInv, Shared, CountedReaders
  <2>10. WriterInv'
    BY <1>1, <1>2, <1>3, <1>5, <2>1, <2>5 DEF WriterInv, WriterAt, Won
  <2>11. QED
    BY <2>7, <2>8, <2>9, <2>10 DEF IInv
<1>9. QED
  BY <1>1, <1>7, <1>8

LEMMA ReadWStep ==
    ASSUME IInv, prefers = "write", NEW c \in Clients, ReadW(c), Remember, prefers' = prefers
    PROVE  IInv'
<1>1. WriterInv /\ AheadInv
  BY DEF IInv
<1>2. pc[c] = "idle" /\ writerCount' = writerCount /\ orphaned' = orphaned
  BY DEF ReadW
<1>3. ~ Pending(c) /\ c \notin failed
  BY <1>2, Parts, NotWaiting DEF Awaiting, FailedInv
<1>4. CASE writerCount = 0 /\ JoinW(c) /\ blocked' = blocked
  <2>1. \A w \in Clients : pc[w] \notin CountedWriters
    BY <1>4, Parts, CountFacts
  <2>2. blocked' = blocked - One(pc[c], CountedBlocked)
    BY <1>2, <1>4, Parts DEF One, CountedBlocked
  <2>3. QED
    BY <1>2, <1>3, <1>4, <2>1, <2>2, JoinWStep
<1>5. CASE /\ blocked' = blocked + 1
           /\ Request("writers", c, "wait", c \in aborted)
           /\ Goto(c, "blocked")
           /\ UNCHANGED <<aborted, readerCount, settled, release>>
  <2> DEFINE s == c \in aborted
  <2>1. s \in BOOLEAN /\ Request("writers", c, "wait", s)
    BY <1>5
  <2> HIDE DEF s
  <2>2. /\ QueueTypes'
        /\ \A m \in Locks, d \in Clients, j \in Kinds :
              Entry(m, d, j)' => Entry(m, d, j) \/ (m = "writers" /\ d = c /\ j = "wait")
        /\ \A w, d \in Clients : Before(w, d) => Before(w, d)'
        /\ \A d \in Clients : d # c => (Pending(d)' <=> Pending(d))
        /\ owner' = owner
        /\ \/ failed' = failed \cup {c} /\ ~ Pending(c)'
           \/ failed' = failed /\ owner["writers"] = None /\ ~ Pending(c)'
           \/ /\ failed' = failed /\ owner["writers"] # None /\ Pending(c)'
              /\ \A w \in Clients : Entry("writers", w, "write") => Before(w, c)'
    BY <1>3, <2>1, Parts, RequestEffect DEF Locks, Kinds
  <2>3. /\ pc' = [pc EXCEPT ![c] = "blocked"]
        /\ failed' \in {failed, failed \cup {c}}
        /\ c \in failed' => ~ Pending(c)'
        /\ \A d \in Clients : d # c => (Won(d)' <=> Won(d))
    BY <1>3, <1>5, <2>2 DEF Goto, Won
  <2>4. Counts(c, "blocked")
    BY <1>2, <1>5, Parts DEF Counts, One, CountedReaders, CountedBlocked, CountedWriters
  <2>5. Moved(c, "blocked")
    <3>1. "blocked" \in Place("writers", "wait") /\ "blocked" \in PCs /\ "blocked" \in Awaiting
      BY DEF Place, PCs, ReaderWaits, Awaiting
    <3>2. QED
      BY <1>2, <1>5, <2>2, <2>3, <2>4, <3>1, Parts DEF Moved
  <2>6. TypeOK' /\ QueueTypes' /\ PlaceInv' /\ FailedInv' /\ CountInv'
    BY <1>3, <2>5, MoveStep
  <2>7. SharedInv'
    BY <1>2, <1>5, <2>2, <2>3, SharedKept DEF CountedReaders
  \* Whoever waits as a writer has failed, holds writersLock or is queued.
  <2>8. ASSUME NEW w \in Clients, pc[w] \in WriterWaits
        PROVE  \/ w \in failed
               \/ owner["writers"] = <<w, "write">>
               \/ Entry("writers", w, "write") /\ owner["writers"] # None
    <3>1. WriterAt(w)
      BY <1>1 DEF WriterInv
    <3>2. CASE Pending(w) /\ pc[w] = "writers"
      <4>1. Entry("writers", w, "write")
        BY <3>2, Parts, WaitingPlace
      <4>2. queue["writers"] # <<>>
        <5> DEFINE q == queue["writers"]
        <5> HIDE DEF q
        <5>1. \E i \in DOMAIN q : TRUE
          BY <4>1 DEF Entry, Has, q
        <5>2. q # <<>>
          BY <5>1
        <5>3. QED
          BY <5>2 DEF q
      <4>3. QED
        BY <4>1, <4>2, Parts DEF QueueTypes, Locks
    <3>3. CASE ~ Pending(w) \/ pc[w] # "writers"
      BY <2>8, <3>1, <3>3 DEF WriterAt, Won, WriterWaits
    <3>4. QED
      BY <3>2, <3>3
  <2>9. AheadAt(c)'
    <3>1. /\ ahead'[c] = {w \in Clients : pc[w] \in WriterWaits}
          /\ \A w \in ahead'[c] : pc'[w] \in WriterWaits
      BY <1>2, <2>3, Parts, AheadStep DEF ReaderWaits
    <3>2. ASSUME NEW w \in ahead'[c]
          PROVE  /\ Won(c)' => w \in failed'
                 /\ Pending(c)' => \/ w \in failed'
                                   \/ owner'["writers"] = <<w, "write">>
                                   \/ Before(w, c)'
      BY <2>2, <2>8, <3>1, HoldsNotNone DEF Won
    <3>3. pc'[c] = "blocked"
      BY <2>3, Parts
    <3>4. QED
      BY <3>1, <3>2, <3>3 DEF AheadAt
  <2>10. AheadInv'
    BY <1>1, <1>3, <2>2, <2>5, <2>9, AheadKept DEF WriterWaits
  <2>11. WriterInv'
    <3>1. Won(c)' => owner["writers"] = None
      BY <2>2 DEF Won
    <3>2. ASSUME NEW d \in Clients
          PROVE  WriterAt(d)'
      <4>1. WriterAt(d) /\ pc'[d] = (IF d = c THEN "blocked" ELSE pc[d])
        BY <1>1, <2>3, Parts DEF WriterInv
      <4>2. pc[d] \in {"readers", "writing", "unlocking"} => ~ Won(c)'
        BY <3>1, <4>1, HoldsNotNone DEF WriterAt
      <4>3. \A r \in Clients : r # c => pc'[r] = pc[r] /\ (Won(r)' <=> Won(r))
        BY <2>2, <2>3, Parts DEF Won
      <4>4. QED
        BY <1>2, <1>5, <2>2, <4>1, <4>2, <4>3 DEF WriterAt
    <3>3. QED
      BY <3>2 DEF WriterInv
  <2>12. QED
    BY <2>6, <2>7, <2>10, <2>11 DEF IInv
<1>6. QED
  BY <1>4, <1>5 DEF ReadW

LEMMA BlockedWStep ==
    ASSUME IInv, prefers = "write", NEW c \in Clients, BlockedW(c), Remember, prefers' = prefers
    PROVE  IInv'
<1>1. WriterInv /\ AheadInv
  BY DEF IInv
<1>2. /\ pc[c] = "blocked" /\ ~ Pending(c)
      /\ blocked' = blocked - 1 /\ writerCount' = writerCount /\ orphaned' = orphaned
  BY DEF BlockedW, Answered
<1>3. CASE c \notin failed /\ JoinW(c)
  <2>1. blocked' = blocked - One(pc[c], CountedBlocked)
    BY <1>2 DEF One, CountedBlocked
  <2>2. QED
    BY <1>2, <1>3, <2>1, JoinWStep DEF Won
<1>4. CASE /\ c \in failed /\ failed' = failed \ {c} /\ Return(c, "idle")
           /\ UNCHANGED <<owner, queue, readerCount, settled, release>>
  <2>1. Goes(c, "idle")
    BY <1>2, <1>4, Parts
       DEF Goes, Return, PCs, Counts, One, CountedReaders, CountedBlocked, CountedWriters
  <2>2. /\ Rest'
        /\ \A d \in Clients : pc'[d] = IF d = c THEN "idle" ELSE pc[d]
        /\ \A d \in Clients : d # c => (Won(d)' <=> Won(d))
    BY <1>2, <1>4, <2>1, StillStep DEF WriterWaits
  <2>3. SharedInv'
    BY <1>2, <1>4, <2>1, <2>2, SharedKept DEF CountedReaders, Goes
  <2>4. WriterInv'
    BY <1>1, <1>2, <1>4, <2>2 DEF WriterInv, WriterAt
  <2>5. QED
    BY <2>2, <2>3, <2>4, RestGivesIInv
<1>5. QED
  BY <1>3, <1>4 DEF BlockedW


LEMMA FirstWStep ==
    ASSUME IInv, prefers = "write", NEW c \in Clients, FirstW(c), Remember, prefers' = prefers
    PROVE  IInv'
<1>1. WriterInv /\ SharedInv
  BY DEF IInv
<1>2. /\ pc[c] = "first" /\ ~ Pending(c) /\ settled' = TRUE
      /\ UNCHANGED <<owner, queue, blocked, writerCount>>
  BY DEF FirstW, Answered
<1>3. /\ ~ settled
      /\ release \in {None, owner["readers"]}
      /\ \A d \in Clients : pc[d] = "first" => d = c
      /\ \A d \in Clients : owner["readers"] = <<d, "read">> => d = c /\ Won(c)
      /\ Won(c) => owner["readers"] = <<c, "read">> /\ release = None
      /\ \A d \in Clients : pc[d] # "reading"
  BY <1>1, <1>2 DEF SharedInv, SharedAt, Shared
<1>4. CASE /\ c \in failed /\ failed' = failed \ {c}
           /\ readerCount' = readerCount - 1
           /\ orphaned' = (orphaned \/ readerCount > 1)
           /\ Return(c, "idle")
           /\ release' = release
  <2>1. orphaned' \in BOOLEAN
    BY <1>4, Parts
  <2>2. Goes(c, "idle")
    BY <1>2, <1>4, <2>1, Parts
       DEF Goes, Return, PCs, Counts, One, CountedReaders, CountedBlocked, CountedWriters
  <2>3. /\ Rest'
        /\ \A d \in Clients : pc'[d] = IF d = c THEN "idle" ELSE pc[d]
        /\ \A d \in Clients : d # c => (Won(d)' <=> Won(d))
    BY <1>2, <1>4, <2>2, StillStep DEF WriterWaits
  <2>4. \A d \in Clients : owner["readers"] # <<d, "read">>
    BY <1>3, <1>4 DEF Won
  <2>5. ~ orphaned' => \A d \in Clients : pc'[d] \notin CountedReaders
    <3>1. readerCount > 1 => orphaned'
      BY <1>4
    <3>2. ~ (readerCount > 1) => \A d \in Clients : pc[d] \in CountedReaders => d = c
      BY <1>2, Parts, CountFacts DEF CountedReaders
    <3>3. QED
      BY <2>3, <3>1, <3>2 DEF CountedReaders
  <2>6. SharedInv'
    <3>1. \A d \in Clients : SharedAt(d)'
      BY <1>2, <1>3, <1>4, <2>3, <2>4 DEF SharedAt, Shared
    <3>2. QED
      BY <1>2, <1>3, <1>4, <2>3, <2>5, <3>1 DEF SharedInv, Shared
  <2>7. WriterInv'
    <3>1. ASSUME NEW d \in Clients
          PROVE  WriterAt(d)'
      <4>1. WriterAt(d)
        BY <1>1 DEF WriterInv
      <4>2. \A r \in Clients : pc'[r] = "blocked" => pc[r] = "blocked" /\ (Won(r)' <=> Won(r))
        BY <2>3
      <4>3. CASE d = c
        BY <1>2, <1>4, <2>3, <4>1, <4>3 DEF WriterAt
      <4>4. CASE d # c
        BY <1>2, <1>4, <2>3, <4>1, <4>2, <4>4 DEF WriterAt
      <4>5. QED
        BY <4>3, <4>4
    <3>2. QED
      BY <3>1 DEF WriterInv
  <2>8. QED
    BY <2>3, <2>6, <2>7, RestGivesIInv
<1>5. CASE /\ c \notin failed /\ release' = <<c, "read">>
           /\ Return(c, "reading")
           /\ UNCHANGED <<failed, readerCount, orphaned>>
  <2>1. Goes(c, "reading")
    <3>1. release' \in Holds \cup {None}
      BY <1>5, HoldsNotNone
    <3>2. QED
      BY <1>2, <1>5, <3>1, Parts
         DEF Goes, Return, PCs, Counts, One, CountedReaders, CountedBlocked, CountedWriters
  <2>2. /\ Rest'
        /\ \A d \in Clients : pc'[d] = IF d = c THEN "reading" ELSE pc[d]
        /\ \A d \in Clients : d # c => (Won(d)' <=> Won(d))
    BY <1>2, <1>5, <2>1, StillStep DEF WriterWaits
  <2>3. owner["readers"] = <<c, "read">> /\ release' = owner["readers"] /\ release' # None
    BY <1>2, <1>3, <1>5, HoldsNotNone DEF Won
  <2>4. SharedInv'
    <3>1. \A d \in Clients : SharedAt(d)'
      BY <1>2, <1>3, <2>2, <2>3 DEF SharedAt, Shared, CountedReaders
    <3>2. QED
      BY <1>2, <1>3, <2>2, <2>3, <3>1 DEF SharedInv, Shared
  <2>5. WriterInv'
    <3>1. \A d \in Clients : owner["readers"] # <<d, "write">> /\ owner["readers"] # None
      BY <2>3
    <3>2. QED
      BY <1>1, <1>2, <1>5, <2>2, <3>1 DEF WriterInv, WriterAt
  <2>6. QED
    BY <2>2, <2>4, <2>5, RestGivesIInv
<1>6. QED
  BY <1>2, <1>4, <1>5 DEF FirstW

\* Both variants have this action.
LEMMA SecondStep ==
    ASSUME IInv, NEW c \in Clients, Second(c), Remember, prefers' = prefers
    PROVE  IInv'
<1>1. /\ pc[c] = "second" /\ settled
      /\ UNCHANGED <<owner, queue, failed, readerCount, blocked, writerCount>>
      /\ UNCHANGED <<settled, release, orphaned>>
      /\ Return(c, "reading")
  BY DEF Second, locks, counts
<1>2. ~ Pending(c) /\ c \notin failed
  BY <1>1, Parts, NotWaiting DEF Awaiting, FailedInv
<1>3. Goes(c, "reading")
  BY <1>1, Parts
     DEF Goes, Return, PCs, Counts, One, CountedReaders, CountedBlocked, CountedWriters
<1>4. /\ Rest'
      /\ \A d \in Clients : pc'[d] = IF d = c THEN "reading" ELSE pc[d]
      /\ \A d \in Clients : d # c => (Won(d)' <=> Won(d))
  BY <1>1, <1>2, <1>3, StillStep DEF WriterWaits
<1>5. SharedInv'
  BY <1>1, <1>3, <1>4, SharedKept DEF CountedReaders, Goes
<1>6. ASSUME prefers = "write"
      PROVE  WriterInv'
  BY <1>1, <1>4, <1>6 DEF IInv, WriterInv, WriterAt
<1>7. ASSUME prefers = "read"
      PROVE  ReaderInv'
  BY <1>1, <1>4, <1>7 DEF IInv, ReaderInv, ReaderAt, CountedReaders
<1>8. QED
  BY <1>4, <1>5, <1>6, <1>7, RestGivesIInv

LEMMA EndReadWStep ==
    ASSUME IInv, prefers = "write", NEW c \in Clients, EndReadW(c), Remember, prefers' = prefers
    PROVE  IInv'
<1>1. WriterInv /\ SharedInv
  BY DEF IInv
<1>2. /\ pc[c] = "reading" /\ readerCount' = readerCount - 1 /\ Goto(c, "idle")
      /\ UNCHANGED <<failed, aborted, blocked, writerCount, settled, orphaned>>
  BY DEF EndReadW
<1>3. ~ Pending(c) /\ c \notin failed
  BY <1>2, Parts, NotWaiting DEF Awaiting, FailedInv
<1>4. /\ settled
      /\ release \in {None, owner["readers"]}
      /\ \A d \in Clients : pc[d] # "first"
      /\ \A d \in Clients : owner["readers"] = <<d, "read">> => release = owner["readers"]
      /\ ~ orphaned => \E d \in Clients : owner["readers"] = <<d, "read">>
  BY <1>1, <1>2 DEF SharedInv, SharedAt, Shared, CountedReaders
<1>5. CASE UNCHANGED <<owner, queue, release>>
           /\ (readerCount = 1 => owner["readers"] = None \/ release # owner["readers"])
  <2>1. Goes(c, "idle")
    BY <1>2, <1>5, Parts
       DEF Goes, PCs, Counts, One, CountedReaders, CountedBlocked, CountedWriters
  <2>2. /\ Rest'
        /\ \A d \in Clients : pc'[d] = IF d = c THEN "idle" ELSE pc[d]
        /\ \A d \in Clients : d # c => (Won(d)' <=> Won(d))
    BY <1>2, <1>3, <1>5, <2>1, StillStep DEF WriterWaits
  <2>3. \/ \E d \in Clients : pc'[d] \in CountedReaders
        \/ /\ \A d \in Clients : owner["readers"] # <<d, "read">>
           /\ \A d \in Clients : pc'[d] \notin CountedReaders
    <3>1. CASE readerCount = 1
      BY <1>2, <1>4, <1>5, <2>2, <3>1, Parts, CountFacts, HoldsNotNone DEF CountedReaders
    <3>2. CASE readerCount # 1
      <4>1. readerCount > 1
        BY <1>2, <3>2, Parts, CountFacts DEF CountedReaders
      <4>2. \E e \in Clients : e # c /\ pc[e] \in CountedReaders
        BY <4>1, Parts, CountFacts
      <4>3. QED
        BY <2>2, <4>2
    <3>3. QED
      BY <3>1, <3>2
  <2>4. SharedInv'
    <3>1. \A d \in Clients : SharedAt(d)'
      BY <1>2, <1>4, <1>5, <2>2, <2>3, HoldsNotNone DEF SharedAt, Shared
    <3>2. QED
      BY <1>2, <1>4, <1>5, <2>2, <2>3, <3>1 DEF SharedInv, Shared
  <2>5. WriterInv'
    BY <1>1, <1>2, <1>5, <2>2 DEF WriterInv, WriterAt
  <2>6. QED
    BY <2>2, <2>4, <2>5, RestGivesIInv
<1>6. CASE /\ readerCount = 1 /\ owner["readers"] # None /\ release = owner["readers"]
           /\ release' = None /\ Free("readers")
  <2>1. Goes(c, "idle")
    BY <1>2, <1>6, Parts
       DEF Goes, PCs, Counts, One, CountedReaders, CountedBlocked, CountedWriters
  <2>2. /\ Rest'
        /\ owner'["writers"] = owner["writers"]
        /\ owner'["readers"] \in Holds \cup {None}
        /\ \A d \in Clients : pc'[d] = IF d = c THEN "idle" ELSE pc[d]
        /\ \A d \in Clients :
              d # c =>
                 /\ Won(d) => Won(d)'
                 /\ Won(d)' /\ ~ Won(d) =>
                       \/ pc[d] = "unlock"
                       \/ owner'["readers"] = <<d, "read">> \/ owner'["readers"] = <<d, "write">>
        /\ \A d \in Clients, k \in {"read", "write"} :
              owner'["readers"] = <<d, k>> =>
                 d # c /\ Won(d)' /\ ~ Won(d) /\ pc[d] \in Place("readers", k)
    BY <1>2, <1>3, <1>6, <2>1, ReleaseStep DEF WriterWaits, Locks
  <2>3. \A d \in Clients :
           /\ owner'["readers"] # <<d, "read">>
           /\ owner'["readers"] = <<d, "write">> => pc[d] = "readers" /\ Won(d)'
    BY <1>4, <2>2 DEF Place
  <2>4. \A d \in Clients : pc'[d] \notin CountedReaders
    BY <1>2, <1>6, <2>2, Parts, CountFacts DEF CountedReaders
  <2>5. SharedInv'
    <3>1. \A d \in Clients : SharedAt(d)'
      BY <1>2, <1>4, <1>6, <2>2, <2>3, <2>4 DEF SharedAt, Shared, CountedReaders
    <3>2. QED
      BY <1>2, <1>4, <1>6, <2>2, <2>4, <3>1 DEF SharedInv, Shared, CountedReaders
  \* A writer that loses the Lock to an orphan is not followed by another.
  <2>6. ASSUME NEW w \in Clients, pc[w] = "writing"
        PROVE  orphaned /\ owner'["readers"] = None
    <3>1. owner["readers"] = <<w, "write">> /\ owner["writers"] = <<w, "write">>
      BY <1>1, <1>6, <2>6 DEF WriterInv, WriterAt
    <3>2. orphaned
      BY <1>4, <3>1
    <3>3. \A d \in Clients : pc[d] = "readers" => d = w
      BY <1>1, <3>1 DEF WriterInv, WriterAt
    <3>4. \A d \in Clients : owner'["readers"] # <<d, "write">>
      BY <2>3, <2>6, <3>3
    <3>5. QED
      BY <2>2, <2>3, <3>2, <3>4 DEF Holds
  <2>7. \A d \in Clients : ~ (pc[d] = "readers" /\ Won(d))
    BY <1>1, <1>4, <1>6 DEF WriterInv, WriterAt
  <2>8. WriterInv'
    <3> SUFFICES ASSUME NEW d \in Clients
                 PROVE  WriterAt(d)'
      BY DEF WriterInv
    <3>1. WriterAt(d)
      BY <1>1 DEF WriterInv
    <3>2. \A r \in Clients : pc'[r] = "blocked" /\ Won(r)' => pc[r] = "blocked" /\ Won(r)
      BY <2>2, <2>3
    <3>3. QED
      BY <1>2, <1>6, <2>2, <2>3, <2>6, <2>7, <3>1, <3>2, HoldsNotNone DEF WriterAt
  <2>9. QED
    BY <2>2, <2>5, <2>8, RestGivesIInv
<1>7. QED
  BY <1>5, <1>6 DEF EndReadW, FreeShared

\* Both variants have this action.
LEMMA WriteStep ==
    ASSUME IInv, NEW c \in Clients, WriteW(c) \/ WriteR(c), Remember, prefers' = prefers
    PROVE  IInv'
<1>1. /\ pc[c] = "idle" /\ writerCount' = writerCount + 1
      /\ Request("writers", c, "write", c \in aborted)
      /\ Goto(c, "writers")
      /\ UNCHANGED <<aborted, readerCount, blocked, settled, release, orphaned>>
  BY DEF WriteW, WriteR
<1>2. ~ Pending(c) /\ c \notin failed
  BY <1>1, Parts, NotWaiting DEF Awaiting, FailedInv
<1>3. Goes(c, "writers")
  BY <1>1, Parts
     DEF Goes, PCs, WriterWaits, Counts, One, CountedReaders, CountedBlocked, CountedWriters
<1> DEFINE s == c \in aborted
<1>4. s \in BOOLEAN /\ Request("writers", c, "write", s)
  BY <1>1
<1> HIDE DEF s
<1>5. "writers" \in Place("writers", "write") /\ "writers" \in Awaiting
  BY Parts DEF Place, Awaiting
<1>6. /\ Rest'
      /\ owner'["readers"] = owner["readers"]
      /\ \A d \in Clients : pc'[d] = IF d = c THEN "writers" ELSE pc[d]
      /\ \A d \in Clients : d # c => (Won(d)' <=> Won(d))
      /\ \A d \in failed' : d \in failed \/ d = c
      /\ Won(c)' => owner'["writers"] = <<c, "write">> /\ owner["writers"] = None
      /\ ~ Won(c)' => owner'["writers"] = owner["writers"]
      /\ \A d \in Clients :
            /\ owner'["writers"] = <<d, "read">> <=> owner["writers"] = <<d, "read">>
            /\ d # c => (owner'["writers"] = <<d, "write">> <=> owner["writers"] = <<d, "write">>)
  BY <1>2, <1>3, <1>4, <1>5, LockStep DEF Locks
<1>7. CASE prefers = "write"
  <2>1. SharedInv'
    BY <1>1, <1>3, <1>6, <1>7, SharedKept DEF CountedReaders, Goes, Shared
  <2>2. WriterInv'
    <3>1. ASSUME NEW d \in Clients
          PROVE  WriterAt(d)'
      <4>1. WriterAt(d)
        BY <1>7 DEF IInv, WriterInv
      <4>2. \A r \in Clients : pc'[r] = "blocked" /\ Won(r)' => pc[r] = "blocked" /\ Won(r)
        BY <1>6
      <4>3. CASE d = c
        BY <1>1, <1>6, <4>1, <4>3, HoldsNotNone DEF WriterAt
      <4>4. CASE d # c
        BY <1>1, <1>6, <4>1, <4>2, <4>4 DEF WriterAt
      <4>5. QED
        BY <4>3, <4>4
    <3>2. QED
      BY <3>1 DEF WriterInv
  <2>3. QED
    BY <1>6, <1>7, <2>1, <2>2, RestGivesIInv DEF Goes
<1>8. CASE prefers = "read"
  <2>1. SharedInv'
    <3>1. CASE Won(c)'
      <4>1. /\ release = None
            /\ ~ orphaned /\ settled => \A d \in Clients : pc[d] \notin CountedReaders
            /\ \A d \in Clients : ~ (pc[d] = "first" /\ Won(d))
        BY <1>6, <1>8, <3>1, Parts, HoldsNotNone DEF SharedInv, SharedAt, Shared
      <4>2. \A d \in Clients : SharedAt(d)'
        BY <1>1, <1>6, <1>8, <3>1, <4>1, Parts DEF SharedInv, SharedAt, Shared
      <4>3. QED
        BY <1>1, <1>6, <1>8, <3>1, <4>1, <4>2, Parts DEF SharedInv, Shared, CountedReaders
    <3>2. CASE ~ Won(c)'
      BY <1>1, <1>3, <1>6, <1>8, <3>2, SharedKept DEF CountedReaders, Goes, Shared
    <3>3. QED
      BY <3>1, <3>2
  <2>2. ReaderInv'
    <3>1. ASSUME NEW d \in Clients
          PROVE  ReaderAt(d)'
      <4>1. ReaderAt(d)
        BY <1>8 DEF IInv, ReaderInv
      <4>2. CASE d = c
        BY <1>1, <1>6, <4>1, <4>2, HoldsNotNone DEF ReaderAt, CountedReaders
      <4>3. CASE d # c
        BY <1>1, <1>6, <4>1, <4>3 DEF ReaderAt, CountedReaders
      <4>4. QED
        BY <4>2, <4>3
    <3>2. QED
      BY <1>1, <1>8, <3>1 DEF IInv, ReaderInv
  <2>3. QED
    BY <1>6, <1>8, <2>1, <2>2, RestGivesIInv DEF Goes
<1>9. QED
  BY <1>7, <1>8, Parts

LEMMA WritersWStep ==
    ASSUME IInv, prefers = "write", NEW c \in Clients, WritersW(c), Remember, prefers' = prefers
    PROVE  IInv'
<1>1. WriterInv /\ SharedInv
  BY DEF IInv
<1>2. /\ pc[c] = "writers" /\ ~ Pending(c)
      /\ UNCHANGED <<readerCount, blocked, settled, release, orphaned>>
  BY DEF WritersW, Answered
<1>3. CASE /\ c \in failed /\ failed' = failed \ {c}
           /\ writerCount' = writerCount - 1
           /\ Return(c, "idle")
           /\ UNCHANGED <<owner, queue>>
  <2>1. Goes(c, "idle")
    BY <1>2, <1>3, Parts
       DEF Goes, Return, PCs, Counts, One, CountedReaders, CountedBlocked, CountedWriters
  <2>2. /\ Rest'
        /\ \A d \in Clients : pc'[d] = IF d = c THEN "idle" ELSE pc[d]
        /\ \A d \in Clients : d # c => (Won(d)' <=> Won(d))
    BY <1>2, <1>3, <2>1, StillStep DEF WriterWaits
  <2>3. SharedInv'
    BY <1>2, <1>3, <2>1, <2>2, SharedKept DEF CountedReaders, Goes
  <2>4. ~ Won(c)
    BY <1>3 DEF Won
  <2>5. WriterInv'
    BY <1>1, <1>2, <1>3, <2>2, <2>4 DEF WriterInv, WriterAt
  <2>6. QED
    BY <2>2, <2>3, <2>5, RestGivesIInv
<1>4. CASE /\ c \notin failed
           /\ ~ \E r \in Clients \ failed : pc[r] = "blocked" /\ Answered(r)
           /\ Request("readers", c, "write", c \in aborted)
           /\ Goto(c, "readers")
           /\ UNCHANGED <<aborted, writerCount>>
  <2>1. Goes(c, "readers")
    BY <1>2, <1>4, Parts
       DEF Goes, PCs, WriterWaits, Counts, One, CountedReaders, CountedBlocked, CountedWriters
  <2> DEFINE s == c \in aborted
  <2>2. s \in BOOLEAN /\ Request("readers", c, "write", s)
    BY <1>4
  <2> HIDE DEF s
  <2>3. "readers" \in Place("readers", "write") /\ "readers" \in Awaiting
    BY DEF Place, Awaiting
  <2>4. /\ Rest'
        /\ owner'["writers"] = owner["writers"]
        /\ \A d \in Clients : pc'[d] = IF d = c THEN "readers" ELSE pc[d]
        /\ \A d \in Clients : d # c => (Won(d)' <=> Won(d))
        /\ Won(c)' => owner'["readers"] = <<c, "write">> /\ owner["readers"] = None
        /\ ~ Won(c)' => owner'["readers"] = owner["readers"]
    BY <1>2, <1>4, <2>1, <2>2, <2>3, LockStep DEF Locks
  <2>5. Won(c) /\ \A r \in Clients : ~ (pc[r] = "blocked" /\ Won(r))
    BY <1>2, <1>4 DEF Won, Answered
  <2>6. owner["writers"] = <<c, "write">>
    BY <1>1, <1>2, <2>5 DEF WriterInv, WriterAt
  <2>7. SharedInv'
    <3>1. CASE Won(c)'
      <4>1. /\ release = None
            /\ ~ orphaned /\ settled => \A d \in Clients : pc[d] \notin CountedReaders
            /\ \A d \in Clients : ~ (pc[d] = "first" /\ Won(d))
        BY <1>1, <2>4, <3>1, HoldsNotNone DEF SharedInv, SharedAt, Shared
      <4>2. \A d \in Clients : SharedAt(d)'
        BY <1>1, <1>2, <2>4, <3>1, <4>1 DEF SharedInv, SharedAt, Shared
      <4>3. QED
        BY <1>1, <1>2, <2>4, <3>1, <4>1, <4>2 DEF SharedInv, Shared, CountedReaders
    <3>2. CASE ~ Won(c)'
      BY <1>2, <2>1, <2>4, <3>2, SharedKept DEF CountedReaders, Goes, Shared
    <3>3. QED
      BY <3>1, <3>2
  <2>8. WriterInv'
    <3>1. ASSUME NEW d \in Clients
          PROVE  WriterAt(d)'
      <4>1. WriterAt(d)
        BY <1>1 DEF WriterInv
      <4>2. \A r \in Clients : ~ (pc'[r] = "blocked" /\ Won(r)')
        BY <2>4, <2>5
      <4>3. CASE d = c
        <5>1. Won(c)' => release = None
          BY <1>1, <2>4, HoldsNotNone DEF SharedInv, Shared
        <5>2. QED
          BY <1>2, <2>4, <2>6, <4>1, <4>2, <4>3, <5>1 DEF WriterAt
      <4>4. CASE d # c
        <5>1. pc[d] \notin {"readers", "writing", "unlocking"}
          BY <2>6, <4>1, <4>4 DEF WriterAt
        <5>2. QED
          BY <1>2, <2>4, <4>1, <4>4, <5>1 DEF WriterAt
      <4>5. QED
        BY <4>3, <4>4
    <3>2. QED
      BY <3>1 DEF WriterInv
  <2>9. QED
    BY <2>4, <2>7, <2>8, RestGivesIInv
<1>5. QED
  BY <1>3, <1>4 DEF WritersW

\* writersLock passes to the next writer, and blocked readers are answered.
LEMMA WritersLockFreed ==
    ASSUME IInv, prefers = "write", NEW c \in Clients, Free("writers"), ~ Pending(c),
           pc[c] \in {"readers", "unlocking"}, ~ (pc[c] = "readers" /\ Won(c)),
           Goes(c, "released"), failed' \in {failed, failed \ {c}}, c \notin failed',
           UNCHANGED <<settled, release, orphaned>>
    PROVE  IInv'
<1>1. WriterInv
  BY DEF IInv
<1>2. owner["writers"] = <<c, "write">>
  BY <1>1 DEF WriterInv, WriterAt
<1>3. /\ Rest'
      /\ owner'["readers"] = owner["readers"]
      /\ \A d \in Clients : pc'[d] = IF d = c THEN "released" ELSE pc[d]
      /\ \A d \in Clients :
            d # c =>
               /\ Won(d) => Won(d)'
               /\ Won(d)' /\ ~ Won(d) =>
                     \/ pc[d] \in {"unlock", "blocked"}
                     \/ owner'["writers"] = <<d, "read">> \/ owner'["writers"] = <<d, "write">>
      /\ \A d \in Clients, k \in {"read", "write"} :
            owner'["writers"] = <<d, k>> =>
               d # c /\ Won(d)' /\ ~ Won(d) /\ pc[d] \in Place("writers", k)
  BY <1>2, ReleaseStep DEF WriterWaits, Locks
<1>4. \A d \in Clients :
         /\ owner'["writers"] # <<d, "read">>
         /\ owner'["writers"] = <<d, "write">> => d # c /\ pc[d] = "writers" /\ Won(d)'
  BY <1>3 DEF Place
<1>5. \A d \in Clients :
         d # c /\ pc[d] \notin {"unlock", "blocked", "writers"} => (Won(d)' <=> Won(d))
  BY <1>3, <1>4
<1>6. SharedInv'
  BY <1>3, <1>5, SharedKept DEF CountedReaders, Goes, Shared
<1>7. WriterInv'
  <2>1. ASSUME NEW d \in Clients
        PROVE  WriterAt(d)'
    <3>1. WriterAt(d)
      BY <1>1 DEF WriterInv
    <3>2. CASE d = c
      BY <1>3, <1>4, <3>1, <3>2 DEF WriterAt
    <3>3. CASE d # c
      <4>1. pc[d] \notin {"readers", "writing", "unlocking"} /\ ~ (pc[d] = "writers" /\ Won(d))
        BY <1>2, <3>1, <3>3 DEF WriterAt
      <4>2. pc[d] = "writers" => (Won(d)' <=> owner'["writers"] = <<d, "write">>)
        BY <1>3, <1>4, <3>3, <4>1
      <4>3. QED
        BY <1>3, <1>4, <3>1, <3>3, <4>1, <4>2 DEF WriterAt
    <3>4. QED
      BY <3>2, <3>3
  <2>2. QED
    BY <2>1 DEF WriterInv
<1>8. QED
  BY <1>3, <1>6, <1>7, RestGivesIInv DEF Goes

LEMMA ReadersWStep ==
    ASSUME IInv, prefers = "write", NEW c \in Clients, ReadersW(c), Remember, prefers' = prefers
    PROVE  IInv'
<1>1. WriterInv /\ SharedInv
  BY DEF IInv
<1>2. /\ pc[c] = "readers" /\ ~ Pending(c)
      /\ UNCHANGED <<readerCount, blocked, writerCount, settled, orphaned>>
  BY DEF ReadersW, Answered, counts
<1>3. CASE /\ c \in failed /\ failed' = failed \ {c}
           /\ Free("writers") /\ Return(c, "released") /\ release' = release
  <2>1. Goes(c, "released")
    BY <1>2, <1>3, Parts
       DEF Goes, Return, PCs, Ending, Counts, One, CountedReaders, CountedBlocked, CountedWriters
  <2>2. ~ Won(c)
    BY <1>3 DEF Won
  <2>3. QED
    BY <1>2, <1>3, <2>1, <2>2, WritersLockFreed
<1>4. CASE /\ c \notin failed /\ release' = <<c, "write">>
           /\ Return(c, "writing") /\ UNCHANGED locks
  <2>1. Goes(c, "writing") /\ UNCHANGED <<owner, queue, failed>>
    <3>1. release' \in Holds \cup {None}
      BY <1>4, HoldsNotNone
    <3>2. QED
      BY <1>2, <1>4, <3>1, Parts
         DEF Goes, Return, PCs, locks, Counts, One, CountedReaders, CountedBlocked, CountedWriters
  <2>2. /\ Rest'
        /\ \A d \in Clients : pc'[d] = IF d = c THEN "writing" ELSE pc[d]
        /\ \A d \in Clients : d # c => (Won(d)' <=> Won(d))
    BY <1>2, <1>4, <2>1, StillStep DEF WriterWaits
  <2>3. owner["readers"] = <<c, "write">> /\ release' = owner["readers"] /\ Won(c)
    BY <1>1, <1>2, <1>4 DEF WriterInv, WriterAt, Won
  <2>4. SharedInv'
    <3>1. \A d \in Clients : ~ (pc[d] = "first" /\ Won(d)) /\ owner["readers"] # <<d, "read">>
      BY <1>1, <2>3 DEF SharedInv, SharedAt, Shared
    <3>2. ~ (~ orphaned /\ settled /\ \E d \in Clients : pc[d] \in CountedReaders)
      BY <1>1, <2>3 DEF SharedInv, Shared
    <3>3. \A d \in Clients : SharedAt(d)'
      BY <1>1, <1>2, <2>1, <2>2, <3>1 DEF SharedInv, SharedAt, Shared
    <3>4. QED
      BY <1>1, <1>2, <2>1, <2>2, <2>3, <3>2, <3>3 DEF SharedInv, Shared, CountedReaders
  <2>5. WriterInv'
    <3>1. ASSUME NEW d \in Clients
          PROVE  WriterAt(d)'
      <4>1. WriterAt(d) /\ WriterAt(c)
        BY <1>1 DEF WriterInv
      <4>2. \A r \in Clients : pc'[r] = "blocked" /\ Won(r)' => pc[r] = "blocked" /\ Won(r)
        BY <2>2
      <4>3. CASE d = c
        BY <1>2, <2>1, <2>2, <2>3, <4>1, <4>2, <4>3 DEF WriterAt
      <4>4. CASE d # c
        BY <1>2, <2>1, <2>2, <2>3, <4>1, <4>2, <4>4 DEF WriterAt
      <4>5. QED
        BY <4>3, <4>4
    <3>2. QED
      BY <3>1 DEF WriterInv
  <2>6. QED
    BY <2>2, <2>4, <2>5, RestGivesIInv DEF Goes
<1>5. QED
  BY <1>3, <1>4 DEF ReadersW

LEMMA UnlockWStep ==
    ASSUME IInv, prefers = "write", NEW c \in Clients, UnlockW(c), Remember, prefers' = prefers
    PROVE  IInv'
<1>1. /\ pc[c] = "unlocking" /\ Free("writers") /\ Goto(c, "released")
      /\ UNCHANGED <<failed, aborted, readerCount, blocked, writerCount>>
      /\ UNCHANGED <<settled, release, orphaned>>
  BY DEF UnlockW, counts
<1>2. ~ Pending(c) /\ c \notin failed
  BY <1>1, Parts, NotWaiting DEF Awaiting, FailedInv
<1>3. Goes(c, "released")
  BY <1>1, Parts
     DEF Goes, PCs, Ending, Counts, One, CountedReaders, CountedBlocked, CountedWriters
<1>4. QED
  BY <1>1, <1>2, <1>3, WritersLockFreed

LEMMA EndWriteWStep ==
    ASSUME IInv, prefers = "write", NEW c \in Clients, EndWriteW(c), Remember, prefers' = prefers
    PROVE  IInv'
<1>1. WriterInv /\ SharedInv
  BY DEF IInv
<1>2. /\ pc[c] = "writing" /\ FreeShared("readers") /\ Goto(c, "unlocking")
      /\ UNCHANGED <<failed, aborted, readerCount, blocked, writerCount, settled, orphaned>>
  BY DEF EndWriteW, counts
<1>3. ~ Pending(c) /\ c \notin failed
  BY <1>2, Parts, NotWaiting DEF Awaiting, FailedInv
<1>4. /\ owner["writers"] = <<c, "write">>
      /\ \A d \in Clients : d # c => pc[d] \notin {"readers", "writing", "unlocking"}
      /\ \A d \in Clients : d # c => ~ (pc[d] = "writers" /\ Won(d))
      /\ \A r \in Clients : ~ (pc[r] = "blocked" /\ Won(r))
      /\ \/ owner["readers"] = <<c, "write">> /\ release = owner["readers"]
         \/ orphaned /\ owner["readers"] = None
  <2>1. owner["writers"] = <<c, "write">>
    BY <1>1, <1>2 DEF WriterInv, WriterAt
  <2>2. QED
    BY <1>1, <1>2, <2>1 DEF WriterInv, WriterAt
<1>5. \A d \in Clients : owner["readers"] # <<d, "read">> /\ ~ (pc[d] = "first" /\ Won(d))
  <2>1. \A d \in Clients : owner["readers"] # <<d, "read">>
    <3>1. CASE owner["readers"] = <<c, "write">>
      BY <3>1
    <3>2. CASE owner["readers"] = None
      BY <3>2, HoldsNotNone
    <3>3. QED
      BY <1>4, <3>1, <3>2
  <2>2. QED
    BY <1>1, <2>1 DEF SharedInv, SharedAt, Shared
<1>6. CASE orphaned /\ owner["readers"] = None /\ UNCHANGED <<owner, queue, release>>
  <2>1. Goes(c, "unlocking")
    BY <1>2, <1>6, Parts
       DEF Goes, PCs, Ending, Counts, One, CountedReaders, CountedBlocked, CountedWriters
  <2>2. /\ Rest'
        /\ \A d \in Clients : pc'[d] = IF d = c THEN "unlocking" ELSE pc[d]
        /\ \A d \in Clients : d # c => (Won(d)' <=> Won(d))
    BY <1>2, <1>3, <1>6, <2>1, StillStep DEF WriterWaits
  <2>3. SharedInv'
    BY <1>2, <1>6, <2>1, <2>2, SharedKept DEF CountedReaders, Goes
  <2>4. WriterInv'
    <3>1. \A r \in Clients : ~ (pc'[r] = "blocked" /\ Won(r)')
      BY <1>4, <2>2
    <3>2. \A d \in Clients : owner["readers"] # <<d, "write">>
      BY <1>6, HoldsNotNone
    <3>3. ASSUME NEW d \in Clients
          PROVE  WriterAt(d)'
      <4>1. WriterAt(d)
        BY <1>1 DEF WriterInv
      <4>2. QED
        BY <1>2, <1>4, <1>6, <2>2, <3>1, <3>2, <4>1 DEF WriterAt
    <3>4. QED
      BY <3>3 DEF WriterInv
  <2>5. QED
    BY <2>2, <2>3, <2>4, RestGivesIInv DEF Goes
<1>7. CASE /\ owner["readers"] = <<c, "write">> /\ release = owner["readers"]
           /\ release' = None /\ Free("readers")
  <2>1. Goes(c, "unlocking")
    BY <1>2, <1>7, Parts
       DEF Goes, PCs, Ending, Counts, One, CountedReaders, CountedBlocked, CountedWriters
  <2>2. /\ Rest'
        /\ owner'["writers"] = owner["writers"]
        /\ \A d \in Clients : pc'[d] = IF d = c THEN "unlocking" ELSE pc[d]
        /\ \A d \in Clients :
              d # c =>
                 /\ Won(d) => Won(d)'
                 /\ Won(d)' /\ ~ Won(d) =>
                       \/ pc[d] = "unlock"
                       \/ owner'["readers"] = <<d, "read">> \/ owner'["readers"] = <<d, "write">>
        /\ \A d \in Clients, k \in {"read", "write"} :
              owner'["readers"] = <<d, k>> =>
                 d # c /\ Won(d)' /\ ~ Won(d) /\ pc[d] \in Place("readers", k)
    BY <1>2, <1>3, <1>7, <2>1, ReleaseStep DEF WriterWaits, Locks
  <2>3. \A d \in Clients :
           /\ owner'["readers"] # <<d, "write">>
           /\ owner'["readers"] = <<d, "read">> => pc[d] = "first" /\ Won(d)'
    BY <1>4, <2>2 DEF Place
  <2>4. \A d \in Clients : pc[d] = "first" => (Won(d)' <=> owner'["readers"] = <<d, "read">>)
    BY <1>2, <1>5, <2>2, <2>3
  <2>5. SharedInv'
    <3>1. ~ (~ orphaned /\ settled /\ \E d \in Clients : pc[d] \in CountedReaders)
      BY <1>1, <1>5 DEF SharedInv, Shared
    <3>2. \A d \in Clients : SharedAt(d)'
      BY <1>1, <1>2, <1>7, <2>2, <2>3, <2>4 DEF SharedInv, SharedAt, Shared
    <3>3. QED
      BY <1>1, <1>2, <1>7, <2>2, <3>1, <3>2 DEF SharedInv, Shared, CountedReaders
  <2>6. WriterInv'
    <3>1. \A r \in Clients : ~ (pc'[r] = "blocked" /\ Won(r)')
      BY <1>4, <2>2, <2>3
    <3>2. ASSUME NEW d \in Clients
          PROVE  WriterAt(d)'
      <4>1. WriterAt(d)
        BY <1>1 DEF WriterInv
      <4>2. pc[d] = "writers" => (Won(d)' <=> Won(d))
        BY <1>2, <2>2, <2>3
      <4>3. QED
        BY <1>2, <1>4, <2>2, <2>3, <3>1, <4>1, <4>2 DEF WriterAt
    <3>3. QED
      BY <3>2 DEF WriterInv
  <2>7. QED
    BY <2>2, <2>5, <2>6, RestGivesIInv DEF Goes
<1>8. QED
  BY <1>2, <1>4, <1>6, <1>7, HoldsNotNone DEF FreeShared

\* Both variants have this action.
LEMMA UncountStep ==
    ASSUME IInv, NEW c \in Clients, Uncount(c), Remember, prefers' = prefers
    PROVE  IInv'
<1>1. /\ pc[c] = "released" /\ writerCount' = writerCount - 1 /\ Goto(c, "idle")
      /\ UNCHANGED <<owner, queue, failed, aborted, readerCount, blocked>>
      /\ UNCHANGED <<settled, release, orphaned>>
  BY DEF Uncount, locks
<1>2. ~ Pending(c) /\ c \notin failed
  BY <1>1, Parts, NotWaiting DEF Awaiting, FailedInv
<1>3. Goes(c, "idle")
  BY <1>1, Parts
     DEF Goes, PCs, Counts, One, CountedReaders, CountedBlocked, CountedWriters
<1>4. /\ Rest'
      /\ \A d \in Clients : pc'[d] = IF d = c THEN "idle" ELSE pc[d]
      /\ \A d \in Clients : d # c => (Won(d)' <=> Won(d))
  BY <1>1, <1>2, <1>3, StillStep DEF WriterWaits
<1>5. SharedInv'
  BY <1>1, <1>3, <1>4, SharedKept DEF CountedReaders, Goes
<1>6. ASSUME prefers = "write"
      PROVE  WriterInv'
  BY <1>1, <1>4, <1>6 DEF IInv, WriterInv, WriterAt
<1>7. ASSUME prefers = "read"
      PROVE  ReaderInv'
  BY <1>1, <1>4, <1>7 DEF IInv, ReaderInv, ReaderAt, CountedReaders
<1>8. QED
  BY <1>4, <1>5, <1>6, <1>7, RestGivesIInv DEF Goes

-----------------------------------------------------------------------------
(* RWLockReader.                                                           *)

LEMMA ReadRStep ==
    ASSUME IInv, prefers = "read", NEW c \in Clients, ReadR(c), Remember, prefers' = prefers
    PROVE  IInv'
<1>1. ReaderInv
  BY DEF IInv
<1>2. /\ pc[c] = "idle" /\ blocked' = blocked + 1
      /\ Request("readers", c, "read", c \in aborted)
      /\ Goto(c, "entering")
      /\ UNCHANGED <<aborted, readerCount, writerCount, settled, release, orphaned>>
  BY DEF ReadR
<1>3. ~ Pending(c) /\ c \notin failed
  BY <1>2, Parts, NotWaiting DEF Awaiting, FailedInv
<1>4. Goes(c, "entering")
  BY <1>2, Parts
     DEF Goes, PCs, ReaderWaits, Counts, One, CountedReaders, CountedBlocked, CountedWriters
<1> DEFINE s == c \in aborted
<1>5. s \in BOOLEAN /\ Request("readers", c, "read", s)
  BY <1>2
<1> HIDE DEF s
<1>6. "entering" \in Place("readers", "read") /\ "entering" \in Awaiting
  BY DEF Place, Awaiting
<1>7. /\ Rest'
      /\ owner'["writers"] = owner["writers"]
      /\ \A d \in Clients : pc'[d] = IF d = c THEN "entering" ELSE pc[d]
      /\ \A d \in Clients : d # c => (Won(d)' <=> Won(d))
      /\ \A d \in failed' : d \in failed \/ d = c
      /\ Won(c)' => owner'["readers"] = <<c, "read">>
      /\ ~ Won(c)' => owner'["readers"] = owner["readers"]
      /\ \A d \in Clients :
            /\ d # c => (owner'["readers"] = <<d, "read">> <=> owner["readers"] = <<d, "read">>)
            /\ owner'["readers"] = <<d, "write">> <=> owner["readers"] = <<d, "write">>
  BY <1>3, <1>4, <1>5, <1>6, LockStep DEF Locks
<1>8. SharedInv'
  BY <1>2, <1>4, <1>7, SharedKept DEF CountedReaders, Goes, Shared
<1>9. ReaderInv'
  <2>1. ASSUME NEW d \in Clients
        PROVE  ReaderAt(d)'
    <3>1. ReaderAt(d)
      BY <1>1 DEF ReaderInv
    <3>2. CASE d = c
      BY <1>2, <1>7, <3>1, <3>2 DEF ReaderAt
    <3>3. CASE d # c
      BY <1>7, <3>1, <3>3 DEF ReaderAt, CountedReaders
    <3>4. QED
      BY <3>2, <3>3
  <2>2. QED
    BY <1>1, <1>2, <2>1 DEF ReaderInv
<1>10. QED
  BY <1>7, <1>8, <1>9, RestGivesIInv

\* readersLock passes to the next reader that comes or goes.
LEMMA ReadersLockFreed ==
    ASSUME IInv, prefers = "read", NEW c \in Clients, NEW x, Goes(c, x), ~ Pending(c),
           Free("readers"), owner["readers"] = <<c, "read">>,
           failed' \in {failed, failed \ {c}}, c \notin failed',
           x \in {"idle", "second", "reading"}, pc[c] \notin {"writers", "writing"},
           ~ orphaned', release' # None => release'[2] = "read"
    PROVE  /\ Rest' /\ ReaderInv'
           /\ owner'["writers"] = owner["writers"]
           /\ \A d \in Clients : pc'[d] = IF d = c THEN x ELSE pc[d]
           /\ \A d \in Clients : pc[d] = "first" => d = c
<1>1. ReaderInv
  BY DEF IInv
<1>2. \A d \in Clients :
         d # c => /\ pc[d] \notin {"first", "left"}
                  /\ pc[d] \in {"entering", "leaving"} => ~ Won(d)
  BY <1>1 DEF ReaderInv, ReaderAt
<1>3. /\ Rest'
      /\ owner'["writers"] = owner["writers"]
      /\ \A d \in Clients : pc'[d] = IF d = c THEN x ELSE pc[d]
      /\ \A d \in Clients :
            d # c =>
               /\ Won(d) => Won(d)'
               /\ Won(d)' /\ ~ Won(d) =>
                     \/ pc[d] = "unlock"
                     \/ owner'["readers"] = <<d, "read">> \/ owner'["readers"] = <<d, "write">>
      /\ \A d \in Clients, k \in {"read", "write"} :
            owner'["readers"] = <<d, k>> =>
               d # c /\ Won(d)' /\ ~ Won(d) /\ pc[d] \in Place("readers", k)
  BY ReleaseStep DEF WriterWaits, Locks
<1>4. \A d \in Clients :
         /\ owner'["readers"] # <<d, "write">>
         /\ owner'["readers"] = <<d, "read">> =>
               d # c /\ Won(d)' /\ pc[d] \in {"entering", "leaving"}
  BY <1>3 DEF Place
<1>5. ReaderInv'
  <2>1. ASSUME NEW d \in Clients
        PROVE  ReaderAt(d)'
    <3>1. ReaderAt(d)
      BY <1>1 DEF ReaderInv
    <3>2. CASE d = c
      BY <1>3, <1>4, <3>1, <3>2 DEF ReaderAt
    <3>3. CASE d # c
      <4>1. pc[d] = "writers" => (Won(d)' <=> Won(d))
        BY <1>3, <1>4, <3>3
      <4>2. pc[d] \in {"entering", "leaving"} => (Won(d)' <=> owner'["readers"] = <<d, "read">>)
        BY <1>2, <1>3, <1>4, <3>3
      <4>3. d \in failed' => d \in failed
        OBVIOUS
      <4>4. QED
        BY <1>2, <1>3, <1>4, <3>1, <3>3, <4>1, <4>2, <4>3 DEF ReaderAt
    <3>4. QED
      BY <3>2, <3>3
  <2>2. QED
    BY <2>1 DEF ReaderInv
<1>6. QED
  BY <1>2, <1>3, <1>5

LEMMA EnteringRStep ==
    ASSUME IInv, prefers = "read", NEW c \in Clients, EnteringR(c), Remember, prefers' = prefers
    PROVE  IInv'
<1>1. ReaderInv /\ SharedInv
  BY DEF IInv
<1>2. /\ pc[c] = "entering" /\ ~ Pending(c) /\ blocked' = blocked - 1
      /\ UNCHANGED <<writerCount, release, orphaned>>
  BY DEF EnteringR, Answered
<1>3. CASE /\ c \in failed /\ failed' = failed \ {c} /\ Return(c, "idle")
           /\ UNCHANGED <<owner, queue, readerCount, settled>>
  <2>1. Goes(c, "idle")
    BY <1>2, <1>3, Parts
       DEF Goes, Return, PCs, Counts, One, CountedReaders, CountedBlocked, CountedWriters
  <2>2. /\ Rest'
        /\ \A d \in Clients : pc'[d] = IF d = c THEN "idle" ELSE pc[d]
        /\ \A d \in Clients : d # c => (Won(d)' <=> Won(d))
    BY <1>2, <1>3, <2>1, StillStep DEF WriterWaits
  <2>3. SharedInv'
    BY <1>2, <1>3, <2>1, <2>2, SharedKept DEF CountedReaders, Goes
  <2>4. ReaderInv'
    <3>1. ~ Won(c)
      BY <1>3 DEF Won
    <3>2. QED
      BY <1>1, <1>2, <1>3, <2>2, <3>1 DEF ReaderInv, ReaderAt, CountedReaders
  <2>5. QED
    BY <2>2, <2>3, <2>4, RestGivesIInv
<1>4. ASSUME c \notin failed
      PROVE  /\ owner["readers"] = <<c, "read">>
             /\ \A d \in Clients :
                   d # c => /\ pc[d] \notin {"first", "left"}
                            /\ pc[d] \in {"entering", "leaving"} => ~ Won(d)
             /\ \A d \in Clients : pc[d] # "first"
  <2>1. owner["readers"] = <<c, "read">>
    BY <1>1, <1>2, <1>4 DEF ReaderInv, ReaderAt, Won
  <2>2. QED
    BY <1>1, <1>2, <2>1 DEF ReaderInv, ReaderAt
<1>5. CASE /\ c \notin failed /\ readerCount' = readerCount + 1 /\ aborted' = aborted
           /\ readerCount > 0 /\ Free("readers") /\ Goto(c, "second")
           /\ UNCHANGED <<failed, settled>>
  <2>1. Goes(c, "second")
    BY <1>2, <1>5, Parts
       DEF Goes, PCs, ReaderWaits, Counts, One, CountedReaders, CountedBlocked, CountedWriters
  <2>2. ~ orphaned' /\ (release' # None => release'[2] = "read")
    BY <1>1, <1>2 DEF ReaderInv
  <2>3. /\ Rest' /\ ReaderInv' /\ owner'["writers"] = owner["writers"]
        /\ \A d \in Clients : pc'[d] = IF d = c THEN "second" ELSE pc[d]
    BY <1>2, <1>4, <1>5, <2>1, <2>2, ReadersLockFreed
  <2>4. \E d \in Clients : d # c /\ pc[d] \in CountedReaders
    BY <1>2, <1>5, Parts, CountFacts DEF CountedReaders
  <2>5. SharedInv'
    BY <1>2, <1>4, <1>5, <2>1, <2>3, <2>4, SharedKept DEF Goes, Shared
  <2>6. QED
    BY <2>3, <2>5, RestGivesIInv
<1>6. CASE /\ c \notin failed /\ readerCount' = readerCount + 1 /\ aborted' = aborted
           /\ readerCount = 0 /\ Request("writers", c, "read", c \in aborted)
           /\ settled' = FALSE /\ Goto(c, "first")
  <2>1. Goes(c, "first")
    <3>1. Counts(c, "first")
      BY <1>2, <1>6, Parts DEF Counts, One, CountedReaders, CountedBlocked, CountedWriters
    <3>2. "first" \in PCs
      BY DEF PCs, ReaderWaits
    <3>3. /\ settled' \in BOOLEAN /\ orphaned' \in BOOLEAN
          /\ release' \in Holds \cup {None} /\ aborted' = aborted /\ Goto(c, "first")
      BY <1>2, <1>6, Parts
    <3>4. QED
      BY <3>1, <3>2, <3>3 DEF Goes
  <2> DEFINE s == c \in aborted
  <2>2. s \in BOOLEAN /\ Request("writers", c, "read", s)
    BY <1>6
  <2> HIDE DEF s
  <2>3. "first" \in Place("writers", "read") /\ "first" \in Awaiting
    BY DEF Place, Awaiting
  <2>4. /\ Rest'
        /\ owner'["readers"] = owner["readers"]
        /\ \A d \in Clients : pc'[d] = IF d = c THEN "first" ELSE pc[d]
        /\ \A d \in Clients : d # c => (Won(d)' <=> Won(d))
        /\ \A d \in failed' : d \in failed \/ d = c
        /\ Won(c)' => owner'["writers"] = <<c, "read">>
        /\ ~ Won(c)' => owner'["writers"] = owner["writers"]
        /\ \A d \in Clients :
              /\ d # c => (owner'["writers"] = <<d, "read">> <=> owner["writers"] = <<d, "read">>)
              /\ owner'["writers"] = <<d, "write">> <=> owner["writers"] = <<d, "write">>
        /\ Won(c)' => owner["writers"] = None
    BY <1>2, <1>6, <2>1, <2>2, <2>3, LockStep DEF Locks
  <2>5. \A d \in Clients : pc[d] \notin CountedReaders
    BY <1>6, Parts, CountFacts
  <2>6. \A d \in Clients : owner["writers"] # <<d, "read">>
    BY <1>1, <2>5 DEF SharedInv, SharedAt, Shared, CountedReaders
  <2>7. /\ release' \in {None, owner'["writers"]}
        /\ owner'["writers"] = <<c, "read">> => release' = None
    <3>1. release \in {None, owner["writers"]}
      BY <1>1 DEF SharedInv, Shared
    <3>2. QED
      BY <1>2, <2>4, <2>6, <3>1
  <2>8. SharedInv'
    <3>1. ASSUME NEW d \in Clients
          PROVE  SharedAt(d)' /\ (pc'[d] \in CountedReaders => d = c)
      <4>1. CASE d = c
        BY <1>6, <2>4, <2>6, <2>7, <4>1 DEF SharedAt, Shared
      <4>2. CASE d # c
        BY <1>6, <2>4, <2>5, <2>6, <4>2 DEF SharedAt, Shared, CountedReaders
      <4>3. QED
        BY <4>1, <4>2
    <3>2. QED
      BY <1>6, <2>4, <2>7, <3>1 DEF SharedInv, Shared, CountedReaders
  <2>9. ReaderInv'
    <3>1. ASSUME NEW d \in Clients
          PROVE  ReaderAt(d)'
      <4>1. ReaderAt(d)
        BY <1>1 DEF ReaderInv
      <4>2. CASE d = c
        <5>1. \A e \in Clients : pc'[e] \in CountedReaders => e = c
          BY <2>4, <2>5
        <5>2. QED
          BY <1>2, <1>4, <1>6, <2>4, <4>1, <4>2, <5>1 DEF ReaderAt
      <4>3. CASE d # c
        BY <1>4, <1>6, <2>4, <4>1, <4>3 DEF ReaderAt
      <4>4. QED
        BY <4>2, <4>3
    <3>2. QED
      BY <1>1, <1>2, <3>1 DEF ReaderInv
  <2>10. QED
    BY <2>4, <2>8, <2>9, RestGivesIInv
<1>7. QED
  BY <1>3, <1>5, <1>6 DEF EnteringR

LEMMA FirstRStep ==
    ASSUME IInv, prefers = "read", NEW c \in Clients, FirstR(c), Remember, prefers' = prefers
    PROVE  IInv'
<1>1. ReaderInv /\ SharedInv
  BY DEF IInv
<1>2. /\ pc[c] = "first" /\ ~ Pending(c) /\ settled' = TRUE /\ Free("readers")
      /\ UNCHANGED <<blocked, writerCount, orphaned>>
  BY DEF FirstR, Answered
<1>3. /\ owner["readers"] = <<c, "read">>
      /\ \A d \in Clients : pc[d] \in CountedReaders => d = c
      /\ ~ settled /\ ~ orphaned
      /\ release \in {None, owner["writers"]}
      /\ release # None => release[2] = "read"
      /\ Won(c) => owner["writers"] = <<c, "read">> /\ release = None
      /\ \A d \in Clients : owner["writers"] = <<d, "read">> => d = c /\ Won(c)
  BY <1>1, <1>2 DEF ReaderInv, ReaderAt, SharedInv, SharedAt, Shared, CountedReaders
<1>4. CASE /\ c \in failed /\ failed' = failed \ {c}
           /\ readerCount' = readerCount - 1
           /\ Return(c, "idle") /\ release' = release
  <2>1. Goes(c, "idle")
    BY <1>2, <1>4, Parts
       DEF Goes, Return, PCs, Counts, One, CountedReaders, CountedBlocked, CountedWriters
  <2>2. /\ Rest' /\ ReaderInv' /\ owner'["writers"] = owner["writers"]
        /\ \A d \in Clients : pc'[d] = IF d = c THEN "idle" ELSE pc[d]
    BY <1>2, <1>3, <1>4, <2>1, ReadersLockFreed
  <2>3. \A d \in Clients : owner["writers"] # <<d, "read">>
    BY <1>3, <1>4 DEF Won
  <2>4. \A d \in Clients : pc'[d] \notin CountedReaders
    BY <1>3, <2>2 DEF CountedReaders
  <2>5. SharedInv'
    BY <1>2, <1>3, <1>4, <2>2, <2>3, <2>4 DEF SharedInv, SharedAt, Shared, CountedReaders
  <2>6. QED
    BY <2>2, <2>5, RestGivesIInv
<1>5. CASE /\ c \notin failed /\ release' = <<c, "read">>
           /\ Return(c, "reading") /\ UNCHANGED <<failed, readerCount>>
  <2>1. Goes(c, "reading")
    <3>1. release' \in Holds \cup {None}
      BY <1>5, HoldsNotNone
    <3>2. QED
      BY <1>2, <1>5, <3>1, Parts
         DEF Goes, Return, PCs, Counts, One, CountedReaders, CountedBlocked, CountedWriters
  <2>2. ~ orphaned' /\ release'[2] = "read"
    BY <1>2, <1>3, <1>5
  <2>3. /\ Rest' /\ ReaderInv' /\ owner'["writers"] = owner["writers"]
        /\ \A d \in Clients : pc'[d] = IF d = c THEN "reading" ELSE pc[d]
    BY <1>2, <1>3, <1>5, <2>1, <2>2, ReadersLockFreed
  <2>4. owner["writers"] = <<c, "read">> /\ release' = owner["writers"] /\ release' # None
    BY <1>2, <1>3, <1>5, HoldsNotNone DEF Won
  <2>5. SharedInv'
    <3>1. \A d \in Clients : pc'[d] # "first"
      BY <1>3, <2>3 DEF CountedReaders
    <3>2. \A d \in Clients : SharedAt(d)'
      BY <1>2, <2>3, <2>4, <3>1 DEF SharedAt, Shared, CountedReaders
    <3>3. QED
      BY <1>2, <2>3, <2>4, <3>1, <3>2 DEF SharedInv, Shared
  <2>6. QED
    BY <2>3, <2>5, RestGivesIInv
<1>6. QED
  BY <1>2, <1>4, <1>5 DEF FirstR

LEMMA EndReadRStep ==
    ASSUME IInv, prefers = "read", NEW c \in Clients, EndReadR(c), Remember, prefers' = prefers
    PROVE  IInv'
<1>1. ReaderInv /\ SharedInv
  BY DEF IInv
<1>2. /\ pc[c] = "reading" /\ Request("readers", c, "read", FALSE) /\ Goto(c, "leaving")
      /\ UNCHANGED <<aborted, counts, settled, release, orphaned>>
  BY DEF EndReadR
<1>3. ~ Pending(c) /\ c \notin failed
  BY <1>2, Parts, NotWaiting DEF Awaiting, FailedInv
<1>4. Goes(c, "leaving")
  BY <1>2, Parts
     DEF counts, Goes, PCs, Ending, Counts, One, CountedReaders, CountedBlocked, CountedWriters
<1>5. "leaving" \in Place("readers", "read")
  BY DEF Place
<1> DEFINE s == FALSE
<1> HIDE DEF s
<1>6. s \in BOOLEAN /\ ~ s /\ Request("readers", c, "read", s)
  BY <1>2 DEF s
<1>7. /\ Rest'
      /\ owner'["writers"] = owner["writers"]
      /\ \A d \in Clients : pc'[d] = IF d = c THEN "leaving" ELSE pc[d]
      /\ \A d \in Clients : d # c => (Won(d)' <=> Won(d))
      /\ \A d \in failed' : d \in failed
      /\ Won(c)' => owner'["readers"] = <<c, "read">>
      /\ ~ Won(c)' => owner'["readers"] = owner["readers"]
      /\ \A d \in Clients :
            /\ d # c => (owner'["readers"] = <<d, "read">> <=> owner["readers"] = <<d, "read">>)
            /\ owner'["readers"] = <<d, "write">> <=> owner["readers"] = <<d, "write">>
  BY <1>3, <1>4, <1>5, <1>6, LockStep DEF Locks
<1>8. SharedInv'
  BY <1>2, <1>4, <1>7, SharedKept DEF CountedReaders, Goes, Shared
<1>9. ReaderInv'
  <2>1. ASSUME NEW d \in Clients
        PROVE  ReaderAt(d)'
    <3>1. ReaderAt(d)
      BY <1>1 DEF ReaderInv
    <3>2. CASE d = c
      BY <1>2, <1>3, <1>7, <3>1, <3>2 DEF ReaderAt
    <3>3. CASE d # c
      BY <1>2, <1>7, <3>1, <3>3 DEF ReaderAt, CountedReaders
    <3>4. QED
      BY <3>2, <3>3
  <2>2. QED
    BY <1>1, <1>2, <2>1 DEF ReaderInv
<1>10. QED
  BY <1>7, <1>8, <1>9, RestGivesIInv

LEMMA LeftRStep ==
    ASSUME IInv, prefers = "read", NEW c \in Clients, LeftR(c), Remember, prefers' = prefers
    PROVE  IInv'
<1>1. ReaderInv
  BY DEF IInv
<1>2. /\ pc[c] = "left" /\ Free("readers") /\ Goto(c, "idle")
      /\ UNCHANGED <<failed, aborted, counts, settled, release, orphaned>>
  BY DEF LeftR
<1>3. ~ Pending(c) /\ c \notin failed
  BY <1>2, Parts, NotWaiting DEF Awaiting, FailedInv
<1>4. Goes(c, "idle")
  BY <1>2, Parts
     DEF counts, Goes, PCs, Counts, One, CountedReaders, CountedBlocked, CountedWriters
<1>5. owner["readers"] = <<c, "read">> /\ ~ orphaned /\ (release # None => release[2] = "read")
  BY <1>1, <1>2 DEF ReaderInv, ReaderAt
<1>6. /\ Rest' /\ ReaderInv' /\ owner'["writers"] = owner["writers"]
      /\ \A d \in Clients : pc[d] = "first" => d = c
  BY <1>2, <1>3, <1>4, <1>5, ReadersLockFreed
<1>7. SharedInv'
  BY <1>2, <1>4, <1>6, SharedKept DEF CountedReaders, Goes, Shared
<1>8. QED
  BY <1>6, <1>7, RestGivesIInv

LEMMA WritersRStep ==
    ASSUME IInv, prefers = "read", NEW c \in Clients, WritersR(c), Remember, prefers' = prefers
    PROVE  IInv'
<1>1. ReaderInv
  BY DEF IInv
<1>2. /\ pc[c] = "writers" /\ ~ Pending(c)
      /\ UNCHANGED <<owner, queue, readerCount, blocked, settled, release, orphaned>>
  BY DEF WritersR, Answered
<1>3. CASE /\ c \in failed /\ failed' = failed \ {c}
           /\ writerCount' = writerCount - 1 /\ Return(c, "idle")
  <2>1. Goes(c, "idle")
    BY <1>2, <1>3, Parts
       DEF Goes, Return, PCs, Counts, One, CountedReaders, CountedBlocked, CountedWriters
  <2>2. /\ Rest'
        /\ \A d \in Clients : pc'[d] = IF d = c THEN "idle" ELSE pc[d]
        /\ \A d \in Clients : d # c => (Won(d)' <=> Won(d))
    BY <1>2, <1>3, <2>1, StillStep DEF WriterWaits
  <2>3. SharedInv'
    BY <1>2, <2>1, <2>2, SharedKept DEF CountedReaders, Goes
  <2>4. ReaderInv'
    <3>1. ~ Won(c)
      BY <1>3 DEF Won
    <3>2. QED
      BY <1>1, <1>2, <1>3, <2>2, <3>1 DEF ReaderInv, ReaderAt, CountedReaders
  <2>5. QED
    BY <2>2, <2>3, <2>4, RestGivesIInv
<1>4. CASE c \notin failed /\ Return(c, "writing") /\ UNCHANGED <<failed, writerCount>>
  <2>1. Goes(c, "writing")
    BY <1>2, <1>4, Parts
       DEF Goes, Return, PCs, Counts, One, CountedReaders, CountedBlocked, CountedWriters
  <2>2. /\ Rest'
        /\ \A d \in Clients : pc'[d] = IF d = c THEN "writing" ELSE pc[d]
        /\ \A d \in Clients : d # c => (Won(d)' <=> Won(d))
    BY <1>2, <1>4, <2>1, StillStep DEF WriterWaits
  <2>3. SharedInv'
    BY <1>2, <2>1, <2>2, SharedKept DEF CountedReaders, Goes
  <2>4. ReaderInv'
    <3>1. Won(c)
      BY <1>2, <1>4 DEF Won
    <3>2. QED
      BY <1>1, <1>2, <1>4, <2>2, <3>1 DEF ReaderInv, ReaderAt, CountedReaders
  <2>5. QED
    BY <2>2, <2>3, <2>4, RestGivesIInv
<1>5. QED
  BY <1>3, <1>4 DEF WritersR

\* The last reader leaves while it holds readersLock, so that no first reader
\* is on its way: the shared field holds the release of writersLock.
LEMMA LeavingRStep ==
    ASSUME IInv, prefers = "read", NEW c \in Clients, LeavingR(c), Remember, prefers' = prefers
    PROVE  IInv'
<1>1. ReaderInv /\ SharedInv
  BY DEF IInv
<1>2. /\ pc[c] = "leaving" /\ ~ Pending(c) /\ readerCount' = readerCount - 1
      /\ UNCHANGED <<failed, aborted, blocked, writerCount, settled, orphaned>>
  BY DEF LeavingR, Answered
<1>3. c \notin failed /\ Won(c) /\ owner["readers"] = <<c, "read">> /\ ~ orphaned
  BY <1>1, <1>2 DEF ReaderInv, ReaderAt, Won
<1>4. \A d \in Clients : /\ pc[d] # "first"
                         /\ d # c => /\ pc[d] # "left"
                                     /\ pc[d] \in {"entering", "leaving"} => ~ Won(d)
  BY <1>1, <1>2, <1>3 DEF ReaderInv, ReaderAt
<1>5. settled
  BY <1>1, <1>4 DEF SharedInv
<1>6. CASE readerCount = 1 /\ FreeShared("writers") /\ Goto(c, "left")
  <2>1. PICK r \in Clients : owner["writers"] = <<r, "read">> /\ release = owner["writers"]
    BY <1>1, <1>2, <1>3, <1>5 DEF SharedInv, Shared, CountedReaders
  <2>2. Free("writers") /\ release' = None
    BY <1>6, <2>1, HoldsNotNone DEF FreeShared
  <2>3. Goes(c, "left")
    BY <1>2, <1>6, <2>2, Parts
       DEF Goes, PCs, Ending, Counts, One, CountedReaders, CountedBlocked, CountedWriters
  <2>4. /\ Rest'
        /\ owner'["readers"] = owner["readers"]
        /\ owner'["writers"] \in Holds \cup {None}
        /\ \A d \in Clients : pc'[d] = IF d = c THEN "left" ELSE pc[d]
        /\ \A d \in Clients :
              d # c =>
                 /\ Won(d) => Won(d)'
                 /\ Won(d)' /\ ~ Won(d) =>
                       \/ pc[d] = "unlock"
                       \/ owner'["writers"] = <<d, "read">> \/ owner'["writers"] = <<d, "write">>
        /\ \A d \in Clients, k \in {"read", "write"} :
              owner'["writers"] = <<d, k>> =>
                 d # c /\ Won(d)' /\ ~ Won(d) /\ pc[d] \in Place("writers", k)
    BY <1>2, <1>3, <2>2, <2>3, ReleaseStep DEF WriterWaits, Locks
  <2>5. \A d \in Clients :
           /\ owner'["writers"] # <<d, "read">>
           /\ owner'["writers"] = <<d, "write">> => d # c /\ Won(d)' /\ pc[d] = "writers"
    BY <1>4, <2>4 DEF Place
  <2>6. \A d \in Clients : pc'[d] \notin CountedReaders
    <3>1. \A d \in Clients : pc[d] \in CountedReaders => d = c
      BY <1>2, <1>6, Parts, CountFacts DEF CountedReaders
    <3>2. QED
      BY <2>4, <3>1 DEF CountedReaders
  <2>7. SharedInv'
    BY <1>2, <1>5, <2>2, <2>4, <2>5, <2>6 DEF SharedInv, SharedAt, Shared, CountedReaders
  <2>8. \A d \in Clients :
           d # c => /\ pc[d] # "writing"
                    /\ pc[d] = "writers" => ~ Won(d)
                    /\ pc[d] = "writers" => (Won(d)' <=> owner'["writers"] = <<d, "write">>)
    BY <1>1, <2>1, <2>4, <2>5 DEF ReaderInv, ReaderAt
  <2>9. ReaderInv'
    <3>1. ASSUME NEW d \in Clients
          PROVE  ReaderAt(d)'
      <4>1. ReaderAt(d)
        BY <1>1 DEF ReaderInv
      <4>2. CASE d = c
        BY <1>2, <1>3, <2>4, <2>5, <4>1, <4>2 DEF ReaderAt
      <4>3. CASE d # c
        <5>1. pc[d] \in {"entering", "leaving"} => ~ Won(d)'
          BY <1>4, <2>4, <2>5, <4>3
        <5>2. QED
          BY <1>2, <1>3, <1>4, <2>4, <2>5, <2>8, <4>1, <4>3, <5>1 DEF ReaderAt
      <4>4. QED
        BY <4>2, <4>3
    <3>2. QED
      BY <1>2, <1>3, <2>2, <3>1 DEF ReaderInv
  <2>10. QED
    BY <2>4, <2>7, <2>9, RestGivesIInv
<1>7. CASE readerCount # 1 /\ Free("readers") /\ Goto(c, "idle") /\ release' = release
  <2>1. Goes(c, "idle")
    BY <1>2, <1>7, Parts
       DEF Goes, PCs, Counts, One, CountedReaders, CountedBlocked, CountedWriters
  <2>2. ~ orphaned' /\ (release' # None => release'[2] = "read")
    BY <1>1, <1>2, <1>7 DEF ReaderInv
  <2>3. /\ Rest' /\ ReaderInv' /\ owner'["writers"] = owner["writers"]
        /\ \A d \in Clients : pc'[d] = IF d = c THEN "idle" ELSE pc[d]
    BY <1>2, <1>3, <1>7, <2>1, <2>2, ReadersLockFreed
  <2>4. \E d \in Clients : d # c /\ pc[d] \in CountedReaders
    <3>1. readerCount # 0
      BY <1>2, Parts, CountFacts DEF CountedReaders
    <3>2. readerCount > 1
      BY <1>7, <3>1, Parts
    <3>3. QED
      BY <3>2, Parts, CountFacts
  <2>5. SharedInv'
    BY <1>2, <1>4, <1>7, <2>1, <2>3, <2>4, SharedKept DEF Goes, Shared
  <2>6. QED
    BY <2>3, <2>5, RestGivesIInv
<1>8. QED
  BY <1>6, <1>7 DEF LeavingR

LEMMA EndWriteRStep ==
    ASSUME IInv, prefers = "read", NEW c \in Clients, EndWriteR(c), Remember, prefers' = prefers
    PROVE  IInv'
<1>1. ReaderInv /\ SharedInv
  BY DEF IInv
<1>2. /\ pc[c] = "writing" /\ Free("writers") /\ Goto(c, "released")
      /\ UNCHANGED <<failed, aborted, counts, settled, release, orphaned>>
  BY DEF EndWriteR
<1>3. ~ Pending(c) /\ c \notin failed
  BY <1>2, Parts, NotWaiting DEF Awaiting, FailedInv
<1>4. Goes(c, "released")
  BY <1>2, Parts
     DEF counts, Goes, PCs, Ending, Counts, One, CountedReaders, CountedBlocked, CountedWriters
<1>5. owner["writers"] = <<c, "write">> /\ release = None /\ ~ orphaned
  <2>1. owner["writers"] = <<c, "write">>
    BY <1>1, <1>2 DEF ReaderInv, ReaderAt
  <2>2. QED
    BY <1>1, <2>1 DEF ReaderInv, SharedInv, Shared
<1>6. /\ Rest'
      /\ owner'["readers"] = owner["readers"]
      /\ owner'["writers"] \in Holds \cup {None}
      /\ \A d \in Clients : pc'[d] = IF d = c THEN "released" ELSE pc[d]
      /\ \A d \in Clients :
            d # c =>
               /\ Won(d) => Won(d)'
               /\ Won(d)' /\ ~ Won(d) =>
                     \/ pc[d] = "unlock"
                     \/ owner'["writers"] = <<d, "read">> \/ owner'["writers"] = <<d, "write">>
      /\ \A d \in Clients, k \in {"read", "write"} :
            owner'["writers"] = <<d, k>> =>
               d # c /\ Won(d)' /\ ~ Won(d) /\ pc[d] \in Place("writers", k)
  BY <1>2, <1>3, <1>4, ReleaseStep DEF WriterWaits, Locks
<1>7. \A d \in Clients :
         /\ owner'["writers"] = <<d, "read">> => d # c /\ Won(d)' /\ pc[d] = "first"
         /\ owner'["writers"] = <<d, "write">> => d # c /\ Won(d)' /\ pc[d] = "writers"
  BY <1>6 DEF Place
<1>8. \A d \in Clients : pc[d] = "first" => ~ Won(d)
  BY <1>1, <1>5 DEF SharedInv, SharedAt, Shared
<1>9. \A d \in Clients : pc[d] = "first" => (Won(d)' <=> owner'["writers"] = <<d, "read">>)
  BY <1>2, <1>6, <1>7, <1>8
<1>10. SharedInv'
  <2>1. ASSUME NEW d \in Clients
        PROVE  SharedAt(d)'
    <3>1. SharedAt(d)
      BY <1>1 DEF SharedInv
    <3>2. QED
      BY <1>2, <1>5, <1>6, <1>7, <1>9, <3>1 DEF SharedAt, Shared
  <2>2. release' = None /\ settled' = settled /\ orphaned' = orphaned
    BY <1>2, <1>5
  <2>3. ~ (settled /\ \E d \in Clients : pc[d] \in CountedReaders)
    BY <1>1, <1>5 DEF SharedInv, Shared
  <2>4. QED
    BY <1>1, <1>2, <1>6, <2>1, <2>2, <2>3 DEF SharedInv, CountedReaders
<1>11. \A d \in Clients :
          d # c => /\ pc[d] # "writing"
                   /\ pc[d] = "writers" => ~ Won(d)
                   /\ pc[d] = "writers" => (Won(d)' <=> owner'["writers"] = <<d, "write">>)
  BY <1>1, <1>5, <1>6, <1>7 DEF ReaderInv, ReaderAt
<1>12. ReaderInv'
  <2>1. ASSUME NEW d \in Clients
        PROVE  ReaderAt(d)'
    <3>1. ReaderAt(d)
      BY <1>1 DEF ReaderInv
    <3>2. CASE d = c
      BY <1>2, <1>3, <1>6, <1>7, <3>1, <3>2 DEF ReaderAt
    <3>3. CASE d # c
      <4>1. pc[d] \in {"entering", "leaving"} => (Won(d)' <=> Won(d))
        BY <1>6, <1>7, <3>3
      <4>2. QED
        BY <1>2, <1>6, <1>7, <1>11, <3>1, <3>3, <4>1 DEF ReaderAt, CountedReaders
    <3>4. QED
      BY <3>2, <3>3
  <2>2. QED
    BY <1>2, <1>5, <2>1 DEF ReaderInv
<1>13. QED
  BY <1>6, <1>10, <1>12, RestGivesIInv

-----------------------------------------------------------------------------
(* Both variants.                                                          *)

LEMMA WaitForUnlockStep ==
    ASSUME IInv, NEW c \in Clients, WaitForUnlock(c), Remember, prefers' = prefers
    PROVE  IInv'
<1>1. /\ pc[c] = "idle" /\ Goto(c, "unlock")
      /\ UNCHANGED <<owner, aborted, counts, settled, release, orphaned>>
  BY DEF WaitForUnlock
<1>2. ~ Pending(c) /\ c \notin failed
  BY <1>1, Parts, NotWaiting DEF Awaiting, FailedInv
<1>3. /\ QueueTypes'
      /\ \A m \in Locks, d \in Clients, j \in Kinds :
            Entry(m, d, j)' => Entry(m, d, j) \/ (d = c /\ j = "wait")
      /\ \A d \in Clients : d # c => (Pending(d)' <=> Pending(d))
      /\ \A w, d \in Clients : Before(w, d) => Before(w, d)'
      /\ failed' \in {failed, failed \cup {c}}
      /\ c \in failed' => ~ Pending(c)'
  <2>1. CASE c \in aborted /\ failed' = failed \cup {c} /\ queue' = queue
    BY <1>1, <1>2, <2>1, Parts, LocksKept
  <2>2. CASE /\ failed' = failed
             /\ queue' = [l \in Locks |->
                             IF owner[l] = None THEN queue[l]
                             ELSE Append(queue[l], [client |-> c, kind |-> "wait"])]
    BY <1>1, <1>2, <2>2, Parts, WaitEffect
  <2>3. QED
    BY <2>1, <2>2 DEF WaitForUnlock
<1>4. \A m \in Locks : "unlock" \in Place(m, "wait")
  BY DEF Place
<1>5. Moved(c, "unlock")
  <2>1. Counts(c, "unlock")
    BY <1>1, Parts DEF counts, Counts, One, CountedReaders, CountedBlocked, CountedWriters
  <2>2. QED
    BY <1>1, <1>3, <1>4, <2>1, Parts DEF Moved, Goto, PCs, Awaiting
<1>6. TypeOK' /\ QueueTypes' /\ PlaceInv' /\ FailedInv' /\ CountInv'
  BY <1>2, <1>5, MoveStep
<1>7. \A d \in Clients : pc'[d] = IF d = c THEN "unlock" ELSE pc[d]
  BY <1>1, Parts DEF Goto
<1>8. \A d \in Clients : d # c => (Won(d)' <=> Won(d))
  BY <1>3 DEF Won
<1>9. SharedInv'
  BY <1>1, <1>8, SharedKept DEF CountedReaders
<1>10. ASSUME prefers = "write"
       PROVE  WriterInv' /\ AheadInv'
  <2>1. WriterInv /\ AheadInv
    BY <1>10 DEF IInv
  <2>2. WriterInv'
    BY <1>1, <1>7, <1>8, <2>1 DEF WriterInv, WriterAt
  <2>3. AheadInv'
    BY <1>1, <1>3, <1>5, <2>1, AheadKept DEF WriterWaits
  <2>4. QED
    BY <2>2, <2>3
<1>11. ASSUME prefers = "read"
       PROVE  ReaderInv'
  BY <1>1, <1>3, <1>7, <1>8, <1>11 DEF IInv, ReaderInv, ReaderAt, CountedReaders
<1>12. QED
  BY <1>6, <1>9, <1>10, <1>11 DEF IInv

LEMMA UnlockedStep ==
    ASSUME IInv, NEW c \in Clients, Unlocked(c), Remember, prefers' = prefers
    PROVE  IInv'
<1>1. /\ pc[c] = "unlock" /\ ~ Pending(c) /\ failed' = failed \ {c} /\ Return(c, "idle")
      /\ UNCHANGED <<owner, queue, counts, settled, release, orphaned>>
  BY DEF Unlocked, Answered
<1>2. Goes(c, "idle")
  BY <1>1, Parts
     DEF counts, Goes, Return, PCs, Counts, One, CountedReaders, CountedBlocked, CountedWriters
<1>3. /\ Rest'
      /\ \A d \in Clients : pc'[d] = IF d = c THEN "idle" ELSE pc[d]
      /\ \A d \in Clients : d # c => (Won(d)' <=> Won(d))
  BY <1>1, <1>2, StillStep DEF WriterWaits
<1>4. SharedInv'
  BY <1>1, <1>2, <1>3, SharedKept DEF CountedReaders, Goes
<1>5. ASSUME prefers = "write"
      PROVE  WriterInv'
  BY <1>1, <1>3, <1>5 DEF IInv, WriterInv, WriterAt
<1>6. ASSUME prefers = "read"
      PROVE  ReaderInv'
  BY <1>1, <1>3, <1>6 DEF IInv, ReaderInv, ReaderAt, CountedReaders
<1>7. QED
  BY <1>3, <1>4, <1>5, <1>6, RestGivesIInv

\* An abort takes a call that waits out of its queue and rejects it; a call
\* that has been answered keeps its answer.
LEMMA AbortStep ==
    ASSUME IInv, NEW c \in Clients, Abort(c), Remember, prefers' = prefers
    PROVE  IInv'
<1>1. /\ pc[c] \notin Ending \cup {"reading", "writing"}
      /\ aborted' = aborted \cup {c}
      /\ failed' = IF Pending(c) THEN failed \cup {c} ELSE failed
      /\ queue' = [l \in Locks |-> Without(queue[l], c)]
      /\ UNCHANGED <<owner, pc, counts, settled, release, orphaned>>
  BY DEF Abort
<1>2. /\ QueueTypes'
      /\ \A m \in Locks, d \in Clients, j \in Kinds : Entry(m, d, j)' => Entry(m, d, j)
      /\ \A d \in Clients : Pending(d)' <=> Pending(d) /\ d # c
      /\ \A w, d \in Clients : Before(w, d) /\ w # c /\ d # c => Before(w, d)'
  BY <1>1, Parts, AbortEffect
<1>3. \A d \in Clients : Won(d)' <=> Won(d)
  BY <1>1, <1>2 DEF Won
<1>4. failed \subseteq failed' /\ \A d \in failed' : d \in failed \/ (d = c /\ Pending(c))
  BY <1>1
<1>5. PlaceInv' /\ CountInv'
  <2>1. PlaceInv'
    <3>1. \A l, k : Place(l, k)' = Place(l, k)
      BY DEF Place
    <3>2. QED
      BY <1>1, <1>2, <3>1, Parts DEF PlaceInv
  <2>2. CountInv'
    BY <1>1, Parts DEF counts, CountInv, At
  <2>3. QED
    BY <2>1, <2>2
<1>6. FailedInv'
  <2>1. Pending(c) => pc[c] \in Awaiting
    BY <1>1, Parts, WaitingPlace DEF Ending
  <2>2. QED
    BY <1>1, <1>2, <1>4, <2>1, Parts DEF FailedInv
<1>7. /\ ahead' \in [Clients -> SUBSET Clients]
      /\ \A d \in Clients : /\ ahead'[d] \subseteq ahead[d]
                            /\ \A w \in ahead'[d] : pc'[w] \in WriterWaits
  BY <1>1, Parts DEF Remember, ReaderWaits
<1>8. TypeOK'
  <2>1. failed' \in SUBSET Clients /\ aborted' \in SUBSET Clients
    BY <1>1, Parts
  <2>2. queue' \in [Locks -> Seq(Entries)]
    BY <1>2 DEF QueueTypes
  <2>3. TypeOK
    BY DEF IInv
  <2>4. QED
    BY <1>1, <1>7, <2>1, <2>2, <2>3 DEF TypeOK, counts
<1>9. SharedInv'
  BY <1>1, <1>3, Parts DEF SharedInv, SharedAt, Shared
<1>10. ASSUME prefers = "write"
       PROVE  WriterInv' /\ AheadInv'
  <2>1. WriterInv /\ AheadInv
    BY <1>10 DEF IInv
  <2>2. WriterInv'
    BY <1>1, <1>3, <2>1 DEF WriterInv, WriterAt
  <2>3. \A d \in Clients : Before(c, d) => Pending(c)
    BY CallFacts DEF Before, Precedes, Pending, Kinds, Locks
  <2>4. ASSUME NEW d \in Clients
        PROVE  AheadAt(d)'
    <3>1. AheadAt(d)
      BY <2>1 DEF AheadInv
    <3>2. pc[d] \in {"first", "second"} \/ (pc[d] = "blocked" /\ Won(d)') =>
             ahead'[d] \subseteq failed'
      BY <1>3, <1>4, <1>7, <3>1 DEF AheadAt
    <3>3. ASSUME pc[d] = "blocked", Pending(d)', NEW w \in ahead'[d]
          PROVE  w \in failed' \/ owner["writers"] = <<w, "write">> \/ Before(w, d)'
      <4>1. Pending(d) /\ d # c /\ w \in ahead[d] /\ w \in Clients
        BY <1>2, <1>7, <3>3
      <4>2. w \in failed \/ owner["writers"] = <<w, "write">> \/ Before(w, d)
        BY <3>1, <3>3, <4>1 DEF AheadAt
      <4>3. CASE w # c
        BY <1>2, <1>4, <4>1, <4>2, <4>3
      <4>4. CASE w = c
        BY <1>1, <1>4, <2>3, <4>2, <4>4
      <4>5. QED
        BY <4>3, <4>4
    <3>4. QED
      BY <1>1, <1>7, <3>2, <3>3 DEF AheadAt
  <2>5. QED
    BY <2>2, <2>4 DEF AheadInv
<1>11. ASSUME prefers = "read"
       PROVE  ReaderInv'
  <2>1. ReaderInv
    BY <1>11 DEF IInv
  <2>2. pc[c] # "leaving"
    BY <1>1 DEF Ending
  <2>3. QED
    BY <1>1, <1>3, <1>4, <2>1, <2>2 DEF ReaderInv, ReaderAt
<1>12. QED
  BY <1>2, <1>5, <1>6, <1>8, <1>9, <1>10, <1>11 DEF IInv

-----------------------------------------------------------------------------
(* The theorems.                                                           *)

LEMMA IInvInit == Init => IInv
<1> SUFFICES ASSUME Init
             PROVE  IInv
  OBVIOUS
<1>1. /\ prefers \in {"read", "write"}
      /\ owner = [l \in Locks |-> None] /\ queue = [l \in Locks |-> <<>>]
      /\ pc = [c \in Clients |-> "idle"] /\ failed = {} /\ aborted = {}
      /\ readerCount = 0 /\ blocked = 0 /\ writerCount = 0 /\ settled = TRUE
      /\ release = None /\ orphaned = FALSE /\ ahead = [c \in Clients |-> {}]
  BY DEF Init
<1>2. \A c \in Clients, k \in {"read", "write"} : <<c, k>> # None
  BY HoldsNotNone
<1>3. TypeOK
  <2>1. queue \in [Locks -> Seq(Entries)]
    <3> DEFINE E == Entries
    <3> HIDE DEF E
    <3>1. <<>> \in Seq(E)
      OBVIOUS
    <3>2. QED
      BY <1>1, <3>1 DEF E
  <2>2. owner \in [Locks -> Holds \cup {None}]
    BY <1>1
  <2>3. /\ pc \in [Clients -> {"idle", "reading", "writing", "unlock"}
                               \cup ReaderWaits \cup WriterWaits \cup Ending]
        /\ ahead \in [Clients -> SUBSET Clients]
    BY <1>1
  <2>4. QED
    BY <1>1, <2>1, <2>2, <2>3 DEF TypeOK
<1>4. QueueTypes
  BY <1>1 DEF QueueTypes, Single
<1>5. \A l \in Locks, c \in Clients, k \in Kinds : ~ Entry(l, c, k)
  BY <1>1 DEF Entry, Has
<1>6. PlaceInv /\ FailedInv
  BY <1>1, <1>5 DEF PlaceInv, FailedInv
<1>7. CountInv
  <2>1. \A S : "idle" \notin S => At(S) = {}
    BY <1>1 DEF At
  <2>2. At(CountedReaders) = {} /\ At(CountedBlocked) = {} /\ At(CountedWriters) = {}
    BY <2>1 DEF CountedReaders, CountedBlocked, CountedWriters
  <2>3. QED
    BY <1>1, <2>2, FS_EmptySet DEF CountInv
<1>8. SharedInv
  BY <1>1, <1>2 DEF SharedInv, SharedAt, Shared, CountedReaders, Locks
<1>9. WriterInv
  BY <1>1, <1>2 DEF WriterInv, WriterAt, Locks
<1>10. ReaderInv
  BY <1>1, <1>2 DEF ReaderInv, ReaderAt, Locks
<1>11. AheadInv
  BY <1>1 DEF AheadInv, AheadAt
<1>12. QED
  BY <1>3, <1>4, <1>6, <1>7, <1>8, <1>9, <1>10, <1>11 DEF IInv

LEMMA IInvNext == IInv /\ [Next]_vars => IInv'
<1> SUFFICES ASSUME IInv, [Next]_vars
             PROVE  IInv'
  OBVIOUS
<1>1. ASSUME NEW c \in Clients, WriterVariant(c), Remember, prefers' = prefers
      PROVE  IInv'
  <2>1. prefers = "write"
    BY <1>1 DEF WriterVariant
  <2>2. CASE ReadW(c)
    BY <1>1, <2>1, <2>2, ReadWStep
  <2>3. CASE BlockedW(c)
    BY <1>1, <2>1, <2>3, BlockedWStep
  <2>4. CASE FirstW(c)
    BY <1>1, <2>1, <2>4, FirstWStep
  <2>5. CASE Second(c)
    BY <1>1, <2>5, SecondStep
  <2>6. CASE EndReadW(c)
    BY <1>1, <2>1, <2>6, EndReadWStep
  <2>7. CASE WriteW(c)
    BY <1>1, <2>7, WriteStep
  <2>8. CASE WritersW(c)
    BY <1>1, <2>1, <2>8, WritersWStep
  <2>9. CASE ReadersW(c)
    BY <1>1, <2>1, <2>9, ReadersWStep
  <2>10. CASE EndWriteW(c)
    BY <1>1, <2>1, <2>10, EndWriteWStep
  <2>11. CASE UnlockW(c)
    BY <1>1, <2>1, <2>11, UnlockWStep
  <2>12. CASE Uncount(c)
    BY <1>1, <2>12, UncountStep
  <2>13. QED
    BY <1>1, <2>2, <2>3, <2>4, <2>5, <2>6, <2>7, <2>8, <2>9, <2>10, <2>11, <2>12
       DEF WriterVariant
<1>2. ASSUME NEW c \in Clients, ReaderVariant(c), Remember, prefers' = prefers
      PROVE  IInv'
  <2>1. prefers = "read"
    BY <1>2 DEF ReaderVariant
  <2>2. CASE ReadR(c)
    BY <1>2, <2>1, <2>2, ReadRStep
  <2>3. CASE EnteringR(c)
    BY <1>2, <2>1, <2>3, EnteringRStep
  <2>4. CASE FirstR(c)
    BY <1>2, <2>1, <2>4, FirstRStep
  <2>5. CASE Second(c)
    BY <1>2, <2>5, SecondStep
  <2>6. CASE EndReadR(c)
    BY <1>2, <2>1, <2>6, EndReadRStep
  <2>7. CASE LeavingR(c)
    BY <1>2, <2>1, <2>7, LeavingRStep
  <2>8. CASE LeftR(c)
    BY <1>2, <2>1, <2>8, LeftRStep
  <2>9. CASE WriteR(c)
    BY <1>2, <2>9, WriteStep
  <2>10. CASE WritersR(c)
    BY <1>2, <2>1, <2>10, WritersRStep
  <2>11. CASE EndWriteR(c)
    BY <1>2, <2>1, <2>11, EndWriteRStep
  <2>12. CASE Uncount(c)
    BY <1>2, <2>12, UncountStep
  <2>13. QED
    BY <1>2, <2>2, <2>3, <2>4, <2>5, <2>6, <2>7, <2>8, <2>9, <2>10, <2>11, <2>12
       DEF ReaderVariant
<1>3. CASE Next
  <2>1. PICK c \in Clients :
           \/ WriterVariant(c) \/ ReaderVariant(c)
           \/ WaitForUnlock(c) \/ Unlocked(c) \/ Abort(c)
    BY <1>3 DEF Next
  <2>2. Remember /\ prefers' = prefers
    BY <1>3 DEF Next
  <2>3. CASE WriterVariant(c) \/ ReaderVariant(c)
    BY <1>1, <1>2, <2>2, <2>3
  <2>4. CASE WaitForUnlock(c)
    BY <2>2, <2>4, WaitForUnlockStep
  <2>5. CASE Unlocked(c)
    BY <2>2, <2>5, UnlockedStep
  <2>6. CASE Abort(c)
    BY <2>2, <2>6, AbortStep
  <2>7. QED
    BY <2>1, <2>3, <2>4, <2>5, <2>6
<1>4. CASE UNCHANGED vars
  <2>1. /\ UNCHANGED <<prefers, owner, queue, failed, pc, aborted, readerCount, blocked>>
        /\ UNCHANGED <<writerCount, settled, release, orphaned, ahead>>
    BY <1>4 DEF vars, locks, counts, history
  <2>2. TypeOK' /\ QueueTypes'
    BY <2>1 DEF IInv, TypeOK, QueueTypes
  <2>3. \A m, d, j : /\ Entry(m, d, j)' <=> Entry(m, d, j)
                     /\ Place(m, j)' = Place(m, j)
    BY <2>1 DEF Entry, Place
  <2>4. /\ \A d : Pending(d)' <=> Pending(d)
        /\ \A d : Won(d)' <=> Won(d)
        /\ \A w, d : Before(w, d)' <=> Before(w, d)
    BY <2>1 DEF Pending, Won, Before
  <2>5. PlaceInv' /\ FailedInv'
    BY <2>1, <2>3, <2>4 DEF IInv, PlaceInv, FailedInv
  <2>6. CountInv'
    BY <2>1 DEF IInv, CountInv, At
  <2>7. SharedInv'
    BY <2>1, <2>4 DEF IInv, SharedInv, SharedAt, Shared
  <2>8. prefers = "write" => WriterInv' /\ AheadInv'
    BY <2>1, <2>4 DEF IInv, WriterInv, WriterAt, AheadInv, AheadAt
  <2>9. prefers = "read" => ReaderInv'
    BY <2>1, <2>4 DEF IInv, ReaderInv, ReaderAt
  <2>10. QED
    BY <2>1, <2>2, <2>5, <2>6, <2>7, <2>8, <2>9 DEF IInv
<1>5. QED
  BY <1>3, <1>4

\* The invariant of the two read-write locks: how far each call has come
\* determines which Lock it holds, what the counters count and whose release
\* the shared field keeps.
THEOREM InvariantHolds == Spec => []IInv
BY IInvInit, IInvNext, PTL DEF Spec

\* The fields of both locks keep their types; no counter falls below zero.
THEOREM TypeCorrect == Spec => []TypeOK
<1>1. IInv => TypeOK
  BY DEF IInv
<1>2. QED
  BY <1>1, InvariantHolds, PTL

\* Two writers never write at once.  A reader reads beside a writer only after
\* a first reader of RWLockWriter failed with others behind it.
THEOREM ExclusionHolds == Spec => []Exclusion
<1>1. IInv => Exclusion
  <2> SUFFICES ASSUME IInv
               PROVE  Exclusion
    OBVIOUS
  <2>1. CASE prefers = "write"
    <3>1. WriterInv /\ SharedInv
      BY <2>1 DEF IInv
    <3>2. ASSUME NEW v \in Clients, NEW w \in Clients, pc[v] = "writing", pc[w] = "writing"
          PROVE  v = w
      BY <3>1, <3>2 DEF WriterInv, WriterAt
    <3>3. ASSUME NEW r \in Clients, NEW w \in Clients, pc[r] = "reading", pc[w] = "writing",
                 ~ orphaned
          PROVE  FALSE
      <4>1. owner["readers"] = <<w, "write">>
        BY <3>1, <3>3 DEF WriterInv, WriterAt
      <4>2. \E d \in Clients : owner["readers"] = <<d, "read">>
        BY <2>1, <3>1, <3>3 DEF SharedInv, SharedAt, Shared, CountedReaders
      <4>3. QED
        BY <4>1, <4>2
    <3>4. QED
      BY <2>1, <3>2, <3>3 DEF Exclusion, Reading, Writing
  <2>2. CASE prefers = "read"
    <3>1. ReaderInv /\ SharedInv
      BY <2>2 DEF IInv
    <3>2. ASSUME NEW v \in Clients, NEW w \in Clients, pc[v] = "writing", pc[w] = "writing"
          PROVE  v = w
      BY <3>1, <3>2 DEF ReaderInv, ReaderAt
    <3>3. ASSUME NEW r \in Clients, NEW w \in Clients, pc[r] = "reading", pc[w] = "writing"
          PROVE  FALSE
      <4>1. owner["writers"] = <<w, "write">>
        BY <3>1, <3>3 DEF ReaderInv, ReaderAt
      <4>2. \E d \in Clients : owner["writers"] = <<d, "read">>
        BY <2>2, <3>1, <3>3 DEF ReaderInv, SharedInv, SharedAt, Shared, CountedReaders
      <4>3. QED
        BY <4>1, <4>2
    <3>4. ~ orphaned
      BY <3>1 DEF ReaderInv
    <3>5. QED
      BY <3>2, <3>3, <3>4 DEF Exclusion, Reading, Writing
  <2>3. QED
    BY <2>1, <2>2, Parts
<1>2. QED
  BY <1>1, InvariantHolds, PTL

\* Whatever calls failed or released another's lock, once no call is in
\* progress both Locks are free, their queues empty and the counters zero.
THEOREM NothingLeftHolds == Spec => []NothingLeft
<1>1. IInv => NothingLeft
  <2> SUFFICES ASSUME IInv, \A c \in Clients : pc[c] = "idle"
               PROVE  /\ ~ IsLocked("any")
                      /\ readerCount = 0 /\ blocked = 0 /\ writerCount = 0
                      /\ \A l \in Locks : queue[l] = <<>>
    BY DEF NothingLeft
  <2>1. readerCount = 0 /\ blocked = 0 /\ writerCount = 0
    <3>1. At(CountedReaders) = {} /\ At(CountedBlocked) = {} /\ At(CountedWriters) = {}
      BY DEF At, CountedReaders, CountedBlocked, CountedWriters
    <3>2. QED
      BY <3>1, Parts, FS_EmptySet DEF CountInv
  <2>2. ASSUME NEW l \in Locks
        PROVE  queue[l] = <<>>
    <3>1. queue[l] \in Seq(Entries)
      BY Parts
    <3>2. ASSUME NEW i \in 1 .. Len(queue[l])
          PROVE  FALSE
      <4>1. queue[l][i].client \in Clients /\ i \in DOMAIN queue[l]
        BY <3>1, <3>2, QueueFacts
      <4>2. Pending(queue[l][i].client)
        BY <4>1 DEF Pending
      <4>3. QED
        BY <4>1, <4>2, Parts, NotWaiting DEF Awaiting
    <3>3. Len(queue[l]) = 0
      BY <3>1, <3>2, QueueFacts
    <3>4. QED
      BY <3>1, <3>3
  <2>3. ASSUME NEW l \in Locks
        PROVE  owner[l] = None
    <3>1. \A c \in Clients : owner[l] # <<c, "read">> /\ owner[l] # <<c, "write">>
      <4>1. CASE prefers = "write"
        BY <4>1 DEF IInv, WriterInv, WriterAt, SharedInv, SharedAt, Shared, Locks,
                    CountedReaders
      <4>2. CASE prefers = "read"
        BY <4>2 DEF IInv, ReaderInv, ReaderAt, SharedInv, SharedAt, Shared, Locks,
                    CountedReaders
      <4>3. QED
        BY <4>1, <4>2, Parts
    <3>2. QED
      BY <3>1, Parts DEF Holds
  <2>4. \A l \in Locks : ~ LockIsLocked(l)
    BY <2>2, <2>3 DEF LockIsLocked
  <2>5. ~ IsLocked("any")
    BY <2>1, <2>4 DEF IsLocked, IsLockedW, IsLockedR, Locks
  <2>6. QED
    BY <2>1, <2>2, <2>5
<1>2. QED
  BY <1>1, InvariantHolds, PTL

\* RWLockWriter prefers writers: when a reader starts to read, every writer
\* that waited when it called, and still waits, has been rejected.
THEOREM WritersFirstHolds == Spec => WritersFirst
<1> DEFINE Kept ==
              \A c \in Clients :
                 (/\ prefers = "write"
                  /\ pc[c] # "reading" /\ pc'[c] = "reading") =>
                       ahead[c] \subseteq failed
<1>1. IInv /\ [Next]_vars => [Kept]_vars
  <2> SUFFICES ASSUME IInv, Next, NEW c \in Clients,
                      prefers = "write", pc[c] # "reading", pc'[c] = "reading"
               PROVE  ahead[c] \subseteq failed
    OBVIOUS
  <2>1. pc \in [Clients -> PCs] /\ prefers = "write"
    BY Parts
  <2>2. PICK d \in Clients :
           \/ WriterVariant(d) \/ ReaderVariant(d)
           \/ WaitForUnlock(d) \/ Unlocked(d) \/ Abort(d)
    BY DEF Next
  <2>3. \A l : pc' = [pc EXCEPT ![d] = l] /\ l # "reading" => pc'[c] # "reading"
    BY <2>1
  <2>4. ~ (WaitForUnlock(d) \/ Unlocked(d) \/ Abort(d) \/ ReaderVariant(d))
    BY <2>1, <2>3 DEF WaitForUnlock, Unlocked, Abort, ReaderVariant, Goto, Return
  <2>5. FirstW(d) \/ Second(d)
    <3>1. ~ (ReadW(d) \/ BlockedW(d))
      BY <2>3 DEF ReadW, BlockedW, JoinW, Goto, Return
    <3>2. ~ (EndReadW(d) \/ EndWriteW(d) \/ UnlockW(d) \/ Uncount(d))
      BY <2>3 DEF EndReadW, EndWriteW, UnlockW, Uncount, Goto
    <3>3. ~ (WriteW(d) \/ WritersW(d) \/ ReadersW(d))
      BY <2>3 DEF WriteW, WritersW, ReadersW, Goto, Return
    <3>4. QED
      BY <2>2, <2>4, <3>1, <3>2, <3>3 DEF WriterVariant
  <2>6. pc[d] \in {"first", "second"} /\ d = c
    BY <2>1, <2>5 DEF FirstW, Second, Goto, Return
  <2>7. AheadAt(c)
    BY <2>1 DEF IInv, AheadInv
  <2>8. QED
    BY <2>6, <2>7 DEF AheadAt
<1> HIDE DEF Kept
<1>2. Spec => [][Kept]_vars
  BY <1>1, InvariantHolds, PTL DEF Spec
<1>3. QED
  BY <1>2 DEF Kept, WritersFirst
=============================================================================
