----------------------------- MODULE FlowProofs -----------------------------
(***************************************************************************)
(* What is proved of Flow.  Packets are followed byte by byte from the     *)
(* packet that a cone reads, through the _PendingQueue and the pipeline of *)
(* a destination, to the channel it writes.  The first half is about one   *)
(* destination; then comes the inductive invariant IInv and, action by     *)
(* action, why it is kept; the theorems follow.  Then come the turns that  *)
(* an arbiter gives to its children.  The last part shows that each        *)
(* channel behaves as Channel says: what is on the way to it, who is       *)
(* called, and, kind of step by kind of step, what the channel sees.       *)
(***************************************************************************)
EXTENDS Flow, FiniteSetTheorems, WellFoundedInduction, TLAPS

-----------------------------------------------------------------------------
\* Sequences.

\* What is left of a sequence without repetitions when its head is gone.
LEMMA TailOnce ==
  ASSUME NEW S, NEW q \in Seq(S), q # <<>>,
         \A j, k \in DOMAIN q : q[j] = q[k] => j = k
  PROVE  /\ Tail(q) \in Seq(S)
         /\ DOMAIN Tail(q) = 1 .. Len(q) - 1
         /\ \A j \in DOMAIN Tail(q) : Tail(q)[j] = q[j + 1] /\ j + 1 \in DOMAIN q
         /\ \A j, k \in DOMAIN Tail(q) : Tail(q)[j] = Tail(q)[k] => j = k
         /\ Tail(q) # <<>> => Head(Tail(q)) \in S
         /\ \A j \in DOMAIN Tail(q) : Tail(q)[j] # Head(q)
<1>1. /\ Tail(q) \in Seq(S)
      /\ Len(Tail(q)) = Len(q) - 1
      /\ DOMAIN Tail(q) = 1 .. Len(q) - 1
      /\ DOMAIN q = 1 .. Len(q)
      /\ Len(q) \in Nat
      /\ Head(q) = q[1] /\ 1 \in DOMAIN q
  OBVIOUS
<1>2. \A j \in DOMAIN Tail(q) : Tail(q)[j] = q[j + 1] /\ j + 1 \in DOMAIN q
  OBVIOUS
<1>3. \A j, k \in DOMAIN Tail(q) : Tail(q)[j] = Tail(q)[k] => j = k
  BY <1>1, <1>2
<1>4. \A j \in DOMAIN Tail(q) : Tail(q)[j] # Head(q)
  BY <1>1, <1>2
<1>5. Tail(q) # <<>> => Head(Tail(q)) \in S
  BY <1>1
<1>6. QED
  BY <1>1, <1>2, <1>3, <1>4, <1>5

\* Two sequences without repetitions and with nothing in common, put together.
LEMMA ConcatOnce ==
  ASSUME NEW S, NEW p \in Seq(S), NEW q \in Seq(S),
         \A j, k \in DOMAIN p : p[j] = p[k] => j = k,
         \A j, k \in DOMAIN q : q[j] = q[k] => j = k,
         \A j \in DOMAIN q, k \in DOMAIN p : q[j] # p[k]
  PROVE  LET pq == p \o q IN
         /\ pq \in Seq(S)
         /\ DOMAIN pq = 1 .. Len(p) + Len(q)
         /\ \A k \in DOMAIN p : k \in DOMAIN pq /\ pq[k] = p[k]
         /\ \A k \in DOMAIN q : k + Len(p) \in DOMAIN pq /\ pq[k + Len(p)] = q[k]
         /\ \A k \in DOMAIN pq :
              \/ k \in DOMAIN p /\ pq[k] = p[k]
              \/ k - Len(p) \in DOMAIN q /\ k > Len(p) /\ pq[k] = q[k - Len(p)]
         /\ \A j, k \in DOMAIN pq : pq[j] = pq[k] => j = k
         /\ p # <<>> => pq # <<>> /\ Head(pq) = Head(p)
<1> DEFINE pq == p \o q
           n == Len(p)
           m == Len(q)
<1>1. /\ n \in Nat /\ m \in Nat
      /\ DOMAIN p = 1 .. n /\ DOMAIN q = 1 .. m
      /\ pq \in Seq(S) /\ Len(pq) = n + m /\ DOMAIN pq = 1 .. n + m
      /\ \A k \in 1 .. n + m : pq[k] = IF k <= n THEN p[k] ELSE q[k - n]
  OBVIOUS
<1> HIDE DEF pq, n, m
<1>2. \A k \in DOMAIN pq :
        \/ k \in DOMAIN p /\ pq[k] = p[k]
        \/ k - n \in DOMAIN q /\ k > n /\ pq[k] = q[k - n]
  BY <1>1
<1>3. /\ \A k \in DOMAIN p : k \in DOMAIN pq /\ pq[k] = p[k]
      /\ \A k \in DOMAIN q : k + n \in DOMAIN pq /\ pq[k + n] = q[k]
  <2>1. \A k \in 1 .. m : k + n \in 1 .. n + m /\ ~(k + n <= n) /\ (k + n) - n = k
    BY <1>1
  <2>2. \A k \in 1 .. n : k \in 1 .. n + m /\ k <= n
    BY <1>1
  <2>3. QED
    BY <1>1, <2>1, <2>2
<1>4. ASSUME NEW j \in DOMAIN pq, NEW k \in DOMAIN pq, pq[j] = pq[k]
      PROVE  j = k
  <2>1. CASE j \in DOMAIN p /\ k \in DOMAIN p
    BY <1>3, <1>4, <2>1
  <2>2. CASE /\ j - n \in DOMAIN q /\ pq[j] = q[j - n]
             /\ k - n \in DOMAIN q /\ pq[k] = q[k - n]
    <3>1. j - n = k - n
      BY <1>4, <2>2
    <3>2. QED
      BY <1>1, <3>1
  <2>3. QED
    BY <1>2, <1>4, <2>1, <2>2
<1>5. p # <<>> => pq # <<>> /\ Head(pq) = Head(p)
  BY <1>1
<1>6. QED
  BY <1>1, <1>2, <1>3, <1>4, <1>5 DEF pq, n, m

-----------------------------------------------------------------------------
\* Destinations.

\* The facets that destination d makes.
FacetsBy(d) == {f \in Facet : f.by = d}

\* What _Bite and a stage of the pipeline of d can hold.
BiteOf(d) == [facet : FacetsBy(d), size : Nat \ {0}, last : BOOLEAN]

\* The members of a destination's record.
Fields == {"pending", "sent", "bite", "unit", "offset", "stream", "pipeline", "active",
           "update", "point"}

\* A destination holds facets that were made for it, each once; of the one in front of
\* _PendingQueue a part may be sent.
Object(d, r) ==
  /\ DOMAIN r = Fields
  /\ r = [x \in Fields |-> r[x]]
  /\ r.pending \in Seq(FacetsBy(d))
  /\ r.sent \in Nat
  /\ r.offset \in Nat
  /\ r.active \in Int
  /\ r.bite \in BiteOf(d) \cup {NoBite}
  /\ r.unit \in [1 .. Stages[d] -> BiteOf(d) \cup {NoBite}]
  /\ \A j, k \in DOMAIN r.pending : r.pending[j] = r.pending[k] => j = k
  /\ r.pending = <<>> => r.sent = 0
  /\ r.pending # <<>> => r.sent < Head(r.pending).size

\* What the invariants are about is the same in r and q.
SameLoad(r, q) ==
  /\ q.pending = r.pending
  /\ q.sent = r.sent
  /\ q.bite = r.bite
  /\ q.unit = r.unit
  /\ q.offset = r.offset

\* NoBite is no bite.
LEMMA NoBiteIsNone ==
  ASSUME NEW d \in Dst
  PROVE  NoBite \notin BiteOf(d)
BY FacetAssumption DEF BiteOf, FacetsBy

\* NextPoint gives a point of time.
LEMMA NextPointType ==
  ASSUME NEW point \in Int, NEW cycle \in Nat \ {0}
  PROVE  NextPoint(point, cycle) \in Int
<1>1. (-point) \div cycle \in Int
  OBVIOUS
<1>2. \A k \in Int : point + cycle * (k + 1) \in Int
  OBVIOUS
<1>3. QED
  BY <1>1, <1>2 DEF NextPoint

\* SetTo moves the time and nothing that was made.
LEMMA SetToLoad ==
  ASSUME NEW d \in Dst, NEW r, Object(d, r), NEW mode \in {"Execute", "Prepare", "Resume"}
  PROVE  Object(d, SetTo(mode, r)) /\ SameLoad(r, SetTo(mode, r))
BY DEF Object, SameLoad, SetTo, SetToTransfer, SetToPrepare, SetToResume, Fields

\* ResetOffset forgets what was read of the source, and nothing that was made.
LEMMA ResetLoad ==
  ASSUME NEW d \in Dst, NEW r, Object(d, r)
  PROVE  LET q == ResetOffset(r) IN
         /\ Object(d, q)
         /\ q.offset = 0
         /\ q.pending = r.pending /\ q.sent = r.sent /\ q.bite = r.bite /\ q.unit = r.unit
BY DEF Object, ResetOffset, Fields

\* The answer of a destination whose delays are polled changes none of its facets.
LEMMA PolledLoad ==
  ASSUME NEW d \in Dst, NEW r, Object(d, r)
  PROVE  Object(d, Polled(d, r)) /\ SameLoad(r, Polled(d, r))
BY NextPointType, DestinationAssumption DEF Object, SameLoad, Polled, Fields

\* Time that elapses changes none of its facets.
LEMMA ElapseLoad ==
  ASSUME NEW d \in Dst, NEW r, Object(d, r)
  PROVE  Object(d, Elapse(d, r)) /\ SameLoad(r, Elapse(d, r))
<1> DEFINE q == Elapse(d, r)
<1>1. /\ DOMAIN q = Fields /\ q = [x \in Fields |-> q[x]]
      /\ q.active = IF r.active = 1 - Cycle[d] THEN 0 ELSE r.active - 1
  BY DEF Object, Elapse, Fields
<1>2. SameLoad(r, q)
  BY DEF Object, SameLoad, Elapse, Fields
<1>3. q.active \in Int
  BY <1>1 DEF Object
<1> HIDE DEF q
<1>4. Object(d, q)
  BY <1>1, <1>2, <1>3 DEF Object, SameLoad
<1>5. QED
  BY <1>2, <1>4 DEF q

\* The delays that pass before a bite change none of its facets.
LEMMA PassLoad ==
  ASSUME NEW d \in Dst, NEW r, Object(d, r), NEW p, NEW b
  PROVE  Object(d, PassDelays(r, p, b)) /\ SameLoad(r, PassDelays(r, p, b))
BY DEF Object, SameLoad, PassDelays, Fields

\* TakeBite sends the next bite of the packet in front.
LEMMA TakeBiteLoad ==
  ASSUME NEW d \in Dst, NEW r, Object(d, r), r.pending # <<>>, r.bite = NoBite
  PROVE  LET q == TakeBite(d, r)
             f == Head(r.pending)
         IN /\ Object(d, q)
            /\ q.unit = r.unit
            /\ q.bite \in BiteOf(d)
            /\ q.bite.facet = f
            /\ q.offset = r.offset + q.bite.size
            /\ q.bite.size = DueBite(d, r).size
            /\ \/ /\ ~q.bite.last
                  /\ q.pending = r.pending
                  /\ q.sent = r.sent + q.bite.size
               \/ /\ q.bite.last
                  /\ q.pending = Tail(r.pending)
                  /\ q.sent = 0
                  /\ q.bite.size = f.size - r.sent
<1> DEFINE q == TakeBite(d, r)
           f == Head(r.pending)
           bite == DueBite(d, r)
<1>1. /\ f \in FacetsBy(d) /\ f.size \in Nat \ {0} /\ r.sent < f.size
      /\ BiteSize[d] \in Nat \ {0}
  BY DestinationAssumption, FacetAssumption DEF Object, FacetsBy
<1>2. /\ bite \in BiteOf(d)
      /\ bite.facet = f
      /\ bite.last => bite.size = f.size - r.sent
      /\ ~bite.last => bite.size + r.sent < f.size
  <2>1. CASE r.sent + BiteSize[d] >= f.size
    <3>1. bite = [facet |-> f, size |-> f.size - r.sent, last |-> TRUE]
      BY <1>1, <2>1 DEF DueBite, Bite
    <3>2. f.size - r.sent \in Nat \ {0}
      BY <1>1 DEF Object
    <3>3. QED
      BY <1>1, <3>1, <3>2 DEF BiteOf
  <2>2. CASE ~(r.sent + BiteSize[d] >= f.size)
    <3> DEFINE last == r.sent + BiteSize[d] >= f.size
    <3>a. last = FALSE
      BY <2>2
    <3>b. bite = [facet |-> f, size |-> IF last THEN f.size - r.sent ELSE BiteSize[d],
                  last |-> last]
      BY Zenon DEF DueBite, Bite
    <3> HIDE DEF last
    <3>1. bite = [facet |-> f, size |-> BiteSize[d], last |-> FALSE]
      BY <3>a, <3>b
    <3>2. BiteSize[d] + r.sent < f.size
      BY <1>1, <2>2 DEF Object
    <3>3. QED
      BY <1>1, <3>1, <3>2 DEF BiteOf
  <2>3. QED
    BY <2>1, <2>2
<1> HIDE DEF bite
<1>3. /\ DOMAIN q = Fields /\ q = [x \in Fields |-> q[x]]
      /\ q.offset = r.offset + bite.size
      /\ q.bite = bite
      /\ q.sent = IF bite.last THEN 0 ELSE r.sent + bite.size
      /\ q.pending = IF bite.last THEN Tail(r.pending) ELSE r.pending
      /\ q.unit = r.unit /\ q.active = r.active
  BY DEF TakeBite, bite, Object, Fields
<1> HIDE DEF q
<1>4. /\ Tail(r.pending) \in Seq(FacetsBy(d))
      /\ \A j, k \in DOMAIN Tail(r.pending) :
           Tail(r.pending)[j] = Tail(r.pending)[k] => j = k
      /\ Tail(r.pending) # <<>> => Head(Tail(r.pending)) \in FacetsBy(d)
  BY TailOnce DEF Object
<1>5. q.pending # <<>> => q.sent < Head(q.pending).size
  <2>1. CASE bite.last
    <3>1. q.sent = 0 /\ q.pending = Tail(r.pending)
      BY <1>3, <2>1
    <3>2. \A g \in FacetsBy(d) : 0 < g.size
      BY FacetAssumption DEF FacetsBy
    <3>3. QED
      BY <1>4, <3>1, <3>2
  <2>2. CASE ~bite.last
    BY <1>2, <1>3, <2>2 DEF BiteOf, Object
  <2>3. QED
    BY <2>1, <2>2
<1>6. /\ q.sent \in Nat /\ q.offset \in Nat
      /\ q.pending = <<>> => q.sent = 0
  BY <1>2, <1>3 DEF Object, BiteOf
<1>7. Object(d, q)
  BY <1>2, <1>3, <1>4, <1>5, <1>6 DEF Object
<1>8. QED
  BY <1>2, <1>3, <1>7 DEF q, bite

\* What TakeBite does to the load.
BiteSent(d, r, q) ==
  /\ r.pending # <<>> /\ r.bite = NoBite
  /\ q.unit = r.unit
  /\ q.bite \in BiteOf(d)
  /\ q.bite.facet = Head(r.pending)
  /\ q.offset = r.offset + q.bite.size
  /\ \/ ~q.bite.last /\ q.pending = r.pending /\ q.sent = r.sent + q.bite.size
     \/ /\ q.bite.last
        /\ q.pending = Tail(r.pending)
        /\ q.sent = 0
        /\ q.bite.size = Head(r.pending).size - r.sent

\* TakeBiteLoad in these words.
LEMMA TakeBiteSent ==
  ASSUME NEW d \in Dst, NEW r, Object(d, r), r.pending # <<>>, r.bite = NoBite
  PROVE  /\ Object(d, TakeBite(d, r))
         /\ BiteSent(d, r, TakeBite(d, r))
         /\ TakeBite(d, r).offset = r.offset + DueBite(d, r).size
<1> DEFINE q == TakeBite(d, r)
<1>1. /\ Object(d, q)
      /\ q.unit = r.unit
      /\ q.bite \in BiteOf(d)
      /\ q.bite.facet = Head(r.pending)
      /\ q.offset = r.offset + q.bite.size
      /\ q.bite.size = DueBite(d, r).size
      /\ \/ ~q.bite.last /\ q.pending = r.pending /\ q.sent = r.sent + q.bite.size
         \/ /\ q.bite.last
            /\ q.pending = Tail(r.pending)
            /\ q.sent = 0
            /\ q.bite.size = Head(r.pending).size - r.sent
  BY TakeBiteLoad, Zenon
<1> HIDE DEF q
<1>2. BiteSent(d, r, q)
  BY <1>1, Zenon DEF BiteSent
<1>3. q.offset = r.offset + DueBite(d, r).size
  BY <1>1
<1>4. QED
  BY <1>1, <1>2, <1>3 DEF q

\* Transfer sends a bite or only lets time pass.
LEMMA TransferLoad ==
  ASSUME NEW d \in Dst, NEW r, Object(d, r), r.pending # <<>>,
         NEW available, NEW p, NEW b
  PROVE  LET q == Transfer(d, r, available, p, b)
         IN /\ Object(d, q)
            /\ \/ SameLoad(r, q)
               \/ available /\ q.offset = Needs(d, r) /\ BiteSent(d, r, q)
<1> DEFINE called == [r EXCEPT !.pipeline = "TRANSFER"]
           polled == [called EXCEPT !.active = NextPoint(@, Cycle[d])]
           ready == PassDelays(polled, p, b)
           q == Transfer(d, r, available, p, b)
<1>1. Object(d, called) /\ SameLoad(r, called)
  BY DEF Object, SameLoad, Fields
<1>2. Object(d, polled) /\ SameLoad(r, polled)
  <2> HIDE DEF called
  <2>1. Object(d, polled) /\ SameLoad(called, polled)
    <3>1. NextPoint(called.active, Cycle[d]) \in Int
      BY <1>1, NextPointType, DestinationAssumption DEF Object
    <3>2. QED
      BY <1>1, <3>1 DEF Object, SameLoad, Fields
  <2>2. QED
    BY <1>1, <2>1 DEF SameLoad
<1> HIDE DEF polled
<1>3. Object(d, ready) /\ SameLoad(r, ready)
  <2>1. Object(d, ready) /\ SameLoad(polled, ready)
    BY <1>2, PassLoad
  <2>2. QED
    BY <1>2, <2>1 DEF SameLoad
<1>4. \/ q = called
      \/ q = ready
      \/ ready.bite = NoBite /\ available /\ q = TakeBite(d, ready)
  BY DEF Transfer, polled, Object
<1>5. CASE q = called \/ q = ready
  BY <1>1, <1>3, <1>5
<1>6. CASE ready.bite = NoBite /\ available /\ q = TakeBite(d, ready)
  <2>1. /\ Object(d, q)
        /\ BiteSent(d, ready, q)
        /\ q.offset = ready.offset + DueBite(d, ready).size
    <3>1. ready.pending # <<>>
      BY <1>3 DEF SameLoad
    <3>2. /\ Object(d, TakeBite(d, ready))
          /\ BiteSent(d, ready, TakeBite(d, ready))
          /\ TakeBite(d, ready).offset = ready.offset + DueBite(d, ready).size
      BY <1>3, <1>6, <3>1, TakeBiteSent
    <3>3. QED
      BY <1>6, <3>2
  <2>2. BiteSent(d, r, q)
    BY <1>3, <2>1 DEF BiteSent, SameLoad
  <2>3. q.offset = Needs(d, r)
    BY <1>3, <2>1 DEF Needs, DueBite, SameLoad
  <2>4. QED
    BY <1>6, <2>1, <2>2, <2>3
<1>7. QED
  BY <1>4, <1>5, <1>6

\* Fill appends the products of a transform.
LEMMA FillLoad ==
  ASSUME NEW d \in Dst, NEW r, Object(d, r), NEW facets \in Seq(FacetsBy(d)),
         facets # <<>>,
         \A j, k \in DOMAIN facets : facets[j] = facets[k] => j = k,
         \A j \in DOMAIN facets, k \in DOMAIN r.pending : facets[j] # r.pending[k]
  PROVE  LET q == Fill(r, facets)
         IN /\ Object(d, q)
            /\ q.pending = r.pending \o facets /\ q.pending # <<>>
            /\ q.sent = r.sent /\ q.offset = r.offset /\ q.bite = r.bite /\ q.unit = r.unit
<1> DEFINE q == Fill(r, facets)
<1>1. /\ DOMAIN q = Fields /\ q = [x \in Fields |-> q[x]]
      /\ q.pending = r.pending \o facets
      /\ q.sent = r.sent /\ q.offset = r.offset /\ q.bite = r.bite /\ q.unit = r.unit
      /\ q.active = r.active
  BY DEF Fill, Object, Fields
<1> HIDE DEF q
<1>2. /\ r.pending \in Seq(FacetsBy(d))
      /\ \A j, k \in DOMAIN r.pending : r.pending[j] = r.pending[k] => j = k
  BY DEF Object
<1>3. /\ q.pending \in Seq(FacetsBy(d))
      /\ \A j, k \in DOMAIN q.pending : q.pending[j] = q.pending[k] => j = k
      /\ r.pending # <<>> => Head(q.pending) = Head(r.pending)
  <2> DEFINE p == r.pending
  <2>1. /\ p \in Seq(FacetsBy(d))
        /\ \A j, k \in DOMAIN p : p[j] = p[k] => j = k
        /\ \A j \in DOMAIN facets, k \in DOMAIN p : facets[j] # p[k]
        /\ q.pending = p \o facets
    BY <1>1, <1>2
  <2> HIDE DEF p
  <2>2. /\ q.pending \in Seq(FacetsBy(d))
        /\ \A j, k \in DOMAIN q.pending : q.pending[j] = q.pending[k] => j = k
        /\ p # <<>> => Head(q.pending) = Head(p)
    BY <2>1, ConcatOnce
  <2>3. QED
    BY <2>2 DEF p
<1>4. q.pending # <<>>
  BY <1>1, <1>2
<1>5. q.sent < Head(q.pending).size
  <2>1. CASE r.pending = <<>>
    <3>1. Head(q.pending) \in FacetsBy(d) /\ q.sent = 0
      BY <1>1, <1>3, <1>4, <2>1 DEF Object
    <3>2. QED
      BY <3>1, FacetAssumption DEF FacetsBy
  <2>2. CASE r.pending # <<>>
    <3>1. Head(q.pending) = Head(r.pending)
      BY <1>2, <1>3, <2>2
    <3>2. QED
      BY <1>1, <2>2, <3>1 DEF Object
  <2>3. QED
    BY <2>1, <2>2
<1>6. Object(d, q)
  BY <1>1, <1>3, <1>4, <1>5 DEF Object
<1>7. QED
  BY <1>1, <1>4, <1>6 DEF q

\* The end of UpdatePipeline moves the bites on.
LEMMA ShiftLoad ==
  ASSUME NEW d \in Dst, NEW r, Object(d, r)
  PROVE  LET q == Shift(d, r)
         IN /\ Object(d, q)
            /\ q.pending = r.pending /\ q.sent = r.sent /\ q.offset = r.offset
            /\ q.bite = NoBite
            /\ q.unit = [i \in 1 .. Stages[d] |-> IF i = 1 THEN r.bite ELSE r.unit[i - 1]]
<1> DEFINE q == Shift(d, r)
           u == [i \in 1 .. Stages[d] |-> IF i = 1 THEN r.bite ELSE r.unit[i - 1]]
<1>1. /\ DOMAIN q = Fields /\ q = [x \in Fields |-> q[x]]
      /\ q.pending = r.pending /\ q.sent = r.sent /\ q.offset = r.offset
      /\ q.active = r.active
      /\ q.bite = NoBite
      /\ q.unit = u
  BY DEF Shift, Object, Fields
<1>2. u \in [1 .. Stages[d] -> BiteOf(d) \cup {NoBite}]
  <2>1. r.unit \in [1 .. Stages[d] -> BiteOf(d) \cup {NoBite}] /\ Stages[d] \in Nat
    BY DestinationAssumption DEF Object
  <2>2. r.bite \in BiteOf(d) \cup {NoBite}
    BY DEF Object
  <2>3. \A i \in 1 .. Stages[d] : i # 1 => i - 1 \in 1 .. Stages[d]
    BY <2>1
  <2>4. QED
    BY <2>1, <2>2, <2>3
<1> HIDE DEF q, u
<1>3. Object(d, q)
  BY <1>1, <1>2 DEF Object
<1>4. QED
  BY <1>1, <1>3 DEF q, u

-----------------------------------------------------------------------------
\* The facets of one destination and their bytes.

\* Whether f, a facet for destination d, has been made; r is the object of d.
MadeBy(d, r, arr, f) == f \in ToSet(r.pending) \/ Places(d, r, f) # {} \/ arr[f] # 0

\* How many bytes of f its destination has sent: none before it is made, all once it has
\* left _PendingQueue, and those counted so far while it is the packet in front.
SentBy(d, r, arr, f) ==
  IF ~MadeBy(d, r, arr, f) THEN 0
  ELSE IF f \notin ToSet(r.pending) THEN f.size
  ELSE IF Head(r.pending) = f THEN r.sent ELSE 0

\* Every byte that d has sent is in the channel or on its way in d's pipeline; size gives
\* the bytes in the channel.
Conserved(d, r, arr, size) ==
  \A f \in FacetsBy(d) :
    size[f] + Cardinality(BytesIn(d, r, f)) = SentBy(d, r, arr, f)

\* f and g leave a destination in this order: two products of one packet by their index,
\* products of two packets by the arrivals of these, if their channel keeps an order.
Precedes(arr, f, g) ==
  \/ f.of = g.of /\ f.idx < g.idx
  \/ f.of # g.of /\ Ordered[Home(f.of)] /\ arr[f.of] < arr[g.of]

\* f is ahead of g everywhere between _PendingQueue, the pipeline and the channel.
Behind(d, r, arr, f, g) ==
  /\ arr[g] # 0 => arr[f] # 0 /\ arr[f] < arr[g] /\ Places(d, r, f) = {}
  /\ arr[g] # 0 \/ Places(d, r, g) # {} => f \notin ToSet(r.pending)
  /\ \A i \in Places(d, r, f), j \in Places(d, r, g) : j < i
  /\ \A i, j \in DOMAIN r.pending : r.pending[i] = f /\ r.pending[j] = g => i < j

\* All that d has made keeps its order.
Queued(d, r, arr) ==
  \A f, g \in FacetsBy(d) :
    MadeBy(d, r, arr, f) /\ MadeBy(d, r, arr, g) /\ Precedes(arr, f, g) =>
      Behind(d, r, arr, f, g)

\* r and q hold the same facets and bites.
SameQueue(r, q) ==
  /\ q.pending = r.pending
  /\ q.sent = r.sent
  /\ q.bite = r.bite
  /\ q.unit = r.unit

\* The bites have moved one stage on.
Shifted(d, r, q) ==
  /\ q.pending = r.pending /\ q.sent = r.sent /\ q.offset = r.offset
  /\ q.bite = NoBite
  /\ q.unit = [i \in 1 .. Stages[d] |-> IF i = 1 THEN r.bite ELSE r.unit[i - 1]]

-----------------------------------------------------------------------------
\* Counting bytes.

\* n bytes at one place are n.
LEMMA PlaceCount ==
  ASSUME NEW i, NEW n \in Nat
  PROVE  /\ IsFiniteSet({i} \X (1 .. n))
         /\ Cardinality({i} \X (1 .. n)) = n
<1>1. IsFiniteSet(1 .. n) /\ Cardinality(1 .. n) = n
  <2>1. /\ IsFiniteSet(1 .. n)
        /\ Cardinality(1 .. n) = IF 1 > n THEN 0 ELSE n - 1 + 1
    BY FS_Interval
  <2>2. QED
    BY <2>1
<1>2. IsFiniteSet({i}) /\ Cardinality({i}) = 1
  BY FS_Singleton
<1> DEFINE S == {i}
           T == 1 .. n
<1>3. /\ IsFiniteSet(S) /\ IsFiniteSet(T)
      /\ Cardinality(S) = 1 /\ Cardinality(T) = n
  BY <1>1, <1>2
<1> HIDE DEF S, T
<1>4. IsFiniteSet(S \X T) /\ Cardinality(S \X T) = Cardinality(S) * Cardinality(T)
  BY <1>3, FS_Product
<1>5. QED
  BY <1>3, <1>4 DEF S, T

\* A disjoint union has as many members as its parts together.
LEMMA DisjointCount ==
  ASSUME NEW S, NEW T, IsFiniteSet(S), IsFiniteSet(T), S \cap T = {}
  PROVE  /\ IsFiniteSet(S \cup T)
         /\ Cardinality(S \cup T) = Cardinality(S) + Cardinality(T)
<1>1. /\ Cardinality({}) = 0
      /\ Cardinality(S) \in Nat
      /\ Cardinality(T) \in Nat
  BY FS_EmptySet, FS_CardinalityType
<1>2. /\ IsFiniteSet(S \cup T)
      /\ Cardinality(S \cup T) =
           Cardinality(S) + Cardinality(T) - Cardinality(S \cap T)
  BY FS_Union, Zenon
<1>3. Cardinality(S \cap T) = 0
  BY <1>1
<1>4. QED
  BY <1>1, <1>2, <1>3

\* The places of a facet, and what lies there.
LEMMA PlacesType ==
  ASSUME NEW d \in Dst, NEW r, Object(d, r), NEW f
  PROVE  /\ Places(d, r, f) \subseteq 0 .. Stages[d]
         /\ \A i \in Places(d, r, f) : BiteAt(r, i) \in BiteOf(d) /\ BiteAt(r, i).facet = f
                                       /\ BiteAt(r, i).size \in Nat \ {0}
<1>1. \A i \in 0 .. Stages[d] : BiteAt(r, i) \in BiteOf(d) \cup {NoBite}
  <2>1. Stages[d] \in Nat
    BY DestinationAssumption
  <2>2. \A i \in 0 .. Stages[d] : i # 0 => i \in 1 .. Stages[d]
    BY <2>1
  <2>3. QED
    BY <2>2 DEF BiteAt, Object
<1>2. \A b \in BiteOf(d) : b.size \in Nat \ {0}
  BY DEF BiteOf
<1>3. QED
  BY <1>1, <1>2 DEF Places

\* The bytes of a facet on their way are finitely many.
LEMMA BytesFinite ==
  ASSUME NEW d \in Dst, NEW r, Object(d, r), NEW f
  PROVE  /\ IsFiniteSet(BytesIn(d, r, f))
         /\ Cardinality(BytesIn(d, r, f)) \in Nat
         /\ Places(d, r, f) = {} => Cardinality(BytesIn(d, r, f)) = 0
<1> DEFINE P == Places(d, r, f)
           part(i) == {i} \X (1 .. BiteAt(r, i).size)
           S == {part(i) : i \in P}
           h == [i \in P |-> part(i)]
<1>1. IsFiniteSet(P)
  <2>1. IsFiniteSet(0 .. Stages[d])
    BY FS_Interval, DestinationAssumption
  <2>2. P \in SUBSET (0 .. Stages[d])
    BY PlacesType
  <2>3. QED
    BY <2>1, <2>2, FS_Subset
<1>2. \A T \in S : IsFiniteSet(T)
  <2>1. \A i \in P : IsFiniteSet(part(i))
    BY PlacesType, PlaceCount
  <2>2. QED
    BY <2>1
<1>3. h \in Surjection(P, S)
  BY DEF Surjection
<1> HIDE DEF P, h
<1>4. IsFiniteSet(S)
  BY <1>1, <1>3, FS_Surjection
<1>5. IsFiniteSet(UNION S)
  BY <1>2, <1>4, FS_UNION
<1>6. BytesIn(d, r, f) = UNION S
  BY DEF BytesIn, P
<1>7. P = {} => UNION S = {}
  OBVIOUS
<1>8. QED
  BY <1>5, <1>6, <1>7, FS_CardinalityType, FS_EmptySet DEF P

\* The bytes of a bite that was sent are at place 0.
LEMMA BiteCounted ==
  ASSUME NEW d \in Dst, NEW r, NEW q, Object(d, r), Object(d, q), BiteSent(d, r, q),
         NEW f
  PROVE  /\ 0 \notin Places(d, r, f)
         /\ Places(d, q, f) =
              IF f = Head(r.pending) THEN Places(d, r, f) \cup {0} ELSE Places(d, r, f)
         /\ Cardinality(BytesIn(d, q, f)) =
              Cardinality(BytesIn(d, r, f)) + IF f = Head(r.pending) THEN q.bite.size ELSE 0
<1>1. Stages[d] \in Nat
  BY DestinationAssumption
<1>2. /\ r.bite = NoBite /\ q.bite # NoBite /\ q.bite.facet = Head(r.pending)
      /\ q.unit = r.unit /\ q.bite.size \in Nat
  BY NoBiteIsNone DEF BiteSent, BiteOf
<1>3. /\ BiteAt(r, 0) = NoBite /\ BiteAt(q, 0) = q.bite
      /\ \A i \in 0 .. Stages[d] : i # 0 => BiteAt(q, i) = BiteAt(r, i)
  BY <1>2 DEF BiteAt
<1>4. 0 \notin Places(d, r, f)
  BY <1>3 DEF Places
<1>5. Places(d, q, f) =
        IF f = Head(r.pending) THEN Places(d, r, f) \cup {0} ELSE Places(d, r, f)
  <2>1. 0 \in 0 .. Stages[d]
    BY <1>1
  <2>2. QED
    BY <1>2, <1>3, <1>4, <2>1 DEF Places
<1>6. \A i \in Places(d, r, f) : BiteAt(q, i) = BiteAt(r, i)
  BY <1>3, <1>4 DEF Places
<1>7. CASE f = Head(r.pending)
  <2> DEFINE new == {0} \X (1 .. q.bite.size)
             old == BytesIn(d, r, f)
  <2>1. BytesIn(d, q, f) = old \cup new
    BY <1>3, <1>5, <1>6, <1>7 DEF BytesIn
  <2>2. old \cap new = {}
    BY <1>4 DEF BytesIn
  <2>3. IsFiniteSet(new) /\ Cardinality(new) = q.bite.size
    BY <1>2, PlaceCount
  <2>4. IsFiniteSet(old)
    BY BytesFinite
  <2> HIDE DEF new, old
  <2>5. Cardinality(old \cup new) = Cardinality(old) + Cardinality(new)
    BY <2>2, <2>3, <2>4, DisjointCount
  <2>6. QED
    BY <1>4, <1>5, <1>7, <2>1, <2>3, <2>5 DEF old
<1>8. CASE f # Head(r.pending)
  <2>1. BytesIn(d, q, f) = BytesIn(d, r, f)
    BY <1>5, <1>6, <1>8 DEF BytesIn
  <2>2. Cardinality(BytesIn(d, r, f)) \in Nat
    BY BytesFinite
  <2>3. QED
    BY <1>4, <1>5, <1>8, <2>1, <2>2
<1>9. QED
  BY <1>7, <1>8

\* Shifting moves every bite one place on; the top one drops out.
LEMMA ShiftCounted ==
  ASSUME NEW d \in Dst, NEW r, NEW q, Object(d, r), Object(d, q), Shifted(d, r, q),
         NEW f
  PROVE  LET n == Stages[d] IN
         /\ \A j \in Places(d, q, f) : j - 1 \in Places(d, r, f) /\ j - 1 # n /\ j # 0
         /\ \A i \in Places(d, r, f) : i # n => i + 1 \in Places(d, q, f)
         /\ Cardinality(BytesIn(d, r, f)) =
              Cardinality(BytesIn(d, q, f))
              + IF n \in Places(d, r, f) THEN TopBite(d, r).size ELSE 0
<1> DEFINE n == Stages[d]
           P == Places(d, r, f)
           Q == Places(d, q, f)
<1>1. n \in Nat \ {0}
  BY DestinationAssumption
<1>2. /\ BiteAt(q, 0) = NoBite
      /\ \A i \in 1 .. n : BiteAt(q, i) = BiteAt(r, i - 1)
  <2>1. \A i \in 1 .. n : i # 0 /\ (i - 1 = 0 <=> i = 1)
    BY <1>1
  <2>2. QED
    BY <2>1 DEF BiteAt, Shifted
<1>3. \A j \in Q : j \in 1 .. n /\ j - 1 \in P /\ j - 1 # n /\ j # 0
  <2> SUFFICES ASSUME NEW j \in Q
               PROVE  j \in 1 .. n /\ j - 1 \in P /\ j - 1 # n /\ j # 0
    OBVIOUS
  <2>1. j \in 0 .. n /\ j # 0
    BY <1>2 DEF Places
  <2>2. j \in 1 .. n /\ j - 1 \in 0 .. n /\ j - 1 # n
    BY <1>1, <2>1
  <2>3. QED
    BY <1>2, <2>1, <2>2 DEF Places
<1>4. \A i \in P : i # n => i + 1 \in Q /\ BiteAt(q, i + 1) = BiteAt(r, i)
  <2> SUFFICES ASSUME NEW i \in P, i # n
               PROVE  i + 1 \in Q /\ BiteAt(q, i + 1) = BiteAt(r, i)
    OBVIOUS
  <2>1. i \in 0 .. n
    BY DEF Places
  <2>2. i + 1 \in 1 .. n /\ i + 1 \in 0 .. n /\ (i + 1) - 1 = i
    BY <1>1, <2>1
  <2>3. BiteAt(q, i + 1) = BiteAt(r, i)
    BY <1>2, <2>2
  <2>4. QED
    BY <2>2, <2>3 DEF Places
<1>5. \A i \in P : i \in 0 .. n
  BY DEF Places
<1>6. \A j \in Q : BiteAt(q, j) = BiteAt(r, j - 1)
  BY <1>2, <1>3
<1> DEFINE old == BytesIn(d, r, f)
           new == BytesIn(d, q, f)
           lower == UNION {{i} \X (1 .. BiteAt(r, i).size) : i \in P \ {n}}
           upper == IF n \in P THEN {n} \X (1 .. BiteAt(r, n).size) ELSE {}
           g == [x \in lower |-> <<x[1] + 1, x[2]>>]
<1>7. old = lower \cup upper /\ lower \cap upper = {}
  BY DEF BytesIn
<1>8. IsFiniteSet(old) /\ IsFiniteSet(lower) /\ IsFiniteSet(upper)
  <2>1. IsFiniteSet(old)
    BY BytesFinite
  <2>2. lower \in SUBSET old /\ upper \in SUBSET old
    BY <1>7
  <2> HIDE DEF old, lower, upper
  <2>3. QED
    BY <2>1, <2>2, FS_Subset
<1>9. Cardinality(upper) = IF n \in P THEN TopBite(d, r).size ELSE 0
  <2>1. BiteAt(r, n) = TopBite(d, r)
    BY <1>1 DEF BiteAt, TopBite
  <2>2. n \in P => BiteAt(r, n).size \in Nat
    BY PlacesType
  <2>3. QED
    BY <2>1, <2>2, PlaceCount, FS_EmptySet
<1>10. Cardinality(new) = Cardinality(lower)
  <2>0. /\ \A x : x \in lower <=> \E i \in P \ {n} : \E k \in 1 .. BiteAt(r, i).size : x = <<i, k>>
        /\ \A x : x \in new <=> \E j \in Q : \E k \in 1 .. BiteAt(q, j).size : x = <<j, k>>
    BY DEF BytesIn
  <2>1. \A i \in P \ {n} : i + 1 \in Q /\ BiteAt(q, i + 1) = BiteAt(r, i)
    BY <1>4
  <2>2. \A j \in Q : j - 1 \in P \ {n} /\ BiteAt(q, j) = BiteAt(r, j - 1) /\ (j - 1) + 1 = j
    BY <1>3, <1>6
  <2>3. \A x \in lower : g[x] = <<x[1] + 1, x[2]>>
    OBVIOUS
  <2>4. g = [x \in lower |-> g[x]]
    OBVIOUS
  <2> HIDE DEF lower, new, g, P, Q
  <2>5. \A x \in lower : g[x] \in new
    <3> SUFFICES ASSUME NEW i \in P \ {n}, NEW k \in 1 .. BiteAt(r, i).size
                 PROVE  <<i + 1, k>> \in new
      BY <2>0, <2>3
    <3>1. i + 1 \in Q /\ BiteAt(q, i + 1) = BiteAt(r, i)
      BY <2>1
    <3>2. QED
      BY <2>0, <3>1
  <2>6. \A x, y \in lower : g[x] = g[y] => x = y
    <3> SUFFICES ASSUME NEW i \in P \ {n}, NEW k, NEW j \in P \ {n}, NEW m,
                        <<i + 1, k>> = <<j + 1, m>>
                 PROVE  <<i, k>> = <<j, m>>
      BY <2>0, <2>3
    <3>1. i + 1 = j + 1 /\ k = m
      OBVIOUS
    <3>2. i = j
      BY <1>5, <3>1
    <3>3. QED
      BY <3>1, <3>2
  <2>7. ASSUME NEW y \in new
        PROVE  \E x \in lower : g[x] = y
    <3>1. PICK j \in Q : \E k \in 1 .. BiteAt(q, j).size : y = <<j, k>>
      BY <2>0
    <3>2. PICK k \in 1 .. BiteAt(q, j).size : y = <<j, k>>
      BY <3>1
    <3>3. <<j - 1, k>> \in lower
      BY <2>0, <2>2
    <3>4. g[<<j - 1, k>>] = <<(j - 1) + 1, k>>
      BY <2>3, <3>3
    <3>5. g[<<j - 1, k>>] = y
      BY <2>2, <3>2, <3>4
    <3>6. QED
      BY <3>3, <3>5
  <2>8. g \in [lower -> new]
    BY <2>4, <2>5
  <2>9. g \in Bijection(lower, new)
    BY <2>6, <2>7, <2>8 DEF Bijection, Injection, IsInjective, Surjection
  <2>10. ExistsBijection(lower, new)
    BY <2>9 DEF ExistsBijection
  <2>11. QED
    BY <1>8, <2>10, FS_Bijection
<1>11. Cardinality(old) = Cardinality(new) + Cardinality(upper)
  <2> HIDE DEF old, new, lower, upper
  <2>1. Cardinality(old) = Cardinality(lower) + Cardinality(upper)
    BY <1>7, <1>8, DisjointCount
  <2>2. QED
    BY <1>10, <2>1
<1>12. QED
  BY <1>3, <1>4, <1>9, <1>11

-----------------------------------------------------------------------------
\* What the calls do to the facets of one destination.

\* A call that changes no queue changes neither the count nor the order.
LEMMA SameKeeps ==
  ASSUME NEW d, NEW r, NEW q, SameQueue(r, q)
  PROVE  /\ \A f : Places(d, q, f) = Places(d, r, f)
         /\ \A arr, f : MadeBy(d, q, arr, f) <=> MadeBy(d, r, arr, f)
         /\ \A arr, size : Conserved(d, r, arr, size) => Conserved(d, q, arr, size)
         /\ \A arr : Queued(d, r, arr) => Queued(d, q, arr)
<1>1. \A i : BiteAt(q, i) = BiteAt(r, i)
  BY DEF SameQueue, BiteAt
<1>2. \A f : Places(d, q, f) = Places(d, r, f) /\ BytesIn(d, q, f) = BytesIn(d, r, f)
  BY <1>1 DEF Places, BytesIn
<1>3. q.pending = r.pending /\ q.sent = r.sent
  BY DEF SameQueue
<1>4. \A arr, f : MadeBy(d, q, arr, f) <=> MadeBy(d, r, arr, f)
  BY <1>2, <1>3 DEF MadeBy
<1>5. \A arr, f : SentBy(d, q, arr, f) = SentBy(d, r, arr, f)
  BY <1>3, <1>4 DEF SentBy
<1>6. \A arr, f, g : Behind(d, r, arr, f, g) => Behind(d, q, arr, f, g)
  BY <1>2, <1>3 DEF Behind
<1>7. QED
  BY <1>2, <1>4, <1>5, <1>6 DEF Conserved, Queued

\* b is r with the products of packet p at the end of its _PendingQueue.
Filled(d, r, b, p) ==
  /\ b.sent = r.sent /\ b.offset = r.offset /\ b.bite = r.bite /\ b.unit = r.unit
  /\ \E facets \in Seq(FacetsBy(d)) :
       /\ facets # <<>>
       /\ b.pending = r.pending \o facets
       /\ \A k \in DOMAIN facets : facets[k].of = p /\ facets[k].idx = k

\* Nothing has been made of p by destination d, and in an ordered channel p comes
\* after all that something was made of.
NewFor(d, r, arr, p) ==
  \A f \in FacetsBy(d) : MadeBy(d, r, arr, f) =>
    f.of # p /\ (Ordered[Home(f.of)] => arr[f.of] < arr[p])

\* The products of a new packet, put at the end, disturb neither the count nor the order.
LEMMA FillKeeps ==
  ASSUME NEW d \in Dst, NEW r, NEW b, NEW p, Object(d, r),
         Filled(d, r, b, p),
         NEW arr \in [Facet -> Nat], NEW size \in [Facet -> Nat],
         p \in Facet,
         NewFor(d, r, arr, p), Conserved(d, r, arr, size), Queued(d, r, arr),
         \A f \in FacetsBy(d) : MadeBy(d, r, arr, f) => f.of \in Facet /\ Home(f.of) = Home(p)
  PROVE  /\ Conserved(d, b, arr, size)
         /\ Queued(d, b, arr)
         /\ \A f : Places(d, b, f) = Places(d, r, f)
         /\ \A f \in FacetsBy(d) : MadeBy(d, b, arr, f) => MadeBy(d, r, arr, f) \/ f.of = p
         /\ b.pending # <<>>
         /\ \A j, k \in DOMAIN b.pending : b.pending[j] = b.pending[k] => j = k
<1>1. \A i : BiteAt(b, i) = BiteAt(r, i)
  BY DEF Filled, BiteAt
<1>2. \A f : Places(d, b, f) = Places(d, r, f) /\ BytesIn(d, b, f) = BytesIn(d, r, f)
  BY <1>1 DEF Places, BytesIn
<1>3. PICK facets \in Seq(FacetsBy(d)) :
        /\ facets # <<>>
        /\ b.pending = r.pending \o facets
        /\ \A k \in DOMAIN facets : facets[k].of = p /\ facets[k].idx = k
  BY DEF Filled
<1> DEFINE n == Len(r.pending)
<1>4. /\ r.pending \in Seq(FacetsBy(d))
      /\ \A j, k \in DOMAIN r.pending : r.pending[j] = r.pending[k] => j = k
      /\ \A k \in DOMAIN r.pending : r.pending[k] \in FacetsBy(d)
                                     /\ MadeBy(d, r, arr, r.pending[k])
  <2>1. \A k \in DOMAIN r.pending : r.pending[k] \in ToSet(r.pending)
    BY DEF ToSet
  <2>2. /\ r.pending \in Seq(FacetsBy(d))
        /\ \A j, k \in DOMAIN r.pending : r.pending[j] = r.pending[k] => j = k
    BY DEF Object
  <2>3. \A k \in DOMAIN r.pending : r.pending[k] \in FacetsBy(d)
    BY <2>2
  <2>4. \A k \in DOMAIN r.pending : MadeBy(d, r, arr, r.pending[k])
    BY <2>1 DEF MadeBy
  <2>5. QED
    BY <2>2, <2>3, <2>4
<1>5. \A k \in DOMAIN facets :
        /\ facets[k] \in FacetsBy(d)
        /\ ~MadeBy(d, r, arr, facets[k])
        /\ facets[k] \notin ToSet(r.pending)
        /\ Places(d, r, facets[k]) = {}
        /\ arr[facets[k]] = 0
  <2> SUFFICES ASSUME NEW k \in DOMAIN facets
               PROVE  facets[k] \in FacetsBy(d) /\ ~MadeBy(d, r, arr, facets[k])
    BY DEF MadeBy
  <2>1. facets[k] \in FacetsBy(d) /\ facets[k].of = p
    BY <1>3
  <2>2. QED
    BY <2>1 DEF NewFor
<1>6. \A j \in DOMAIN facets, k \in DOMAIN r.pending : facets[j] # r.pending[k]
  BY <1>4, <1>5
<1>7. \A j, k \in DOMAIN facets : facets[j] = facets[k] => j = k
  BY <1>3
<1>8. /\ b.pending \in Seq(FacetsBy(d))
      /\ n \in Nat
      /\ \A k \in DOMAIN r.pending : k \in DOMAIN b.pending /\ b.pending[k] = r.pending[k]
      /\ \A k \in DOMAIN facets : k + n \in DOMAIN b.pending /\ b.pending[k + n] = facets[k]
      /\ \A k \in DOMAIN b.pending :
           \/ k \in DOMAIN r.pending /\ b.pending[k] = r.pending[k]
           \/ k - n \in DOMAIN facets /\ k > n /\ b.pending[k] = facets[k - n]
      /\ \A j, k \in DOMAIN b.pending : b.pending[j] = b.pending[k] => j = k
      /\ r.pending # <<>> => Head(b.pending) = Head(r.pending)
      /\ DOMAIN r.pending = 1 .. n
  <2> DEFINE q == r.pending
  <2>1. /\ q \in Seq(FacetsBy(d))
        /\ \A j, k \in DOMAIN q : q[j] = q[k] => j = k
        /\ \A j \in DOMAIN facets, k \in DOMAIN q : facets[j] # q[k]
        /\ b.pending = q \o facets
    BY <1>3, <1>4, <1>6
  <2> HIDE DEF q
  <2>a. LET pq == q \o facets IN
         /\ pq \in Seq(FacetsBy(d))
         /\ DOMAIN pq = 1 .. Len(q) + Len(facets)
         /\ \A k \in DOMAIN q : k \in DOMAIN pq /\ pq[k] = q[k]
         /\ \A k \in DOMAIN facets : k + Len(q) \in DOMAIN pq /\ pq[k + Len(q)] = facets[k]
         /\ \A k \in DOMAIN pq :
              \/ k \in DOMAIN q /\ pq[k] = q[k]
              \/ k - Len(q) \in DOMAIN facets /\ k > Len(q) /\ pq[k] = facets[k - Len(q)]
         /\ \A j, k \in DOMAIN pq : pq[j] = pq[k] => j = k
         /\ q # <<>> => pq # <<>> /\ Head(pq) = Head(q)
    BY <1>7, <2>1, ConcatOnce
  <2>2. /\ b.pending \in Seq(FacetsBy(d))
        /\ \A k \in DOMAIN q : k \in DOMAIN b.pending /\ b.pending[k] = q[k]
        /\ \A k \in DOMAIN facets : k + Len(q) \in DOMAIN b.pending
                                    /\ b.pending[k + Len(q)] = facets[k]
        /\ \A k \in DOMAIN b.pending :
             \/ k \in DOMAIN q /\ b.pending[k] = q[k]
             \/ k - Len(q) \in DOMAIN facets /\ k > Len(q) /\ b.pending[k] = facets[k - Len(q)]
        /\ \A j, k \in DOMAIN b.pending : b.pending[j] = b.pending[k] => j = k
        /\ q # <<>> => Head(b.pending) = Head(q)
    BY <2>1, <2>a, Zenon
  <2>3. Len(q) \in Nat /\ DOMAIN q = 1 .. Len(q)
    BY <2>1
  <2>4. QED
    BY <2>2, <2>3 DEF q
<1> HIDE DEF n
<1>9. b.pending # <<>>
  BY <1>3, <1>4
<1>10. \A f : f \in ToSet(b.pending) <=>
                f \in ToSet(r.pending) \/ \E k \in DOMAIN facets : f = facets[k]
  <2>1. \A f : f \in ToSet(b.pending) <=> \E k \in DOMAIN b.pending : f = b.pending[k]
    BY DEF ToSet
  <2>2. \A f : f \in ToSet(r.pending) <=> \E k \in DOMAIN r.pending : f = r.pending[k]
    BY DEF ToSet
  <2>3. ASSUME NEW f, f \in ToSet(b.pending)
        PROVE  f \in ToSet(r.pending) \/ \E k \in DOMAIN facets : f = facets[k]
    <3>1. PICK k \in DOMAIN b.pending : f = b.pending[k]
      BY <2>1, <2>3
    <3>2. QED
      BY <1>8, <2>2, <3>1
  <2>4. ASSUME NEW f, f \in ToSet(r.pending) \/ \E k \in DOMAIN facets : f = facets[k]
        PROVE  f \in ToSet(b.pending)
    BY <1>8, <2>1, <2>2, <2>4
  <2>5. QED
    BY <2>3, <2>4
<1>11. \A f \in FacetsBy(d) : MadeBy(d, b, arr, f) <=>
                MadeBy(d, r, arr, f) \/ \E k \in DOMAIN facets : f = facets[k]
  BY <1>2, <1>10 DEF MadeBy
<1>12. Conserved(d, b, arr, size)
  <2> SUFFICES ASSUME NEW f \in FacetsBy(d)
               PROVE  SentBy(d, b, arr, f) = SentBy(d, r, arr, f)
    BY <1>2 DEF Conserved
  <2>1. CASE MadeBy(d, r, arr, f)
    <3>1. f \in ToSet(b.pending) <=> f \in ToSet(r.pending)
      BY <1>5, <1>10, <2>1
    <3>2. f \in ToSet(r.pending) => Head(b.pending) = Head(r.pending)
      BY <1>8 DEF ToSet
    <3>3. QED
      BY <1>11, <2>1, <3>1, <3>2 DEF SentBy, Filled
  <2>2. CASE ~MadeBy(d, r, arr, f) /\ MadeBy(d, b, arr, f)
    <3>1. PICK k \in DOMAIN facets : f = facets[k]
      BY <1>11, <2>2
    <3>2. f \in ToSet(b.pending)
      BY <1>10, <3>1
    <3>3. Head(b.pending) = f => r.pending = <<>>
      <4>1. r.pending # <<>> => Head(r.pending) \in ToSet(r.pending)
        BY <1>4 DEF ToSet
      <4>2. QED
        BY <1>5, <1>8, <3>1, <4>1
    <3>4. r.pending = <<>> => b.sent = 0
      BY DEF Object, Filled
    <3>5. QED
      BY <2>2, <3>2, <3>3, <3>4 DEF SentBy
  <2>3. CASE ~MadeBy(d, r, arr, f) /\ ~MadeBy(d, b, arr, f)
    BY <2>3 DEF SentBy
  <2>4. QED
    BY <1>11, <2>1, <2>2, <2>3
<1>13. Queued(d, b, arr)
  <2> SUFFICES ASSUME NEW f \in FacetsBy(d), NEW g \in FacetsBy(d),
                      MadeBy(d, b, arr, f), MadeBy(d, b, arr, g), Precedes(arr, f, g)
               PROVE  Behind(d, b, arr, f, g)
    BY DEF Queued
  <2>1. CASE MadeBy(d, r, arr, f) /\ MadeBy(d, r, arr, g)
    <3>1. Behind(d, r, arr, f, g)
      BY <2>1 DEF Queued
    <3>2. /\ f \in ToSet(b.pending) <=> f \in ToSet(r.pending)
          /\ g \in ToSet(b.pending) <=> g \in ToSet(r.pending)
      BY <1>5, <1>10, <2>1
    <3>3. \A i \in DOMAIN b.pending : b.pending[i] \in {f, g} =>
            i \in DOMAIN r.pending /\ b.pending[i] = r.pending[i]
      BY <1>5, <1>8, <2>1
    <3>4. QED
      BY <1>2, <3>1, <3>2, <3>3 DEF Behind
  <2>2. CASE ~MadeBy(d, r, arr, g)
    <3>1. PICK m \in DOMAIN facets : g = facets[m]
      BY <1>11, <2>2
    <3>2. arr[g] = 0 /\ Places(d, b, g) = {}
      BY <1>2, <1>5, <3>1
    <3>3. ASSUME NEW i \in DOMAIN b.pending, NEW j \in DOMAIN b.pending,
                 b.pending[i] = f, b.pending[j] = g
          PROVE  i < j
      <4>1. j = m + n
        BY <1>8, <3>1, <3>3
      <4>2. CASE i \in DOMAIN r.pending
        <5>1. i \in 1 .. n /\ m \in Nat \ {0}
          BY <1>3, <1>8, <4>2
        <5>2. QED
          BY <1>8, <4>1, <5>1
      <4>3. CASE i - n \in DOMAIN facets /\ b.pending[i] = facets[i - n]
        <5>1. f.of = g.of /\ f.idx = i - n /\ g.idx = m
          BY <1>3, <3>1, <3>3, <4>3
        <5>2. i - n < m
          BY <5>1 DEF Precedes
        <5>3. i \in Nat /\ m \in Nat
          BY <1>3, <1>8
        <5>4. QED
          BY <1>8, <4>1, <5>2, <5>3
      <4>4. QED
        BY <1>8, <4>2, <4>3
    <3>4. QED
      BY <3>2, <3>3 DEF Behind
  <2>3. CASE MadeBy(d, r, arr, g) /\ ~MadeBy(d, r, arr, f)
    <3>1. PICK m \in DOMAIN facets : f = facets[m]
      BY <1>11, <2>3
    <3>2. f.of = p
      BY <1>3, <3>1
    <3>3. g.of # p /\ g.of \in Facet /\ (Ordered[Home(p)] => arr[g.of] < arr[p])
      BY <2>3 DEF NewFor
    <3>4. Ordered[Home(p)] /\ arr[p] < arr[g.of]
      BY <3>2, <3>3 DEF Precedes
    <3>5. QED
      BY <3>2, <3>3, <3>4
  <2>4. QED
    BY <2>1, <2>2, <2>3
<1>14. \A f \in FacetsBy(d) : MadeBy(d, b, arr, f) => MadeBy(d, r, arr, f) \/ f.of = p
  BY <1>3, <1>11
<1>15. QED
  BY <1>2, <1>8, <1>9, <1>12, <1>13, <1>14

\* A bite that is sent moves its bytes from the packet in front to the pipeline.
LEMMA BiteKeeps ==
  ASSUME NEW d \in Dst, NEW r, NEW q, Object(d, r), Object(d, q), BiteSent(d, r, q),
         NEW arr \in [Facet -> Nat], NEW size \in [Facet -> Nat],
         Conserved(d, r, arr, size), Queued(d, r, arr)
  PROVE  /\ Conserved(d, q, arr, size)
         /\ Queued(d, q, arr)
         /\ \A f \in FacetsBy(d) : MadeBy(d, q, arr, f) <=> MadeBy(d, r, arr, f)
<1> DEFINE h == Head(r.pending)
           p == r.pending
           popped == q.pending = Tail(p) /\ q.sent = 0 /\ q.bite.size = h.size - r.sent
           kept == q.pending = p /\ q.sent = r.sent + q.bite.size
<1>1. /\ p \in Seq(FacetsBy(d)) /\ p # <<>>
      /\ \A j, k \in DOMAIN p : p[j] = p[k] => j = k
  BY DEF Object, BiteSent
<1>2. /\ h \in FacetsBy(d) /\ h = p[1] /\ 1 \in DOMAIN p /\ DOMAIN p \subseteq Nat \ {0}
      /\ \A k \in DOMAIN p : k # 1 => 1 < k
  BY <1>1
<1>3. kept \/ popped
  BY DEF BiteSent
<1>4. popped =>
        /\ \A j \in DOMAIN Tail(p) : Tail(p)[j] = p[j + 1] /\ j + 1 \in DOMAIN p /\ j \in Nat
        /\ \A k \in DOMAIN p : k # 1 => k - 1 \in DOMAIN Tail(p) /\ Tail(p)[k - 1] = p[k]
  <2>1. /\ DOMAIN Tail(p) = 1 .. Len(p) - 1
        /\ \A j \in DOMAIN Tail(p) : Tail(p)[j] = p[j + 1] /\ j + 1 \in DOMAIN p
    BY <1>1, TailOnce
  <2>2. Len(p) \in Nat /\ DOMAIN p = 1 .. Len(p)
    BY <1>1
  <2> HIDE DEF p
  <2>3. \A k \in DOMAIN p : k # 1 => k - 1 \in DOMAIN Tail(p) /\ Tail(p)[k - 1] = p[k]
    <3> SUFFICES ASSUME NEW k \in DOMAIN p, k # 1
                 PROVE  k - 1 \in DOMAIN Tail(p) /\ Tail(p)[k - 1] = p[k]
      OBVIOUS
    <3>1. k - 1 \in 1 .. Len(p) - 1 /\ (k - 1) + 1 = k
      BY <2>2
    <3>2. QED
      BY <2>1, <3>1
  <2>4. \A j \in DOMAIN Tail(p) : j \in Nat
    BY <2>1, <2>2
  <2>5. QED
    BY <2>1, <2>3, <2>4
<1> HIDE DEF p, h
<1>5. \A f : f \in ToSet(p) <=> \E k \in DOMAIN p : f = p[k]
  BY DEF ToSet
<1>6. \A f : f \in ToSet(q.pending) <=> f \in ToSet(p) /\ (kept \/ f # h)
  <2>1. CASE kept
    BY <2>1
  <2>2. CASE ~kept
    <3>1. popped /\ q.pending = Tail(p)
      BY <1>3, <2>2
    <3>2. \A f : f \in ToSet(q.pending) <=> \E k \in DOMAIN Tail(p) : f = Tail(p)[k]
      BY <3>1 DEF ToSet
    <3>3. ASSUME NEW f, f \in ToSet(q.pending)
          PROVE  f \in ToSet(p) /\ f # h
      <4>1. PICK j \in DOMAIN Tail(p) : f = Tail(p)[j]
        BY <3>2, <3>3
      <4>2. f = p[j + 1] /\ j + 1 \in DOMAIN p /\ j \in Nat /\ j + 1 # 1
        <5>1. j \in DOMAIN Tail(p) /\ j \in Nat /\ f = p[j + 1] /\ j + 1 \in DOMAIN p
          BY <1>4, <3>1, <4>1
        <5>2. j # 0
          <6>1. DOMAIN Tail(p) = 1 .. Len(p) - 1
            BY <1>1, TailOnce
          <6>2. QED
            BY <4>1, <6>1
        <5>3. QED
          BY <5>1, <5>2
      <4>3. QED
        BY <1>1, <1>2, <1>5, <4>2
    <3>4. ASSUME NEW f, f \in ToSet(p), f # h
          PROVE  f \in ToSet(q.pending)
      <4>1. PICK k \in DOMAIN p : f = p[k]
        BY <1>5, <3>4
      <4>2. k # 1
        BY <1>2, <3>4, <4>1
      <4>3. QED
        BY <1>4, <3>1, <3>2, <4>1, <4>2
    <3>5. QED
      BY <2>2, <3>3, <3>4
  <2>3. QED
    BY <2>1, <2>2
<1>7. \A f : /\ 0 \notin Places(d, r, f)
             /\ Places(d, q, f) = IF f = h THEN Places(d, r, f) \cup {0} ELSE Places(d, r, f)
             /\ Cardinality(BytesIn(d, q, f)) =
                  Cardinality(BytesIn(d, r, f)) + IF f = h THEN q.bite.size ELSE 0
  BY BiteCounted DEF h
<1>8. h \in ToSet(p)
  BY <1>2, <1>5
<1>9. \A f \in FacetsBy(d) : MadeBy(d, q, arr, f) <=> MadeBy(d, r, arr, f)
  BY <1>6, <1>7, <1>8 DEF MadeBy, p
<1>10. Conserved(d, q, arr, size)
  <2> SUFFICES ASSUME NEW f \in FacetsBy(d)
               PROVE  size[f] + Cardinality(BytesIn(d, q, f)) = SentBy(d, q, arr, f)
    BY DEF Conserved
  <2>1. /\ size[f] + Cardinality(BytesIn(d, r, f)) = SentBy(d, r, arr, f)
        /\ size[f] \in Nat /\ Cardinality(BytesIn(d, r, f)) \in Nat
        /\ q.bite.size \in Nat /\ r.sent \in Nat /\ f.size \in Nat
    BY BytesFinite, FacetAssumption DEF Conserved, FacetsBy, BiteSent, BiteOf, Object
  <2>2. CASE f = h
    <3>1. SentBy(d, r, arr, f) = r.sent
      BY <1>8, <2>2 DEF SentBy, MadeBy, p, h
    <3>2. MadeBy(d, q, arr, f)
      BY <1>8, <1>9, <2>2 DEF MadeBy, p
    <3>3. CASE kept
      <4>1. SentBy(d, q, arr, f) = r.sent + q.bite.size
        BY <1>6, <1>8, <2>2, <3>2, <3>3 DEF SentBy, p, h
      <4>2. QED
        BY <1>7, <2>1, <2>2, <3>1, <4>1
    <3>4. CASE popped /\ ~kept
      <4>1. SentBy(d, q, arr, f) = f.size
        BY <1>6, <2>2, <3>2, <3>4 DEF SentBy
      <4>2. q.bite.size = f.size - r.sent
        BY <2>2, <3>4
      <4>3. QED
        BY <1>7, <2>1, <2>2, <3>1, <4>1, <4>2
    <3>5. QED
      BY <1>3, <3>3, <3>4
  <2>3. CASE f # h
    <3>1. SentBy(d, q, arr, f) = SentBy(d, r, arr, f)
      <4>1. f \in ToSet(q.pending) <=> f \in ToSet(p)
        BY <1>6, <2>3
      <4>2. CASE kept
        BY <1>9, <2>3, <4>1, <4>2 DEF SentBy, p, h
      <4>3. CASE ~kept
        BY <1>3, <1>9, <2>3, <4>1, <4>3 DEF SentBy, p, h
      <4>4. QED
        BY <4>2, <4>3
    <3>2. QED
      BY <1>7, <2>1, <2>3, <3>1
  <2>4. QED
    BY <2>2, <2>3
<1>11. Queued(d, q, arr)
  <2> SUFFICES ASSUME NEW f \in FacetsBy(d), NEW g \in FacetsBy(d),
                      MadeBy(d, q, arr, f), MadeBy(d, q, arr, g), Precedes(arr, f, g)
               PROVE  Behind(d, q, arr, f, g)
    BY DEF Queued
  <2>1. Behind(d, r, arr, f, g)
    BY <1>9 DEF Queued
  <2>2. f = h => arr[g] = 0 /\ Places(d, r, g) = {} /\ g # h
    <3>1. f = h => f # g
      <4>1. f = g => \A i, j \in DOMAIN p : p[i] = f /\ p[j] = f => i < j
        BY <2>1 DEF Behind, p
      <4>2. QED
        BY <1>2, <4>1
    <3>2. QED
      BY <1>8, <2>1, <3>1 DEF Behind, p
  <2>3. g = h => f \notin ToSet(p)
    <3>1. ASSUME g = h, f \in ToSet(p)
          PROVE  FALSE
      <4>1. PICK i \in DOMAIN p : p[i] = f
        BY <1>5, <3>1
      <4>2. i < 1
        BY <1>2, <2>1, <3>1, <4>1 DEF Behind, p
      <4>3. QED
        BY <1>2, <4>1, <4>2
    <3>2. QED
      BY <3>1
  <2>4. arr[g] # 0 => arr[f] # 0 /\ arr[f] < arr[g] /\ Places(d, q, f) = {}
    BY <1>7, <2>1, <2>2 DEF Behind
  <2>5. arr[g] # 0 \/ Places(d, q, g) # {} => f \notin ToSet(q.pending)
    BY <1>6, <1>7, <2>1, <2>3 DEF Behind, p
  <2>6. \A i \in Places(d, q, f), j \in Places(d, q, g) : j < i
    <3>1. CASE f = h
      BY <1>7, <2>2, <3>1
    <3>2. CASE f # h
      <4>1. \A i \in Places(d, r, f) : 0 < i
        <5>1. Places(d, r, f) \subseteq 0 .. Stages[d] /\ 0 \notin Places(d, r, f)
          BY <1>7, PlacesType
        <5>2. QED
          BY <5>1, DestinationAssumption
      <4>2. QED
        BY <1>7, <2>1, <3>2, <4>1 DEF Behind
    <3>3. QED
      BY <3>1, <3>2
  <2>7. \A i, j \in DOMAIN q.pending : q.pending[i] = f /\ q.pending[j] = g => i < j
    <3>1. CASE kept
      BY <2>1, <3>1 DEF Behind, p
    <3>2. CASE popped
      <4>1. \A i, j \in DOMAIN Tail(p) : Tail(p)[i] = f /\ Tail(p)[j] = g => i + 1 < j + 1
        BY <1>4, <2>1, <3>2 DEF Behind, p
      <4>2. QED
        BY <1>4, <3>2, <4>1
    <3>3. QED
      BY <1>3, <3>1, <3>2
  <2>8. QED
    BY <2>4, <2>5, <2>6, <2>7 DEF Behind
<1>12. QED
  BY <1>9, <1>10, <1>11

\* The bites move on and none reaches the channel.
LEMMA ShiftKeeps ==
  ASSUME NEW d \in Dst, NEW r, NEW q, Object(d, r), Object(d, q), Shifted(d, r, q),
         TopBite(d, r) = NoBite,
         NEW arr, NEW size \in [Facet -> Nat],
         Conserved(d, r, arr, size), Queued(d, r, arr)
  PROVE  /\ Conserved(d, q, arr, size)
         /\ Queued(d, q, arr)
         /\ \A f \in FacetsBy(d) : MadeBy(d, q, arr, f) <=> MadeBy(d, r, arr, f)
<1> DEFINE n == Stages[d]
<1>1. \A f : n \notin Places(d, r, f)
  <2>1. n # 0
    BY DestinationAssumption
  <2>2. BiteAt(r, n) = NoBite
    BY <2>1 DEF BiteAt, TopBite
  <2>3. QED
    BY <2>2 DEF Places
<1>2. \A f : /\ \A j \in Places(d, q, f) : j - 1 \in Places(d, r, f)
             /\ \A i \in Places(d, r, f) : i + 1 \in Places(d, q, f)
             /\ Cardinality(BytesIn(d, r, f)) = Cardinality(BytesIn(d, q, f))
  <2> SUFFICES ASSUME NEW f
               PROVE  /\ \A j \in Places(d, q, f) : j - 1 \in Places(d, r, f)
                      /\ \A i \in Places(d, r, f) : i + 1 \in Places(d, q, f)
                      /\ Cardinality(BytesIn(d, r, f)) = Cardinality(BytesIn(d, q, f))
    OBVIOUS
  <2>1. /\ \A j \in Places(d, q, f) : j - 1 \in Places(d, r, f)
        /\ \A i \in Places(d, r, f) : i # n => i + 1 \in Places(d, q, f)
        /\ Cardinality(BytesIn(d, r, f)) =
              Cardinality(BytesIn(d, q, f))
              + IF n \in Places(d, r, f) THEN TopBite(d, r).size ELSE 0
    BY ShiftCounted
  <2>2. Cardinality(BytesIn(d, q, f)) \in Nat
    BY BytesFinite
  <2>3. QED
    BY <1>1, <2>1, <2>2
<1>3. /\ \A f : Places(d, q, f) = {} <=> Places(d, r, f) = {}
      /\ \A f : Places(d, q, f) \subseteq 0 .. n
  BY <1>2, PlacesType
<1>4. q.pending = r.pending /\ q.sent = r.sent
  BY DEF Shifted
<1>5. \A f : MadeBy(d, q, arr, f) <=> MadeBy(d, r, arr, f)
  BY <1>3, <1>4 DEF MadeBy
<1>6. \A f : SentBy(d, q, arr, f) = SentBy(d, r, arr, f)
  BY <1>4, <1>5 DEF SentBy
<1>7. ASSUME NEW f, NEW g, Behind(d, r, arr, f, g)
      PROVE  Behind(d, q, arr, f, g)
  <2>1. \A i \in Places(d, q, f), j \in Places(d, q, g) : j - 1 < i - 1 /\ i \in Int /\ j \in Int
    BY <1>2, <1>3, <1>7, DestinationAssumption DEF Behind
  <2>2. \A i \in Places(d, q, f), j \in Places(d, q, g) : j < i
    BY <2>1
  <2>3. QED
    BY <1>3, <1>4, <1>7, <2>2 DEF Behind
<1>8. QED
  BY <1>2, <1>5, <1>6, <1>7 DEF Conserved, Queued

\* arr2 is arr with f at the end, unless it has arrived before.
Arrives(arr, arr2, f) ==
  /\ arr2 \in [Facet -> Nat]
  /\ arr2[f] # 0
  /\ \A g \in Facet : g # f \/ arr[g] # 0 => arr2[g] = arr[g]
  /\ arr[f] = 0 => \A g \in Facet : Home(g) = Home(f) => arr[g] < arr2[f]

\* What d has made was made of packets that have arrived.
Sourced(d, r, arr) ==
  \A f \in FacetsBy(d) : MadeBy(d, r, arr, f) => f.of \in Facet /\ arr[f.of] # 0

\* The bytes of bite b are added to its facet in the channel.
Adds(b, size, size2) == size2 = [size EXCEPT ![b.facet] = @ + b.size]

\* Of every other facet there are as many bytes as before.
SameBut(h, size, size2) == \A f \in Facet : f # h => size2[f] = size[f]

\* The top bite is written to the channel and the others move on.
LEMMA WriteKeeps ==
  ASSUME NEW d \in Dst, NEW r, NEW q, Object(d, r), Object(d, q), Shifted(d, r, q),
         TopBite(d, r) # NoBite,
         NEW arr \in [Facet -> Nat], NEW size \in [Facet -> Nat],
         NEW arr2, NEW size2,
         Arrives(arr, arr2, TopBite(d, r).facet),
         Adds(TopBite(d, r), size, size2),
         Conserved(d, r, arr, size), Queued(d, r, arr), Sourced(d, r, arr)
  PROVE  /\ Conserved(d, q, arr2, size2)
         /\ Queued(d, q, arr2)
         /\ \A f \in FacetsBy(d) : MadeBy(d, q, arr2, f) <=> MadeBy(d, r, arr, f)
<1> DEFINE n == Stages[d]
           top == TopBite(d, r)
           h == top.facet
<1>1. /\ n \in Nat \ {0} /\ n \in 0 .. n /\ n # 0
      /\ BiteAt(r, n) = top
      /\ top \in BiteOf(d) /\ h \in FacetsBy(d) /\ top.size \in Nat \ {0}
  <2>1. n \in Nat \ {0}
    BY DestinationAssumption
  <2>2. n \in 1 .. n /\ n \in 0 .. n /\ n # 0
    BY <2>1
  <2>3. top \in BiteOf(d)
    BY <2>2 DEF TopBite, Object
  <2>4. QED
    BY <2>1, <2>2, <2>3 DEF BiteAt, TopBite, BiteOf
<1>2. \A f : n \in Places(d, r, f) <=> f = h
  BY <1>1 DEF Places
<1>3. \A f : /\ \A j \in Places(d, q, f) : j - 1 \in Places(d, r, f) /\ j - 1 # n
             /\ \A i \in Places(d, r, f) : i # n => i + 1 \in Places(d, q, f)
             /\ Cardinality(BytesIn(d, r, f)) =
                  Cardinality(BytesIn(d, q, f)) + IF f = h THEN top.size ELSE 0
  BY <1>2, ShiftCounted
<1>4. \A f : /\ Places(d, q, f) \subseteq 0 .. n /\ Places(d, r, f) \subseteq 0 .. n
             /\ f # h => (Places(d, q, f) = {} <=> Places(d, r, f) = {})
             /\ Places(d, r, f) = {} => Places(d, q, f) = {}
  BY <1>2, <1>3, PlacesType
<1> HIDE DEF n, top, h
<1>5. q.pending = r.pending /\ q.sent = r.sent
  BY DEF Shifted
<1>6. /\ arr2[h] # 0
      /\ \A g \in Facet : g # h \/ arr[g] # 0 => arr2[g] = arr[g]
      /\ arr[h] = 0 => \A g \in FacetsBy(d) : arr[g] < arr2[h]
      /\ h \in Facet
      /\ FacetsBy(d) \subseteq Facet
  BY <1>1 DEF Arrives, FacetsBy, Home, h, top
<1>7. \A f \in FacetsBy(d) : MadeBy(d, q, arr2, f) <=> MadeBy(d, r, arr, f)
  <2> SUFFICES ASSUME NEW f \in FacetsBy(d)
               PROVE  MadeBy(d, q, arr2, f) <=> MadeBy(d, r, arr, f)
    OBVIOUS
  <2>1. CASE f = h
    <3>1. Places(d, r, f) # {}
      BY <1>2, <2>1
    <3>2. QED
      BY <1>6, <2>1, <3>1 DEF MadeBy
  <2>2. CASE f # h
    BY <1>4, <1>5, <1>6, <2>2 DEF MadeBy
  <2>3. QED
    BY <2>1, <2>2
<1>8. Conserved(d, q, arr2, size2)
  <2> SUFFICES ASSUME NEW f \in FacetsBy(d)
               PROVE  size2[f] + Cardinality(BytesIn(d, q, f)) = SentBy(d, q, arr2, f)
    BY DEF Conserved
  <2>1. /\ size[f] + Cardinality(BytesIn(d, r, f)) = SentBy(d, r, arr, f)
        /\ size[f] \in Nat /\ Cardinality(BytesIn(d, q, f)) \in Nat
        /\ top.size \in Nat
    BY <1>1, <1>6, BytesFinite DEF Conserved
  <2>2. SentBy(d, q, arr2, f) = SentBy(d, r, arr, f)
    BY <1>5, <1>7 DEF SentBy
  <2>3. size2[f] = IF f = h THEN size[f] + top.size ELSE size[f]
    BY <1>6 DEF h, top, Adds
  <2>4. QED
    BY <1>3, <2>1, <2>2, <2>3
<1>9. Queued(d, q, arr2)
  <2> SUFFICES ASSUME NEW f \in FacetsBy(d), NEW g \in FacetsBy(d),
                      MadeBy(d, q, arr2, f), MadeBy(d, q, arr2, g), Precedes(arr2, f, g)
               PROVE  Behind(d, q, arr2, f, g)
    BY DEF Queued
  <2>1. MadeBy(d, r, arr, f) /\ MadeBy(d, r, arr, g)
    BY <1>7
  <2>2. Precedes(arr, f, g)
    BY <1>6, <2>1 DEF Precedes, Sourced
  <2>3. Behind(d, r, arr, f, g)
    BY <2>1, <2>2 DEF Queued
  <2>4. g = h => f # h /\ Places(d, r, f) = {} /\ f \notin ToSet(r.pending)
    <3>1. g = h => n \in Places(d, r, g) /\ \A i \in Places(d, r, f) : n < i
      BY <1>2, <2>3 DEF Behind
    <3>2. g = h => Places(d, r, f) = {}
      BY <1>1, <1>4, <3>1
    <3>3. QED
      BY <1>2, <2>3, <3>1, <3>2 DEF Behind
  <2>5. f = h => arr[g] = 0
    BY <1>2, <2>3 DEF Behind
  <2>6. arr2[g] # 0 => arr2[f] # 0 /\ arr2[f] < arr2[g] /\ Places(d, q, f) = {}
    <3>1. CASE g = h
      <4>1. arr[f] # 0 /\ arr2[f] = arr[f]
        BY <1>6, <2>1, <2>4, <3>1 DEF MadeBy
      <4>2. arr2[f] < arr2[g]
        BY <1>6, <2>3, <3>1, <4>1 DEF Behind
      <4>3. QED
        BY <1>4, <2>4, <3>1, <4>1, <4>2
    <3>2. CASE g # h
      <4>1. arr2[g] = arr[g]
        BY <1>6, <3>2
      <4>2. arr[g] # 0 => arr[f] # 0 /\ arr2[f] = arr[f]
        BY <1>6, <2>3 DEF Behind
      <4>3. QED
        BY <1>4, <2>3, <4>1, <4>2 DEF Behind
    <3>3. QED
      BY <3>1, <3>2
  <2>7. arr2[g] # 0 \/ Places(d, q, g) # {} => f \notin ToSet(q.pending)
    BY <1>4, <1>5, <1>6, <2>3, <2>4 DEF Behind
  <2>8. \A i \in Places(d, q, f), j \in Places(d, q, g) : j < i
    <3>1. \A i \in Places(d, q, f), j \in Places(d, q, g) : j - 1 < i - 1 /\ i \in Int /\ j \in Int
      BY <1>1, <1>3, <1>4, <2>3 DEF Behind
    <3>2. QED
      BY <3>1
  <2>9. \A i, j \in DOMAIN q.pending : q.pending[i] = f /\ q.pending[j] = g => i < j
    BY <1>5, <2>3 DEF Behind
  <2>10. QED
    BY <2>6, <2>7, <2>8, <2>9 DEF Behind
<1>10. QED
  BY <1>7, <1>8, <1>9

\* A packet that another destination, or the back door, writes is none of d's.
LEMMA OthersKeep ==
  ASSUME NEW d \in Dst, NEW r, NEW arr, NEW size, NEW arr2, NEW size2, NEW h \in Facet,
         h \notin FacetsBy(d),
         Arrives(arr, arr2, h),
         SameBut(h, size, size2),
         Conserved(d, r, arr, size), Queued(d, r, arr), Sourced(d, r, arr)
  PROVE  /\ Conserved(d, r, arr2, size2)
         /\ Queued(d, r, arr2)
         /\ \A f \in FacetsBy(d) : MadeBy(d, r, arr2, f) <=> MadeBy(d, r, arr, f)
<1>1. \A f \in FacetsBy(d) : arr2[f] = arr[f] /\ size2[f] = size[f]
  BY DEF Arrives, FacetsBy, SameBut
<1>2. \A f \in FacetsBy(d) : MadeBy(d, r, arr2, f) <=> MadeBy(d, r, arr, f)
  BY <1>1 DEF MadeBy
<1>3. Conserved(d, r, arr2, size2)
  BY <1>1, <1>2 DEF Conserved, SentBy
<1>4. \A f, g \in FacetsBy(d) :
        MadeBy(d, r, arr, f) /\ MadeBy(d, r, arr, g) /\ Precedes(arr2, f, g) => Precedes(arr, f, g)
  BY DEF Precedes, Arrives, Sourced
<1>5. \A f, g \in FacetsBy(d) : Behind(d, r, arr, f, g) => Behind(d, r, arr2, f, g)
  BY <1>1 DEF Behind
<1>6. QED
  BY <1>2, <1>3, <1>4, <1>5 DEF Queued

\* No more is sent of a facet than it has.
LEMMA SentBound ==
  ASSUME NEW d \in Dst, NEW r, Object(d, r), NEW arr, NEW size \in [Facet -> Nat],
         Conserved(d, r, arr, size), NEW f \in FacetsBy(d)
  PROVE  /\ size[f] + Cardinality(BytesIn(d, r, f)) <= f.size
         /\ size[f] <= f.size
         /\ size[f] = f.size => Places(d, r, f) = {}
<1>1. SentBy(d, r, arr, f) <= f.size
  BY FacetAssumption DEF SentBy, Object, FacetsBy, ToSet
<1>2. size[f] \in Nat /\ f.size \in Nat /\ Cardinality(BytesIn(d, r, f)) \in Nat
  BY BytesFinite, FacetAssumption DEF FacetsBy
<1>3. Cardinality(BytesIn(d, r, f)) = 0 => Places(d, r, f) = {}
  <2> SUFFICES ASSUME NEW i \in Places(d, r, f)
               PROVE  BytesIn(d, r, f) # {}
    BY BytesFinite, FS_EmptySet
  <2>1. 1 \in 1 .. BiteAt(r, i).size
    BY PlacesType
  <2>2. <<i, 1>> \in BytesIn(d, r, f)
    BY <2>1 DEF BytesIn
  <2>3. QED
    BY <2>2
<1>4. QED
  BY <1>1, <1>2, <1>3 DEF Conserved

-----------------------------------------------------------------------------
\* The inductive invariant, in parts.

\* The destinations are well formed.
ObjectInv == dst = [d \in Dst |-> dst[d]] /\ \A d \in Dst : Object(d, dst[d])

\* No byte is lost or made twice between a destination and its channel, and none of its
\* facets overtakes another.
LoadInv == \A d \in Dst : Conserved(d, dst[d], arrival, chSize) /\ Queued(d, dst[d], arrival)

\* A facet arrives once, at a place of its own, in the channel it is for; it is never
\* longer than it was made; what was freed was complete; and only claimed packets are read.
ChannelInv ==
  /\ content \in [Chan -> SUBSET Facet]
  /\ arrival \in [Facet -> Nat]
  /\ arrived \in [Chan -> Nat]
  /\ chSize \in [Facet -> Nat]
  /\ offset \in [Facet -> Nat]
  /\ picked \in SUBSET Facet
  /\ \A c \in Chan : \A f \in content[c] : Home(f) = c /\ arrival[f] # 0
  /\ \A f \in Facet : arrival[f] <= arrived[Home(f)]
  /\ \A f, g \in Facet :
       Home(f) = Home(g) /\ arrival[f] = arrival[g] /\ arrival[f] # 0 => f = g
  /\ \A f \in Facet : chSize[f] <= f.size
  /\ \A f \in Facet : arrival[f] # 0 /\ f \notin content[Home(f)] => chSize[f] = f.size
  /\ \A f \in Facet : f \notin picked => offset[f] = 0
  /\ \A f \in picked : arrival[f] # 0

\* No cone of t has begun its packet.
Resting(t) == \A d \in ConesOf(t) : cone[d] = "IDLE" /\ dst[d].offset = 0

\* The states of the handlers, cones and sources.
TypeInv ==
  /\ thState \in [TH -> {"IDLE", "READY", "BUSY"}]
  /\ cone \in [Dst -> {"IDLE", "LOCK_SRC", "STREAMING", "DONE"}]
  /\ source \in [Src -> [facet : Facet \cup {None}, done : BOOLEAN]]
  /\ srcSet \in [TH -> SUBSET Src]
  /\ internalError \in BOOLEAN

\* Source s may read packet p.
Reads(s, p) ==
  /\ p \in Facet
  /\ Home(p) = SrcCh[s]
  /\ p.by \in Accepts[s]

\* A source that does not stream takes its packet only once it is complete.
Whole(s, p) == Mode[s] # "PIPELINE" => chSize[p] = p.size

\* An idle handler holds no packet that a cone still works on; one that is not idle holds
\* one packet for each source, and has claimed it. A cone that streams has something to send.
HandlerInv ==
  /\ \A t \in TH : \A s \in srcSet[t] : s \in SourcesOf(t) /\ Reads(s, source[s].facet)
  /\ \A t \in TH : thState[t] # "IDLE" =>
       /\ srcSet[t] = SourcesOf(t)
       /\ \A s \in SourcesOf(t) : source[s].facet \in picked /\ Whole(s, source[s].facet)
  /\ \A t \in TH : thState[t] = "IDLE" => \A d \in ConesOf(t) : cone[d] \in {"IDLE", "DONE"}
  /\ internalError \/ \A t \in TH : thState[t] = "IDLE" =>
       \/ \A s \in srcSet[t] : source[s].done
       \/ Resting(t)
  /\ \A d \in Dst : cone[d] = "STREAMING" => dst[d].pending # <<>>

\* A cone has read no more of its source than has arrived, and the source's offset is
\* behind all its cones.
AheadInv ==
  \A t \in TH : thState[t] # "IDLE" =>
    \A d \in ConesOf(t) : LET src == source[SrcOf[d]] IN
      ~src.done => DataAvailable(src, dst[d].offset) /\ offset[src.facet] <= dst[d].offset

\* Two working handlers hold different packets.
SharingInv ==
  \A t, u \in TH : t # u /\ thState[t] # "IDLE" /\ thState[u] # "IDLE" =>
     \A s \in SourcesOf(t), r \in SourcesOf(u) : source[s].facet # source[r].facet

\* Facets are made of claimed packets of the right channel, and a cone that has not begun
\* has made nothing of its packet.
FreshInv ==
  /\ \A d \in Dst : \A f \in FacetsBy(d) : MadeBy(d, dst[d], arrival, f) =>
       f.of \in picked /\ Home(f.of) = SrcCh[SrcOf[d]]
  /\ \A t \in TH : thState[t] # "IDLE" => \A d \in ConesOf(t) :
       cone[d] \in {"IDLE", "LOCK_SRC"} => NewFor(d, dst[d], arrival, source[SrcOf[d]].facet)

\* In an ordered channel the packets are claimed in the order of their arrival.
ClaimOrder ==
  \A f \in picked : Ordered[Home(f)] =>
     \A g \in content[Home(f)] \ picked : arrival[f] < arrival[g]

\* The inductive invariant.
IInv ==
  /\ ObjectInv
  /\ LoadInv
  /\ ChannelInv
  /\ TypeInv
  /\ HandlerInv
  /\ AheadInv
  /\ SharingInv
  /\ FreshInv
  /\ ClaimOrder

-----------------------------------------------------------------------------
\* Every facet has a channel and a size, and is not None.
LEMMA HomeType ==
  ASSUME NEW f \in Facet
  PROVE  Home(f) \in Chan /\ f.size \in Nat \ {0} /\ f # None
BY FlowAssumption, FacetAssumption DEF Home

\* The source of t on the channel it reads is the one source it has there.
LEMMA SourceOnIs ==
  ASSUME NEW t \in TH, NEW s \in SourcesOf(t)
  PROVE  /\ s \in Src /\ SrcCh[s] \in Chan
         /\ SourceOn(t, SrcCh[s]) = s
         /\ t \in ReadersOf(SrcCh[s])
<1>1. SourcesOf(t) \subseteq Src
  <2>1. ConesOf(t) \subseteq Dst
    BY FlowAssumption DEF ConesOf, ToSet
  <2>2. QED
    BY <2>1, FlowAssumption DEF SourcesOf
<1>2. \A r \in SourcesOf(t) : SrcCh[r] = SrcCh[s] => r = s
  BY FlowAssumption
<1>3. QED
  BY <1>1, <1>2, FlowAssumption DEF SourceOn, ReadersOf

\* Who has a cone or a source.
LEMMA ConesApart ==
  ASSUME NEW t \in TH
  PROVE  /\ ConesOf(t) \subseteq Dst
         /\ ConesOf(t) # {}
         /\ \A d \in ConesOf(t) : SrcOf[d] \in SourcesOf(t)
         /\ \A s \in SourcesOf(t) : \E d \in ConesOf(t) : SrcOf[d] = s
         /\ \A u \in TH : u # t => ConesOf(t) \cap ConesOf(u) = {}
                                   /\ SourcesOf(t) \cap SourcesOf(u) = {}
<1>1. ConesOf(t) \subseteq Dst /\ ConesOf(t) # {}
  <2>1. Cones[t] \in Seq(Dst) /\ Cones[t] # <<>>
    BY FlowAssumption
  <2>2. 1 \in DOMAIN Cones[t] /\ \A i \in DOMAIN Cones[t] : Cones[t][i] \in Dst
    BY <2>1
  <2>3. QED
    BY <2>2 DEF ConesOf, ToSet
<1>2. QED
  BY <1>1, FlowAssumption DEF SourcesOf

\* What a source picks up.
LEMMA PickUpFacts ==
  ASSUME ChannelInv, NEW t \in TH, NEW s \in SourcesOf(t), PickUp(t, s) # None
  PROVE  LET p == PickUp(t, s) IN
         /\ p \in content[SrcCh[s]] /\ p \notin picked
         /\ Reads(s, p) /\ Whole(s, p)
         /\ arrival[p] # 0 /\ offset[p] = 0
         /\ Ordered[SrcCh[s]] => \A g \in content[SrcCh[s]] : g # p => arrival[p] < arrival[g]
<1> DEFINE c == SrcCh[s]
           found == {f \in content[c] : Ch(c)!PickUpFacet(t, f)}
           p == PickUp(t, s)
<1>1. c \in Chan /\ SourceOn(t, c) = s /\ t \in ReadersOf(c)
  BY SourceOnIs
<1>2. p \in found
  BY DEF PickUp
<1> HIDE DEF p
<1>3. p \in content[c] /\ p \in Facet /\ Home(p) = c /\ p \in FacetsOf(c) /\ arrival[p] # 0
  BY <1>1, <1>2 DEF ChannelInv, FacetsOf
<1>4. Ch(c)!PickUpFacet(t, p)
  BY <1>2
<1>5. Ch(c)!Condition(t, p)
  BY <1>4 DEF Ch!PickUpFacet
<1>6. p.by \in Accepts[s] /\ Whole(s, p) /\ p \notin picked
  BY <1>1, <1>3, <1>5 DEF Ch!Condition, Ch!IsChComplete, Whole
<1>7. ASSUME Ordered[c], NEW g \in content[c], g # p
      PROVE  arrival[p] < arrival[g]
  <2>1. g \in Facet /\ Home(g) = c
    BY <1>1 DEF ChannelInv
  <2>2. ~(arrival[g] < arrival[p])
    BY <1>3, <1>4, <1>7, <2>1 DEF Ch!PickUpFacet, FacetsOf
  <2>3. arrival[g] # arrival[p] /\ arrival[g] \in Nat /\ arrival[p] \in Nat
    BY <1>3, <1>7, <2>1 DEF ChannelInv
  <2>4. QED
    BY <2>2, <2>3
<1>8. offset[p] = 0
  BY <1>3, <1>6 DEF ChannelInv
<1>9. QED
  BY <1>3, <1>6, <1>7, <1>8 DEF p, Reads

\* If no cone misses a packet, all sources were asked and have one.
LEMMA AskedAll ==
  ASSUME NEW t \in TH, Missing(t) = {}
  PROVE  Asked(t) = SourcesOf(t) /\ \A s \in SourcesOf(t) : PickUp(t, s) # None
<1>1. \A d : d \in ConesOf(t) <=> \E i \in DOMAIN Cones[t] : d = Cones[t][i]
  BY DEF ConesOf, ToSet
<1>2. QED
  BY <1>1 DEF Asked, Missing, SourcesOf

\* Only sources of t are asked.
LEMMA AskedSome ==
  ASSUME NEW t \in TH
  PROVE  Asked(t) \subseteq SourcesOf(t)
BY DEF Asked, SourcesOf, ConesOf, ToSet

-----------------------------------------------------------------------------
\* What the invariant gives.

\* The model's Made and IsPending, written for one destination.
LEMMA MadeIs ==
  ASSUME ObjectInv, NEW f \in Facet, f.by \in Dst
  PROVE  /\ f \in FacetsBy(f.by)
         /\ IsPending(f) <=> f \in ToSet(dst[f.by].pending)
         /\ Made(f) <=> MadeBy(f.by, dst[f.by], arrival, f)
<1>1. f \in FacetsBy(f.by)
  BY DEF FacetsBy
<1>2. \A d \in Dst : f \in ToSet(dst[d].pending) => f.by = d
  <2> SUFFICES ASSUME NEW d \in Dst, NEW k \in DOMAIN dst[d].pending, f = dst[d].pending[k]
               PROVE  f.by = d
    BY DEF ToSet
  <2>1. dst[d].pending \in Seq(FacetsBy(d))
    BY DEF ObjectInv, Object
  <2>2. f \in FacetsBy(d)
    BY <2>1
  <2>3. QED
    BY <2>2 DEF FacetsBy
<1>3. IsPending(f) <=> f \in ToSet(dst[f.by].pending)
  BY <1>2 DEF IsPending
<1>4. QED
  BY <1>1, <1>3 DEF Made, MadeBy, InPipeline

\* The safety properties of the runs follow from the invariant.
LEMMA InvGives ==
  ASSUME IInv
  PROVE  /\ BytesConserved
         /\ NotAheadOfSource
         /\ FreedAfterAllCones
         /\ NoSharedPacket
         /\ OrderKept
<1>1. BytesConserved
  <2> SUFFICES ASSUME NEW f \in Facet, f.by \in Dst
               PROVE  chSize[f] + PipelineBytes(f.by, f) = Sent(f)
    BY DEF BytesConserved
  <2>1. chSize[f] + Cardinality(BytesIn(f.by, dst[f.by], f)) = SentBy(f.by, dst[f.by], arrival, f)
    BY MadeIs DEF IInv, LoadInv, Conserved
  <2>2. Sent(f) = SentBy(f.by, dst[f.by], arrival, f)
    BY MadeIs DEF IInv, Sent, SentBy
  <2>3. QED
    BY <2>1, <2>2 DEF PipelineBytes
<1>2. NotAheadOfSource /\ FreedAfterAllCones
  BY DEF IInv, AheadInv, NotAheadOfSource, FreedAfterAllCones
<1>3. NoSharedPacket
  BY DEF IInv, SharingInv, HandlerInv, NoSharedPacket
<1>4. OrderKept
  <2> SUFFICES ASSUME NEW f \in Facet, NEW g \in Facet,
                      f.by = g.by, f.by \in Dst, arrival[f] # 0, arrival[g] # 0,
                      \/ f.of = g.of /\ f.idx < g.idx
                      \/ /\ f.of # g.of /\ Ordered[Home(f.of)]
                         /\ arrival[f.of] < arrival[g.of]
               PROVE  arrival[f] < arrival[g]
    BY DEF OrderKept
  <2>1. Queued(f.by, dst[f.by], arrival)
    BY DEF IInv, LoadInv
  <2>2. /\ f \in FacetsBy(f.by) /\ g \in FacetsBy(f.by)
        /\ MadeBy(f.by, dst[f.by], arrival, f) /\ MadeBy(f.by, dst[f.by], arrival, g)
    BY DEF FacetsBy, MadeBy
  <2>3. Behind(f.by, dst[f.by], arrival, f, g)
    BY <2>1, <2>2 DEF Queued, Precedes
  <2>4. QED
    BY <2>3 DEF Behind
<1>5. QED
  BY <1>1, <1>2, <1>3, <1>4

\* At the beginning nothing has been made.
LEMMA InitHolds == Init => IInv
<1> SUFFICES ASSUME Init PROVE IInv
  OBVIOUS
<1> USE DEF Init
<1>1. \A d \in Dst : dst[d] = NewDestination(d)
  OBVIOUS
<1>2. ASSUME NEW d \in Dst
      PROVE  /\ Object(d, NewDestination(d))
             /\ \A f : /\ f \notin ToSet(NewDestination(d).pending)
                       /\ Places(d, NewDestination(d), f) = {}
  <2> DEFINE r == NewDestination(d)
  <2>1. /\ DOMAIN r = Fields /\ r = [x \in Fields |-> r[x]]
        /\ r.pending = <<>> /\ r.sent = 0 /\ r.offset = 0 /\ r.active = Cycle[d]
        /\ r.bite = NoBite /\ r.unit = [i \in 1 .. Stages[d] |-> NoBite]
    BY DEF NewDestination, Fields
  <2> HIDE DEF r
  <2>2. Cycle[d] \in Int /\ Stages[d] \in Nat
    BY DestinationAssumption
  <2>3. Object(d, r)
    <3>1. /\ r.pending \in Seq(FacetsBy(d)) /\ DOMAIN r.pending = {}
          /\ r.sent \in Nat /\ r.offset \in Nat /\ r.active \in Int
      <4>1. <<>> \in Seq(FacetsBy(d)) /\ DOMAIN <<>> = {}
        OBVIOUS
      <4>2. r.pending \in Seq(FacetsBy(d)) /\ DOMAIN r.pending = {}
        BY <2>1, <4>1, Zenon
      <4>3. QED
        BY <2>1, <2>2, <4>2
    <3>2. r.bite \in BiteOf(d) \cup {NoBite} /\ r.unit \in [1 .. Stages[d] -> BiteOf(d) \cup {NoBite}]
      BY <2>1
    <3>3. QED
      BY <2>1, <3>1, <3>2 DEF Object
  <2>4. \A f : f \notin ToSet(r.pending)
    BY <2>1 DEF ToSet
  <2>5. \A i \in 0 .. Stages[d] : BiteAt(r, i) = NoBite
    BY <2>1, <2>2 DEF BiteAt
  <2>6. \A f : Places(d, r, f) = {}
    BY <2>5 DEF Places
  <2>7. QED
    BY <2>3, <2>4, <2>6 DEF r
<1> HIDE DEF Init
<1>3. ObjectInv
  BY <1>1, <1>2 DEF ObjectInv, Init
<1>4. /\ arrival = [f \in Facet |-> 0] /\ chSize = [f \in Facet |-> 0]
      /\ thState = [t \in TH |-> "IDLE"]
  BY DEF Init
<1>5. \A d \in Dst : \A f \in FacetsBy(d) : ~MadeBy(d, dst[d], arrival, f)
  BY <1>1, <1>2, <1>4 DEF MadeBy, FacetsBy
<1>6. LoadInv
  <2>1. ASSUME NEW d \in Dst, NEW f \in FacetsBy(d)
        PROVE  Cardinality(BytesIn(d, dst[d], f)) = 0 /\ chSize[f] = 0
    BY <1>1, <1>2, <1>4, BytesFinite DEF FacetsBy
  <2>2. \A d \in Dst : Conserved(d, dst[d], arrival, chSize)
    BY <1>5, <2>1 DEF Conserved, SentBy
  <2>3. \A d \in Dst : Queued(d, dst[d], arrival)
    BY <1>5 DEF Queued
  <2>4. QED
    BY <2>2, <2>3 DEF LoadInv
<1>7. ChannelInv
  BY HomeType DEF ChannelInv, Init
<1>8. TypeInv
  BY DEF TypeInv, Init
<1>9. HandlerInv
  BY ConesApart DEF HandlerInv, Init
<1>10. AheadInv /\ SharingInv /\ ClaimOrder
  BY DEF AheadInv, SharingInv, ClaimOrder, Init
<1>11. FreshInv
  BY <1>4, <1>5 DEF FreshInv
<1>12. QED
  BY <1>3, <1>6, <1>7, <1>8, <1>9, <1>10, <1>11 DEF IInv

-----------------------------------------------------------------------------
\* Steps that only arrange the agenda.

\* The variables the invariant speaks of.
coreVars == <<content, arrival, arrived, chSize, offset, picked, thState, srcSet, source,
              cone, dst, internalError>>

\* A step that touches nothing of the core keeps the invariant.
LEMMA InertStep ==
  ASSUME IInv, UNCHANGED coreVars
  PROVE  IInv'
<1> USE DEF IInv, coreVars
<1>1. ObjectInv' /\ LoadInv'
  BY DEF ObjectInv, LoadInv
<1>2. ChannelInv' /\ TypeInv' /\ SharingInv' /\ ClaimOrder'
  BY DEF ChannelInv, TypeInv, SharingInv, ClaimOrder
<1>3. HandlerInv' /\ AheadInv'
  BY DEF HandlerInv, Resting, Whole, AheadInv, DataAvailable
<1>4. FreshInv'
  BY DEF FreshInv
<1>5. QED
  BY <1>1, <1>2, <1>3, <1>4

\* Start, stuttering, and what the group handlers do.
LEMMA InertSteps ==
  ASSUME \/ Start \/ UNCHANGED vars
         \/ \E g \in Group : GroupNext(g)
  PROVE  UNCHANGED coreVars
<1>1. CASE Start
  BY <1>1 DEF Start, coreVars, chanVars, thVars
<1>2. CASE UNCHANGED vars
  BY <1>2 DEF vars, coreVars, chanVars, thVars
<1>3. ASSUME NEW g \in Group, GroupNext(g)
      PROVE  UNCHANGED coreVars
  BY <1>3 DEF GroupNext, PrepareOthers, Turn, SelectTH, Dispatch, coreVars, chanVars, thVars
<1>4. QED
  BY <1>1, <1>2, <1>3

-----------------------------------------------------------------------------
\* Steps of the destinations' pipelines that write nothing, and of the clock.

\* If no queue changes, no count and no order does.
LEMMA QueueStep ==
  ASSUME ObjectInv, LoadInv, UNCHANGED <<arrival, chSize>>,
         dst' = [d \in Dst |-> dst'[d]],
         \A d \in Dst : Object(d, dst'[d]) /\ SameQueue(dst[d], dst'[d])
  PROVE  /\ ObjectInv' /\ LoadInv'
         /\ \A d \in Dst : \A f : MadeBy(d, dst'[d], arrival', f) <=> MadeBy(d, dst[d], arrival, f)
<1>1. ObjectInv'
  BY DEF ObjectInv
<1>2. ASSUME NEW d \in Dst
      PROVE  /\ Conserved(d, dst'[d], arrival', chSize') /\ Queued(d, dst'[d], arrival')
             /\ \A f : MadeBy(d, dst'[d], arrival', f) <=> MadeBy(d, dst[d], arrival, f)
  <2>1. Conserved(d, dst[d], arrival, chSize) /\ Queued(d, dst[d], arrival)
    BY DEF LoadInv
  <2>2. SameQueue(dst[d], dst'[d])
    OBVIOUS
  <2> DEFINE q == dst'[d]
  <2> HIDE DEF q
  <2>3. /\ Conserved(d, q, arrival, chSize) /\ Queued(d, q, arrival)
        /\ \A f : MadeBy(d, q, arrival, f) <=> MadeBy(d, dst[d], arrival, f)
    BY <2>1, <2>2, SameKeeps DEF q
  <2>4. QED
    BY <2>3 DEF q
<1>3. QED
  BY <1>1, <1>2 DEF LoadInv

\* A step inside the pipelines keeps the invariant if it makes nothing and keeps the
\* offsets and _PendingQueue.
LEMMA PipeStep ==
  ASSUME IInv, ObjectInv', LoadInv',
         UNCHANGED <<content, arrival, arrived, chSize, offset, picked, thState, srcSet,
                     source, cone, internalError>>,
         \A d \in Dst : dst'[d].pending = dst[d].pending /\ dst'[d].offset = dst[d].offset,
         \A d \in Dst : \A f \in FacetsBy(d) :
           MadeBy(d, dst'[d], arrival', f) => MadeBy(d, dst[d], arrival, f)
  PROVE  IInv'
<1> USE DEF IInv
<1>1. ChannelInv' /\ TypeInv' /\ SharingInv' /\ ClaimOrder'
  BY DEF ChannelInv, TypeInv, SharingInv, ClaimOrder
<1>2. HandlerInv' /\ AheadInv'
  <2>1. \A t \in TH : ConesOf(t) \subseteq Dst
    BY ConesApart
  <2>2. HandlerInv'
    BY <2>1 DEF HandlerInv, Resting, Whole
  <2>3. AheadInv'
    BY <2>1 DEF AheadInv, DataAvailable
  <2>4. QED
    BY <2>2, <2>3
<1>3. FreshInv'
  <2>1. \A t \in TH : ConesOf(t) \subseteq Dst
    BY ConesApart
  <2>2. \A d \in Dst : \A p : NewFor(d, dst[d], arrival, p) => NewFor(d, dst'[d], arrival', p)
    BY DEF NewFor
  <2>3. \A d \in Dst : \A f \in FacetsBy(d) : MadeBy(d, dst'[d], arrival', f) =>
          f.of \in picked' /\ Home(f.of) = SrcCh[SrcOf[d]]
    BY DEF FreshInv
  <2>4. \A t \in TH : thState'[t] # "IDLE" => \A d \in ConesOf(t) :
          cone'[d] \in {"IDLE", "LOCK_SRC"} => NewFor(d, dst'[d], arrival', source'[SrcOf[d]].facet)
    BY <2>1, <2>2 DEF FreshInv
  <2>5. QED
    BY <2>3, <2>4 DEF FreshInv
<1>4. QED
  BY <1>1, <1>2, <1>3

\* The clock moves the destinations' delays and no packet.
LEMMA TickStep ==
  ASSUME IInv, Tick
  PROVE  IInv'
<1>1. /\ UNCHANGED <<content, arrival, arrived, chSize, offset, picked, thState, srcSet,
                     source, cone, internalError>>
      /\ dst' = [d \in Dst |-> Elapse(d, dst[d])]
  BY DEF Tick, chanVars, thVars
<1>2. \A d \in Dst : Object(d, dst'[d]) /\ SameLoad(dst[d], dst'[d])
  BY <1>1, ElapseLoad DEF IInv, ObjectInv
<1>3. dst' = [d \in Dst |-> dst'[d]]
  BY <1>1
<1>4. /\ ObjectInv' /\ LoadInv'
      /\ \A d \in Dst : \A f : MadeBy(d, dst'[d], arrival', f) <=> MadeBy(d, dst[d], arrival, f)
  BY <1>1, <1>2, <1>3, QueueStep DEF IInv, SameLoad, SameQueue
<1>5. QED
  BY <1>1, <1>2, <1>4, PipeStep DEF SameLoad

\* UpdatePipeline without a write.
LEMMA NoWriteStep ==
  ASSUME IInv, NEW d \in Dst, UpdatePipeline(d), Advance(d) \/ Halt(d)
  PROVE  IInv'
<1> DEFINE r == dst[d]
           q == Shift(d, Polled(d, r))
<1>0. /\ Object(d, r) /\ Object(d, Polled(d, r)) /\ SameLoad(r, Polled(d, r))
      /\ dst = [e \in Dst |-> dst[e]]
  BY PolledLoad DEF IInv, ObjectInv
<1>1. UNCHANGED <<content, arrival, arrived, chSize, offset, picked, thState, srcSet,
                  source, cone, internalError>>
  BY DEF UpdatePipeline, Advance, Halt, chanVars, thVars
<1>2. \/ dst' = [dst EXCEPT ![d] = r]
      \/ dst' = [dst EXCEPT ![d] = Polled(d, r)]
      \/ dst' = [dst EXCEPT ![d] = q] /\ TopBite(d, r) = NoBite
  BY DEF Advance, Halt
<1>3. CASE dst' = [dst EXCEPT ![d] = r] \/ dst' = [dst EXCEPT ![d] = Polled(d, r)]
  <2>1. /\ dst' = [e \in Dst |-> dst'[e]]
        /\ \A e \in Dst : dst'[e] = dst[e] \/ (e = d /\ dst'[e] = Polled(d, r))
    BY <1>0, <1>3
  <2>2. \A e \in Dst : Object(e, dst'[e]) /\ SameLoad(dst[e], dst'[e])
    BY <1>0, <2>1 DEF IInv, ObjectInv, SameLoad
  <2>3. /\ ObjectInv' /\ LoadInv'
        /\ \A e \in Dst : \A f : MadeBy(e, dst'[e], arrival', f) <=> MadeBy(e, dst[e], arrival, f)
    BY <1>1, <2>1, <2>2, QueueStep DEF IInv, SameLoad, SameQueue
  <2>4. QED
    BY <1>1, <2>2, <2>3, PipeStep DEF SameLoad
<1>4. CASE dst' = [dst EXCEPT ![d] = q] /\ TopBite(d, r) = NoBite
  <2>1. /\ dst' = [e \in Dst |-> dst'[e]] /\ dst'[d] = q
        /\ \A e \in Dst : e # d => dst'[e] = dst[e]
    BY <1>0, <1>4
  <2>2. Object(d, q) /\ Shifted(d, r, q)
    BY <1>0, ShiftLoad DEF Shifted, SameLoad
  <2>3. /\ Conserved(d, q, arrival, chSize) /\ Queued(d, q, arrival)
        /\ \A f \in FacetsBy(d) : MadeBy(d, q, arrival, f) <=> MadeBy(d, r, arrival, f)
    <3>1. /\ chSize \in [Facet -> Nat]
          /\ Conserved(d, r, arrival, chSize) /\ Queued(d, r, arrival)
      BY DEF IInv, LoadInv, ChannelInv
    <3> HIDE DEF q, r
    <3>2. QED
      BY <1>0, <1>4, <2>2, <3>1, ShiftKeeps
  <2>4. ObjectInv' /\ LoadInv'
    BY <1>1, <2>1, <2>2, <2>3 DEF IInv, ObjectInv, LoadInv
  <2>5. /\ \A e \in Dst : dst'[e].pending = dst[e].pending /\ dst'[e].offset = dst[e].offset
        /\ \A e \in Dst : \A f \in FacetsBy(e) :
             MadeBy(e, dst'[e], arrival', f) => MadeBy(e, dst[e], arrival, f)
    BY <1>1, <2>1, <2>2, <2>3 DEF Shifted
  <2>6. QED
    BY <1>1, <2>4, <2>5, PipeStep
<1>5. QED
  BY <1>2, <1>3, <1>4

-----------------------------------------------------------------------------
\* Steps that bring bytes into a channel.

\* f is in its channel, or comes to the end of it now; v of its bytes are there.
Brings(f, v) ==
  /\ \/ f \in content[Home(f)] /\ UNCHANGED <<content, arrival, arrived>>
     \/ arrival[f] = 0 /\ PushBack(Home(f), f)
  /\ chSize' = [chSize EXCEPT ![f] = v]
  /\ v \in Nat /\ chSize[f] <= v
  /\ UNCHANGED <<offset, picked, thState, srcSet, source, cone, internalError>>

\* Bytes that are brought to a channel append their facet unless it is there.
LEMMA BringsArrives ==
  ASSUME ChannelInv, NEW f \in Facet, NEW v, Brings(f, v)
  PROVE  /\ Arrives(arrival, arrival', f)
         /\ arrival' \in [Facet -> Nat] /\ arrived' \in [Chan -> Nat]
         /\ \A g \in Facet : arrival'[g] <= arrived'[Home(g)]
         /\ \A g \in Facet : g # f => arrival'[g] = arrival[g]
         /\ \A g \in Facet : arrival[g] # 0 => arrival'[g] = arrival[g]
         /\ content' = [c \in Chan |-> IF c = Home(f) THEN content[c] \cup {f} ELSE content[c]]
<1>1. /\ arrival \in [Facet -> Nat] /\ arrived \in [Chan -> Nat] /\ content \in [Chan -> SUBSET Facet]
      /\ \A g \in Facet : arrival[g] <= arrived[Home(g)] /\ Home(g) \in Chan
      /\ \A c \in Chan : \A g \in content[c] : Home(g) = c /\ arrival[g] # 0
  BY HomeType DEF ChannelInv
<1>2. CASE f \in content[Home(f)] /\ UNCHANGED <<content, arrival, arrived>>
  BY <1>1, <1>2 DEF Arrives
<1>3. CASE arrival[f] = 0 /\ PushBack(Home(f), f)
  <2>1. /\ content' = [content EXCEPT ![Home(f)] = @ \cup {f}]
        /\ arrival' = [arrival EXCEPT ![f] = arrived[Home(f)] + 1]
        /\ arrived' = [arrived EXCEPT ![Home(f)] = @ + 1]
    BY <1>3 DEF PushBack
  <2>2. /\ arrival'[f] = arrived[Home(f)] + 1
        /\ \A g \in Facet : g # f => arrival'[g] = arrival[g]
        /\ arrived'[Home(f)] = arrived[Home(f)] + 1
        /\ \A g \in Facet : Home(g) # Home(f) => arrived'[Home(g)] = arrived[Home(g)]
        /\ arrival' \in [Facet -> Nat] /\ arrived' \in [Chan -> Nat]
    BY <1>1, <2>1
  <2>3. \A g \in Facet : arrival'[g] <= arrived'[Home(g)]
    BY <1>1, <2>2
  <2>4. Arrives(arrival, arrival', f)
    BY <1>1, <1>3, <2>2 DEF Arrives
  <2>5. QED
    BY <1>1, <1>3, <2>1, <2>2, <2>3, <2>4
<1>4. QED
  BY <1>2, <1>3 DEF Brings

\* A write to a channel keeps the invariant if it overfills no facet.
LEMMA BringsStep ==
  ASSUME IInv, NEW f \in Facet, NEW v, Brings(f, v), v <= f.size,
         ObjectInv', LoadInv',
         \A d \in Dst : dst'[d].pending = dst[d].pending /\ dst'[d].offset = dst[d].offset,
         \A d \in Dst : \A g \in FacetsBy(d) :
           MadeBy(d, dst'[d], arrival', g) => MadeBy(d, dst[d], arrival, g)
  PROVE  IInv'
<1>0. /\ ObjectInv /\ LoadInv /\ ChannelInv /\ TypeInv /\ HandlerInv /\ AheadInv
      /\ SharingInv /\ FreshInv /\ ClaimOrder
  BY DEF IInv
<1>1. /\ UNCHANGED <<offset, picked, thState, srcSet, source, cone, internalError>>
      /\ v \in Nat /\ chSize[f] <= v
      /\ chSize' = [chSize EXCEPT ![f] = v]
  BY DEF Brings
<1>2. /\ Arrives(arrival, arrival', f)
      /\ arrival' \in [Facet -> Nat] /\ arrived' \in [Chan -> Nat]
      /\ \A g \in Facet : arrival'[g] <= arrived'[Home(g)]
      /\ \A g \in Facet : g # f => arrival'[g] = arrival[g]
      /\ \A g \in Facet : arrival[g] # 0 => arrival'[g] = arrival[g]
      /\ content' = [c \in Chan |-> IF c = Home(f) THEN content[c] \cup {f} ELSE content[c]]
  BY <1>0, BringsArrives
<1>3. /\ chSize' \in [Facet -> Nat] /\ chSize'[f] = v
      /\ \A g \in Facet : g # f => chSize'[g] = chSize[g]
      /\ \A g \in Facet : g.size \in Nat /\ chSize[g] \in Nat /\ chSize[g] <= g.size
      /\ \A g \in Facet : chSize[g] = g.size => chSize'[g] = g.size
  <2>1. /\ chSize \in [Facet -> Nat] /\ \A g \in Facet : chSize[g] <= g.size
    BY <1>0 DEF ChannelInv
  <2>2. \A g \in Facet : g.size \in Nat
    BY HomeType
  <2>3. QED
    BY <1>1, <2>1, <2>2
<1>4. /\ \A g \in Facet : Home(g) \in Chan
      /\ content \in [Chan -> SUBSET Facet]
      /\ \A c \in Chan : content'[c] = IF c = Home(f) THEN content[c] \cup {f} ELSE content[c]
  BY <1>0, <1>2, HomeType DEF ChannelInv
<1>5. ChannelInv'
  <2>1. /\ content' \in [Chan -> SUBSET Facet]
        /\ \A c \in Chan : \A g \in content'[c] : Home(g) = c /\ arrival'[g] # 0
    BY <1>0, <1>2, <1>4 DEF ChannelInv, Arrives
  <2>2. \A g, h \in Facet :
          Home(g) = Home(h) /\ arrival'[g] = arrival'[h] /\ arrival'[g] # 0 => g = h
    <3>1. \A g, h \in Facet :
            Home(g) = Home(h) /\ arrival[g] = arrival[h] /\ arrival[g] # 0 => g = h
      BY <1>0 DEF ChannelInv
    <3>2. CASE arrival[f] # 0
      BY <1>2, <3>1, <3>2
    <3>3. CASE arrival[f] = 0
      <4>1. \A g \in Facet : Home(g) = Home(f) => arrival[g] < arrival'[f] /\ arrival[g] \in Nat
        BY <1>0, <3>3, <1>2 DEF Arrives, ChannelInv
      <4>2. \A g \in Facet : g # f /\ Home(g) = Home(f) => arrival'[g] # arrival'[f]
        BY <1>2, <4>1
      <4>3. QED
        BY <1>2, <3>1, <4>2
    <3>4. QED
      BY <3>2, <3>3
  <2>3. /\ \A g \in Facet : chSize'[g] <= g.size
        /\ \A g \in Facet : arrival'[g] # 0 /\ g \notin content'[Home(g)] => chSize'[g] = g.size
    BY <1>0, <1>2, <1>3, <1>4 DEF ChannelInv
  <2>4. \A g \in picked' : arrival'[g] # 0
    BY <1>0, <1>1, <1>2 DEF ChannelInv
  <2>5. QED
    BY <1>0, <1>1, <1>2, <1>3, <2>1, <2>2, <2>3, <2>4 DEF ChannelInv
<1>6. TypeInv' /\ SharingInv'
  BY <1>0, <1>1 DEF TypeInv, SharingInv
<1>7. ClaimOrder'
  <2> SUFFICES ASSUME NEW g \in picked, Ordered[Home(g)],
                      NEW h \in content'[Home(g)], h \notin picked
               PROVE  arrival'[g] < arrival'[h]
    BY <1>1 DEF ClaimOrder
  <2>1. g \in Facet /\ arrival[g] # 0 /\ arrival'[g] = arrival[g]
    BY <1>0, <1>2 DEF ChannelInv
  <2>2. CASE h \in content[Home(g)]
    <3>1. h \in Facet /\ arrival[h] # 0 /\ arrival'[h] = arrival[h]
      BY <1>0, <1>2, <1>4, <2>1, <2>2 DEF ChannelInv
    <3>2. QED
      BY <1>0, <2>1, <2>2, <3>1 DEF ClaimOrder
  <2>3. CASE h \notin content[Home(g)]
    <3>1. h = f /\ Home(g) = Home(f) /\ f \notin content[Home(f)]
      BY <1>4, <2>1, <2>3
    <3>2. arrival[f] = 0
      BY <3>1 DEF Brings
    <3>3. QED
      BY <1>2, <2>1, <3>1, <3>2 DEF Arrives
  <2>4. QED
    BY <2>2, <2>3
<1>8. HandlerInv'
  <2>1. \A s, p : p \in Facet /\ Whole(s, p) => Whole(s, p)'
    BY <1>3 DEF Whole
  <2>2. \A t \in TH : ConesOf(t) \subseteq Dst
    BY ConesApart
  <2>3. \A t \in TH : Resting(t) => Resting(t)'
    BY <1>1, <2>2 DEF Resting
  <2>4. \A t \in TH : thState[t] # "IDLE" => \A s \in SourcesOf(t) : source[s].facet \in Facet
    BY <1>0 DEF HandlerInv, Reads
  <2>5. QED
    BY <1>0, <1>1, <2>1, <2>3, <2>4 DEF HandlerInv
<1>9. AheadInv'
  <2>1. ASSUME NEW t \in TH, thState[t] # "IDLE", NEW d \in ConesOf(t),
               ~source[SrcOf[d]].done
        PROVE  LET src == source[SrcOf[d]] IN
               /\ \/ chSize'[src.facet] = src.facet.size
                  \/ chSize'[src.facet] >= dst[d].offset
               /\ offset[src.facet] <= dst[d].offset
               /\ dst'[d].offset = dst[d].offset
    <3> DEFINE src == source[SrcOf[d]]
    <3>1. /\ d \in Dst /\ SrcOf[d] \in SourcesOf(t)
          /\ src.facet \in Facet
      BY <1>0, <2>1, ConesApart DEF HandlerInv, Reads
    <3>2. /\ DataAvailable(src, dst[d].offset)
          /\ offset[src.facet] <= dst[d].offset
      BY <1>0, <2>1 DEF AheadInv
    <3>3. dst'[d].offset = dst[d].offset /\ dst[d].offset \in Nat
      BY <1>0, <3>1 DEF ObjectInv, Object
    <3>4. chSize'[src.facet] >= chSize[src.facet] /\ chSize'[src.facet] \in Nat
      BY <1>1, <1>3, <3>1
    <3>5. QED
      BY <1>3, <2>1, <3>1, <3>2, <3>3, <3>4 DEF DataAvailable
  <2>2. QED
    BY <1>1, <2>1 DEF AheadInv, DataAvailable
<1>10. FreshInv'
  <2>1. \A d \in Dst : \A g \in FacetsBy(d) : MadeBy(d, dst'[d], arrival', g) =>
          g.of \in picked /\ Home(g.of) = SrcCh[SrcOf[d]]
    BY <1>0 DEF FreshInv
  <2>2. \A p \in picked : p \in Facet /\ arrival'[p] = arrival[p]
    BY <1>0, <1>2 DEF ChannelInv
  <2>3. \A d \in Dst, p \in picked :
          NewFor(d, dst[d], arrival, p) => NewFor(d, dst'[d], arrival', p)
    BY <2>1, <2>2 DEF NewFor
  <2>4. \A t \in TH : thState[t] # "IDLE" => \A d \in ConesOf(t) :
          d \in Dst /\ source[SrcOf[d]].facet \in picked
    BY <1>0, ConesApart DEF HandlerInv
  <2>5. QED
    BY <1>0, <1>1, <2>1, <2>3, <2>4 DEF FreshInv
<1>11. QED
  BY <1>5, <1>6, <1>7, <1>8, <1>9, <1>10 DEF IInv

\* The back door, before sc_start.
LEMMA BackDoorStep ==
  ASSUME IInv, NEW f \in Seed, BackDoorWrite(f)
  PROVE  IInv'
<1>1. /\ f \in Facet /\ f.by \in Src /\ f.size \in Nat
      /\ \A d \in Dst : f \notin FacetsBy(d)
  BY HomeType, FlowAssumption DEF Seed, FacetsBy
<1>2. chSize[f] \in Nat /\ chSize[f] <= f.size /\ chSize \in [Facet -> Nat]
  BY <1>1 DEF IInv, ChannelInv
<1>3. dst' = dst /\ Brings(f, f.size)
  BY <1>1, <1>2 DEF BackDoorWrite, Brings, thVars
<1>4. Arrives(arrival, arrival', f)
  BY <1>1, <1>3, BringsArrives DEF IInv
<1>5. \A g \in Facet : g # f => chSize'[g] = chSize[g]
  BY <1>2, <1>3 DEF Brings
<1>6. ASSUME NEW d \in Dst
      PROVE  /\ Conserved(d, dst[d], arrival', chSize')
             /\ Queued(d, dst[d], arrival')
             /\ \A g \in FacetsBy(d) : MadeBy(d, dst[d], arrival', g) <=> MadeBy(d, dst[d], arrival, g)
  <2>1. Conserved(d, dst[d], arrival, chSize) /\ Queued(d, dst[d], arrival)
    BY DEF IInv, LoadInv
  <2>2. Sourced(d, dst[d], arrival)
    BY DEF IInv, FreshInv, ChannelInv, Sourced
  <2> DEFINE a2 == arrival'
             s2 == chSize'
  <2>3. Arrives(arrival, a2, f) /\ SameBut(f, chSize, s2)
    BY <1>4, <1>5 DEF SameBut
  <2> HIDE DEF a2, s2
  <2>4. /\ Conserved(d, dst[d], a2, s2)
        /\ Queued(d, dst[d], a2)
        /\ \A g \in FacetsBy(d) : MadeBy(d, dst[d], a2, g) <=> MadeBy(d, dst[d], arrival, g)
    BY <1>1, <2>1, <2>2, <2>3, OthersKeep
  <2>5. QED
    BY <2>4 DEF a2, s2
<1>7. ObjectInv' /\ LoadInv'
  BY <1>3, <1>6 DEF IInv, ObjectInv, LoadInv
<1>8. QED
  BY <1>1, <1>3, <1>6, <1>7, BringsStep

\* UpdatePipeline with a bite that is written.
LEMMA WriteStep ==
  ASSUME IInv, NEW d \in Dst, UpdatePipeline(d), Write(d)
  PROVE  IInv'
<1> DEFINE r == dst[d]
           q == Shift(d, Polled(d, r))
           top == TopBite(d, r)
           h == top.facet
           v == chSize[h] + top.size
<1>0. /\ Object(d, r) /\ Object(d, Polled(d, r)) /\ SameLoad(r, Polled(d, r))
      /\ dst = [e \in Dst |-> dst[e]]
      /\ Object(d, q) /\ Shifted(d, r, q)
  <2>1. Object(d, r) /\ dst = [e \in Dst |-> dst[e]]
    BY DEF IInv, ObjectInv
  <2>2. Object(d, Polled(d, r)) /\ SameLoad(r, Polled(d, r))
    BY <2>1, PolledLoad
  <2>3. Object(d, q) /\ Shifted(d, r, q)
    BY <2>2, ShiftLoad DEF Shifted, SameLoad
  <2>4. QED
    BY <2>1, <2>2, <2>3
<1>1. /\ top # NoBite
      /\ dst' = [dst EXCEPT ![d] = q]
      /\ chSize' = [chSize EXCEPT ![h] = @ + top.size]
      /\ IF h \in content[DstCh[d]] THEN UNCHANGED <<content, arrival, arrived>>
                                    ELSE PushBack(DstCh[d], h)
      /\ UNCHANGED <<offset, picked, thState, srcSet, source, cone, internalError>>
  BY DEF Write, UpdatePipeline, thVars
<1> HIDE DEF q
<1>2. /\ Stages[d] \in Nat \ {0} /\ Stages[d] \in 1 .. Stages[d]
  BY DestinationAssumption
<1>3. /\ top \in BiteOf(d) /\ h \in FacetsBy(d) /\ top.size \in Nat \ {0}
      /\ h \in Facet /\ Home(h) = DstCh[d]
      /\ Stages[d] \in Places(d, r, h)
  <2>1. top \in BiteOf(d)
    BY <1>0, <1>1, <1>2 DEF TopBite, Object
  <2>2. h \in FacetsBy(d) /\ top.size \in Nat \ {0} /\ h \in Facet /\ Home(h) = DstCh[d]
    BY <2>1 DEF BiteOf, FacetsBy, Home
  <2>3. Stages[d] \in Places(d, r, h)
    BY <1>1, <1>2 DEF Places, BiteAt, TopBite
  <2>4. QED
    BY <2>1, <2>2, <2>3
<1>4. /\ Conserved(d, r, arrival, chSize) /\ Queued(d, r, arrival)
      /\ chSize \in [Facet -> Nat] /\ arrival \in [Facet -> Nat]
      /\ \A e \in Dst : Sourced(e, dst[e], arrival)
  BY DEF IInv, LoadInv, ChannelInv, FreshInv, Sourced
<1>5. chSize[h] # h.size
  <2> HIDE DEF r, h
  <2>1. QED
    BY <1>0, <1>3, <1>4, SentBound
<1>6. Brings(h, v)
  <2>1. h \notin content[Home(h)] => arrival[h] = 0
    BY <1>3, <1>5 DEF IInv, ChannelInv
  <2>2. chSize[h] \in Nat /\ v \in Nat /\ chSize[h] <= v
    BY <1>3, <1>4
  <2> HIDE DEF h, r, top
  <2>3. chSize' = [chSize EXCEPT ![h] = v]
    BY <1>1
  <2>4. QED
    BY <1>1, <1>3, <2>1, <2>2, <2>3 DEF Brings
<1>7. Arrives(arrival, arrival', h)
  BY <1>3, <1>6, BringsArrives DEF IInv
<1>8. /\ Conserved(d, q, arrival', chSize')
      /\ Queued(d, q, arrival')
      /\ \A f \in FacetsBy(d) : MadeBy(d, q, arrival', f) <=> MadeBy(d, r, arrival, f)
  <2>1. Sourced(d, r, arrival)
    BY <1>4
  <2> DEFINE a2 == arrival'
             s2 == chSize'
  <2>2. /\ Arrives(arrival, a2, TopBite(d, r).facet)
        /\ Adds(TopBite(d, r), chSize, s2)
        /\ TopBite(d, r) # NoBite
    BY <1>1, <1>7 DEF Adds
  <2> HIDE DEF r, a2, s2, h, top, v
  <2>3. /\ Conserved(d, q, a2, s2)
        /\ Queued(d, q, a2)
        /\ \A f \in FacetsBy(d) : MadeBy(d, q, a2, f) <=> MadeBy(d, r, arrival, f)
    BY <1>0, <1>4, <2>1, <2>2, WriteKeeps
  <2>4. QED
    BY <2>3 DEF a2, s2
<1>9. ASSUME NEW e \in Dst, e # d
      PROVE  /\ Conserved(e, dst[e], arrival', chSize')
             /\ Queued(e, dst[e], arrival')
             /\ \A f \in FacetsBy(e) : MadeBy(e, dst[e], arrival', f) <=> MadeBy(e, dst[e], arrival, f)
  <2>1. Conserved(e, dst[e], arrival, chSize) /\ Queued(e, dst[e], arrival)
    BY DEF IInv, LoadInv
  <2>2. h \notin FacetsBy(e)
    BY <1>3, <1>9 DEF FacetsBy
  <2>3. SameBut(h, chSize, chSize')
    BY <1>1, <1>4 DEF SameBut
  <2>4. Sourced(e, dst[e], arrival)
    BY <1>4
  <2> DEFINE a2 == arrival'
             s2 == chSize'
  <2>5. Arrives(arrival, a2, h) /\ SameBut(h, chSize, s2)
    BY <1>7, <2>3
  <2> HIDE DEF h, r, top, v, a2, s2
  <2>6. /\ Conserved(e, dst[e], a2, s2)
        /\ Queued(e, dst[e], a2)
        /\ \A f \in FacetsBy(e) : MadeBy(e, dst[e], a2, f) <=> MadeBy(e, dst[e], arrival, f)
    BY <1>3, <2>1, <2>2, <2>4, <2>5, OthersKeep
  <2>7. QED
    BY <2>6 DEF a2, s2
<1>10. /\ dst' = [e \in Dst |-> dst'[e]] /\ dst'[d] = q
       /\ \A e \in Dst : e # d => dst'[e] = dst[e]
  BY <1>0, <1>1
<1>11. ObjectInv' /\ LoadInv'
  <2>1. ObjectInv'
    BY <1>0, <1>10 DEF IInv, ObjectInv
  <2>2. LoadInv'
    BY <1>8, <1>9, <1>10 DEF LoadInv
  <2>3. QED
    BY <2>1, <2>2
<1>12. v <= h.size
  <2>1. chSize'[h] = v /\ chSize' \in [Facet -> Nat]
    BY <1>3, <1>4, <1>6 DEF Brings
  <2> HIDE DEF h, r, v, top
  <2>2. chSize'[h] <= h.size
    BY <1>0, <1>3, <1>8, <2>1, SentBound
  <2>3. QED
    BY <2>1, <2>2
<1>13. \A e \in Dst : dst'[e].pending = dst[e].pending /\ dst'[e].offset = dst[e].offset
  BY <1>0, <1>10 DEF Shifted
<1>14. \A e \in Dst : \A f \in FacetsBy(e) :
         MadeBy(e, dst'[e], arrival', f) => MadeBy(e, dst[e], arrival, f)
  BY <1>8, <1>9, <1>10
<1>15. QED
  <2> HIDE DEF h, r, v, top
  <2>1. QED
    BY <1>3, <1>6, <1>11, <1>12, <1>13, <1>14, BringsStep

-----------------------------------------------------------------------------
\* A handler that has taken packets, or takes them now.

\* The packets that are claimed once t has taken its own.
Claims(t, mode) ==
  IF Takes(t, mode) THEN picked \cup {PickUp(t, s) : s \in SourcesOf(t)} ELSE picked

\* The object of d when the cone begins its call.
Base(t, mode, d) == IF Takes(t, mode) THEN ResetOffset(dst[d]) ELSE dst[d]

\* Source s of t has a packet that it may read and that no other working handler has.
EngagedSource(t, mode, s) ==
  LET p == Now(t, mode, s).facet
  IN /\ Now(t, mode, s) \in [facet : Facet, done : BOOLEAN]
     /\ Reads(s, p) /\ Whole(s, p) /\ p \in Claims(t, mode)
     /\ \A u \in TH : u # t /\ thState[u] # "IDLE" =>
          \A r \in SourcesOf(u) : source[r].facet # p

\* The cone of d begins its call in a state that fits its source.
EngagedCone(t, mode, d) ==
  LET r == Base(t, mode, d)
      src == Now(t, mode, SrcOf[d])
  IN /\ Object(d, r)
     /\ SameQueue(dst[d], r)
     /\ Was(t, mode, d) \in {"IDLE", "LOCK_SRC", "STREAMING", "DONE"}
     /\ Was(t, mode, d) = "STREAMING" => r.pending # <<>>
     /\ ~src.done => DataAvailable(src, r.offset) /\ offset[src.facet] <= r.offset
     /\ Was(t, mode, d) \in {"IDLE", "LOCK_SRC"} => NewFor(d, r, arrival, src.facet)

\* What is claimed has arrived, and in an ordered channel before all that is not.
EngagedClaims(t, mode) ==
  /\ Claims(t, mode) \in SUBSET Facet
  /\ picked \subseteq Claims(t, mode)
  /\ \A f \in Claims(t, mode) : arrival[f] # 0
  /\ \A f \in Claims(t, mode) : Ordered[Home(f)] =>
       \A g \in content[Home(f)] \ Claims(t, mode) : arrival[f] < arrival[g]

\* Handler t is about to work on one packet for each of its sources.
Engaged(t, mode) ==
  /\ \A s \in SourcesOf(t) : EngagedSource(t, mode, s)
  /\ \A d \in ConesOf(t) : EngagedCone(t, mode, d)
  /\ EngagedClaims(t, mode)
  /\ Working(t, mode) = SourcesOf(t)

\* A handler that is not idle is engaged.
LEMMA BusyEngaged ==
  ASSUME IInv, NEW t \in TH, NEW mode, thState[t] # "IDLE"
  PROVE  Engaged(t, mode)
<1>0. /\ ObjectInv /\ LoadInv /\ ChannelInv /\ TypeInv /\ HandlerInv /\ AheadInv
      /\ SharingInv /\ FreshInv /\ ClaimOrder
  BY DEF IInv
<1>1. /\ ~Takes(t, mode) /\ Claims(t, mode) = picked
      /\ \A s : Now(t, mode, s) = source[s]
      /\ \A d : Base(t, mode, d) = dst[d] /\ Was(t, mode, d) = cone[d]
      /\ Working(t, mode) = SourcesOf(t)
  BY <1>0 DEF Takes, Claims, Now, Base, Was, Working, HandlerInv
<1>2. ASSUME NEW s \in SourcesOf(t)
      PROVE  EngagedSource(t, mode, s)
  <2>1. source[s] \in [facet : Facet \cup {None}, done : BOOLEAN]
    BY <1>0, SourceOnIs DEF TypeInv
  <2>2. s \in srcSet[t] /\ source[s].facet \in picked /\ Whole(s, source[s].facet)
    BY <1>0 DEF HandlerInv
  <2>3. Reads(s, source[s].facet)
    BY <1>0, <2>2 DEF HandlerInv
  <2>4. source[s] \in [facet : Facet, done : BOOLEAN]
    BY <2>1, <2>3 DEF Reads
  <2>5. QED
    BY <1>0, <1>1, <2>2, <2>3, <2>4 DEF EngagedSource, SharingInv
<1>3. ASSUME NEW d \in ConesOf(t)
      PROVE  EngagedCone(t, mode, d)
  <2>1. d \in Dst
    BY ConesApart
  <2>2. Object(d, dst[d]) /\ SameQueue(dst[d], dst[d])
    BY <1>0, <2>1 DEF ObjectInv, SameQueue
  <2>3. /\ cone[d] \in {"IDLE", "LOCK_SRC", "STREAMING", "DONE"}
        /\ cone[d] = "STREAMING" => dst[d].pending # <<>>
    BY <1>0, <2>1 DEF TypeInv, HandlerInv
  <2>4. LET src == source[SrcOf[d]] IN
          ~src.done => DataAvailable(src, dst[d].offset) /\ offset[src.facet] <= dst[d].offset
    BY <1>0 DEF AheadInv
  <2>5. cone[d] \in {"IDLE", "LOCK_SRC"} => NewFor(d, dst[d], arrival, source[SrcOf[d]].facet)
    BY <1>0 DEF FreshInv
  <2>6. QED
    BY <1>1, <2>2, <2>3, <2>4, <2>5 DEF EngagedCone
<1>4. EngagedClaims(t, mode)
  BY <1>0, <1>1 DEF EngagedClaims, ChannelInv, ClaimOrder
<1>5. QED
  BY <1>1, <1>2, <1>3, <1>4 DEF Engaged

\* So is one that is idle, asked, and finds a packet for every source.
LEMMA TakingEngaged ==
  ASSUME IInv, NEW t \in TH, NEW mode, Takes(t, mode), Missing(t) = {}
  PROVE  Engaged(t, mode)
<1>0. /\ ObjectInv /\ LoadInv /\ ChannelInv /\ TypeInv /\ HandlerInv /\ AheadInv
      /\ SharingInv /\ FreshInv /\ ClaimOrder
  BY DEF IInv
<1>1. /\ Claims(t, mode) = picked \cup {PickUp(t, s) : s \in SourcesOf(t)}
      /\ \A s : Now(t, mode, s) = [facet |-> PickUp(t, s), done |-> FALSE]
      /\ \A d : Base(t, mode, d) = ResetOffset(dst[d]) /\ Was(t, mode, d) = "IDLE"
      /\ Working(t, mode) = SourcesOf(t)
  BY DEF Claims, Now, Has, Base, Was, Working
<1>2. \A s \in SourcesOf(t) :
        LET p == PickUp(t, s) IN
        /\ SrcCh[s] \in Chan
        /\ p \in content[SrcCh[s]] /\ p \notin picked
        /\ Reads(s, p) /\ Whole(s, p)
        /\ arrival[p] # 0 /\ offset[p] = 0
        /\ Ordered[SrcCh[s]] => \A g \in content[SrcCh[s]] : g # p => arrival[p] < arrival[g]
  BY <1>0, AskedAll, PickUpFacts, SourceOnIs
<1>3. ASSUME NEW s \in SourcesOf(t)
      PROVE  EngagedSource(t, mode, s)
  <2> DEFINE p == PickUp(t, s)
  <2>1. Reads(s, p) /\ Whole(s, p) /\ p \notin picked /\ p \in Claims(t, mode)
    BY <1>1, <1>2
  <2>2. \A u \in TH : thState[u] # "IDLE" => \A r \in SourcesOf(u) : source[r].facet \in picked
    BY <1>0 DEF HandlerInv
  <2> HIDE DEF p
  <2>3. \A u \in TH : u # t /\ thState[u] # "IDLE" =>
          \A r \in SourcesOf(u) : source[r].facet # p
    BY <2>1, <2>2
  <2>4. Now(t, mode, s) = [facet |-> p, done |-> FALSE]
    BY <1>1 DEF p
  <2>5. p \in Facet
    BY <2>1 DEF Reads
  <2>6. QED
    BY <2>1, <2>3, <2>4, <2>5 DEF EngagedSource
<1>4. ASSUME NEW d \in ConesOf(t)
      PROVE  EngagedCone(t, mode, d)
  <2> DEFINE r == ResetOffset(dst[d])
             p == PickUp(t, SrcOf[d])
  <2>1. d \in Dst /\ SrcOf[d] \in SourcesOf(t)
    BY ConesApart
  <2>2. Object(d, dst[d])
    BY <1>0, <2>1 DEF ObjectInv
  <2>3. Object(d, r) /\ r.offset = 0 /\ SameQueue(dst[d], r)
    BY <2>1, <2>2, ResetLoad DEF SameQueue
  <2>4. /\ p \in content[SrcCh[SrcOf[d]]] /\ p \notin picked
        /\ p \in Facet /\ Home(p) = SrcCh[SrcOf[d]]
        /\ arrival[p] # 0 /\ offset[p] = 0
    BY <1>2, <2>1 DEF Reads
  <2> HIDE DEF r, p
  <2>5. DataAvailable([facet |-> p, done |-> FALSE], 0)
    BY <1>0, <2>4 DEF DataAvailable, ChannelInv
  <2>6. NewFor(d, r, arrival, p)
    <3> SUFFICES ASSUME NEW f \in FacetsBy(d), MadeBy(d, r, arrival, f)
                 PROVE  f.of # p /\ (Ordered[Home(f.of)] => arrival[f.of] < arrival[p])
      BY DEF NewFor
    <3>1. MadeBy(d, dst[d], arrival, f)
      BY <2>3, SameKeeps
    <3>2. f.of \in picked /\ Home(f.of) = SrcCh[SrcOf[d]]
      BY <1>0, <2>1, <3>1 DEF FreshInv
    <3>3. QED
      BY <1>0, <2>4, <3>2 DEF ClaimOrder
  <2>7. Now(t, mode, SrcOf[d]) = [facet |-> p, done |-> FALSE] /\ Base(t, mode, d) = r
    BY <1>1 DEF r, p
  <2>8. QED
    BY <1>1, <2>3, <2>4, <2>5, <2>6, <2>7 DEF EngagedCone
<1>5. EngagedClaims(t, mode)
  <2>1. \A s \in SourcesOf(t) : PickUp(t, s) \in Facet /\ arrival[PickUp(t, s)] # 0
                               /\ Home(PickUp(t, s)) = SrcCh[s]
    BY <1>2 DEF Reads
  <2>2. Claims(t, mode) \in SUBSET Facet /\ \A f \in Claims(t, mode) : arrival[f] # 0
    BY <1>0, <1>1, <2>1 DEF ChannelInv
  <2>3. ASSUME NEW f \in Claims(t, mode), Ordered[Home(f)],
               NEW g \in content[Home(f)] \ Claims(t, mode)
        PROVE  arrival[f] < arrival[g]
    <3>1. CASE f \in picked
      BY <1>0, <1>1, <2>3, <3>1 DEF ClaimOrder
    <3>2. ASSUME NEW s \in SourcesOf(t), f = PickUp(t, s)
          PROVE  arrival[f] < arrival[g]
      <4>1. g # f
        BY <2>3
      <4>2. QED
        BY <1>2, <2>1, <2>3, <3>2, <4>1
    <3>3. QED
      BY <1>1, <3>1, <3>2
  <2>4. QED
    BY <1>1, <2>2, <2>3 DEF EngagedClaims
<1>6. QED
  BY <1>1, <1>3, <1>4, <1>5 DEF Engaged

-----------------------------------------------------------------------------
\* What a call on handler t does to the other handlers: nothing.

\* What belongs to the other handlers stays as it is.
OthersRest(t) ==
  /\ UNCHANGED <<arrival, arrived, chSize>>
  /\ \A u \in TH : u # t => thState'[u] = thState[u] /\ srcSet'[u] = srcSet[u]
  /\ \A s \in Src : s \notin SourcesOf(t) => source'[s] = source[s]
  /\ \A d \in Dst : d \notin ConesOf(t) => cone'[d] = cone[d] /\ dst'[d] = dst[d]

\* What it does to the cone of d, ...
ConeStep(t, mode, d) ==
  LET q == dst'[d]
      src == source'[SrcOf[d]]
      p == Now(t, mode, SrcOf[d]).facet
  IN /\ Object(d, q)
     /\ Conserved(d, q, arrival, chSize) /\ Queued(d, q, arrival)
     /\ \A f \in FacetsBy(d) : MadeBy(d, q, arrival, f) => MadeBy(d, dst[d], arrival, f) \/ f.of = p
     /\ cone'[d] = "STREAMING" => q.pending # <<>>
     /\ cone'[d] \in {"IDLE", "LOCK_SRC"} => NewFor(d, q, arrival, p)
     /\ thState'[t] # "IDLE" /\ ~src.done =>
          /\ chSize[p] = p.size \/ chSize[p] >= q.offset
          /\ offset'[p] <= q.offset

\* ... and to the channels it reads.
ChannelStep(t, mode) ==
  /\ picked' = Claims(t, mode)
  /\ offset' \in [Facet -> Nat]
  /\ \A f \in Facet : offset'[f] = offset[f] \/ \E s \in SourcesOf(t) : f = Now(t, mode, s).facet
  /\ content' \in [Chan -> SUBSET Facet]
  /\ \A c \in Chan : /\ content'[c] \subseteq content[c]
                     /\ \A f \in content[c] \ content'[c] : chSize[f] = f.size

\* The sources keep their packets; a handler that becomes idle has finished all its cones
\* and, unless the program has stopped with an error, all its sources.
SourceStep(t, mode) ==
  /\ srcSet'[t] = SourcesOf(t)
  /\ \A s \in SourcesOf(t) : source'[s].facet = Now(t, mode, s).facet
  /\ thState'[t] = "IDLE" => /\ \A d \in ConesOf(t) : cone'[d] = "DONE"
                             /\ internalError' \/ \A s \in SourcesOf(t) : source'[s].done

\* A call keeps what is known of the channels.
LEMMA CallChannel ==
  ASSUME IInv, NEW t \in TH, NEW mode, Engaged(t, mode), OthersRest(t), ChannelStep(t, mode)
  PROVE  ChannelInv' /\ ClaimOrder'
<1>0. ChannelInv /\ EngagedClaims(t, mode)
  BY DEF IInv, Engaged
<1>1. \A s \in SourcesOf(t) : Now(t, mode, s).facet \in Claims(t, mode)
  BY DEF Engaged, EngagedSource
<1>2. UNCHANGED <<arrival, arrived, chSize>>
  BY DEF OthersRest
<1>3. /\ picked' \in SUBSET Facet /\ \A f \in picked' : arrival[f] # 0
      /\ \A f \in Facet : f \notin picked' => offset'[f] = 0
  BY <1>0, <1>1 DEF EngagedClaims, ChannelStep, ChannelInv
<1>4. \A c \in Chan : \A f \in content'[c] : Home(f) = c /\ arrival[f] # 0
  BY <1>0 DEF ChannelStep, ChannelInv
<1>5. \A f \in Facet : arrival[f] # 0 /\ f \notin content'[Home(f)] => chSize[f] = f.size
  BY <1>0, HomeType DEF ChannelStep, ChannelInv
<1>6. ChannelInv'
  BY <1>0, <1>2, <1>3, <1>4, <1>5 DEF ChannelInv, ChannelStep
<1>7. ClaimOrder'
  BY <1>0, <1>2, HomeType DEF EngagedClaims, ChannelStep, ClaimOrder
<1>8. QED
  BY <1>6, <1>7

\* It keeps the count and the order of every destination.
LEMMA CallLoad ==
  ASSUME IInv, NEW t \in TH, NEW mode, Engaged(t, mode), OthersRest(t), ChannelStep(t, mode),
         TypeInv', dst' = [d \in Dst |-> dst'[d]], SourceStep(t, mode),
         \A d \in ConesOf(t) : ConeStep(t, mode, d)
  PROVE  ObjectInv' /\ LoadInv' /\ FreshInv'
<1>0. ObjectInv /\ LoadInv /\ FreshInv /\ EngagedClaims(t, mode)
  BY DEF IInv, Engaged
<1>1. /\ \A d \in ConesOf(t) : Object(d, dst'[d])
      /\ \A d \in Dst : d \notin ConesOf(t) => dst'[d] = dst[d]
      /\ UNCHANGED <<arrival, chSize>>
  BY DEF ConeStep, OthersRest
<1>2. ObjectInv'
  BY <1>0, <1>1 DEF ObjectInv
<1>3. LoadInv'
  <2>1. \A d \in ConesOf(t) : Conserved(d, dst'[d], arrival, chSize) /\ Queued(d, dst'[d], arrival)
    BY DEF ConeStep
  <2>2. QED
    BY <1>0, <1>1, <2>1 DEF LoadInv
<1>4. picked' = Claims(t, mode) /\ picked \subseteq picked'
  BY <1>0 DEF ChannelStep, EngagedClaims
<1>5. ASSUME NEW d \in Dst, NEW f \in FacetsBy(d), MadeBy(d, dst'[d], arrival, f)
      PROVE  f.of \in picked' /\ Home(f.of) = SrcCh[SrcOf[d]]
  <2>1. CASE MadeBy(d, dst[d], arrival, f)
    BY <1>0, <1>4, <2>1 DEF FreshInv
  <2>2. CASE ~MadeBy(d, dst[d], arrival, f)
    <3>1. d \in ConesOf(t)
      BY <1>1, <1>5, <2>2
    <3>2. f.of = Now(t, mode, SrcOf[d]).facet
      BY <1>5, <2>2, <3>1 DEF ConeStep
    <3>3. EngagedSource(t, mode, SrcOf[d])
      BY <3>1, ConesApart DEF Engaged
    <3>4. QED
      BY <1>4, <3>2, <3>3 DEF EngagedSource, Reads
  <2>3. QED
    BY <2>1, <2>2
<1>6. ASSUME NEW u \in TH, thState'[u] # "IDLE", NEW d \in ConesOf(u),
             cone'[d] \in {"IDLE", "LOCK_SRC"}
      PROVE  NewFor(d, dst'[d], arrival, source'[SrcOf[d]].facet)
  <2>1. d \in Dst /\ SrcOf[d] \in SourcesOf(u)
    BY ConesApart
  <2>2. CASE u = t
    <3>1. NewFor(d, dst'[d], arrival, Now(t, mode, SrcOf[d]).facet)
      BY <1>6, <2>2 DEF ConeStep
    <3>2. QED
      BY <2>1, <2>2, <3>1 DEF SourceStep
  <2>3. CASE u # t
    <3>1. d \notin ConesOf(t) /\ SrcOf[d] \notin SourcesOf(t) /\ SrcOf[d] \in Src
      BY <2>1, <2>3, ConesApart, SourceOnIs
    <3>2. /\ thState'[u] = thState[u] /\ source'[SrcOf[d]] = source[SrcOf[d]]
          /\ cone'[d] = cone[d] /\ dst'[d] = dst[d]
      BY <2>1, <2>3, <3>1 DEF OthersRest
    <3>3. QED
      BY <1>0, <1>6, <3>2 DEF FreshInv
  <2>4. QED
    BY <2>2, <2>3
<1>7. FreshInv'
  BY <1>1, <1>5, <1>6 DEF FreshInv
<1>8. QED
  BY <1>2, <1>3, <1>7

\* It keeps what is known of the handlers and their sources.
LEMMA CallHandler ==
  ASSUME IInv, NEW t \in TH, NEW mode, Engaged(t, mode), OthersRest(t), ChannelStep(t, mode),
         TypeInv', SourceStep(t, mode), \A d \in ConesOf(t) : ConeStep(t, mode, d),
         internalError => internalError'
  PROVE  HandlerInv' /\ AheadInv' /\ SharingInv'
<1>0. HandlerInv /\ AheadInv /\ SharingInv /\ EngagedClaims(t, mode)
  BY DEF IInv, Engaged
<1>1. \A s \in SourcesOf(t) :
        /\ EngagedSource(t, mode, s)
        /\ source'[s].facet = Now(t, mode, s).facet
  BY DEF Engaged, SourceStep
<1>2. picked' = Claims(t, mode) /\ picked \subseteq picked' /\ UNCHANGED chSize
  BY <1>0 DEF ChannelStep, EngagedClaims, OthersRest
<1>3. ASSUME NEW u \in TH, u # t
      PROVE  /\ thState'[u] = thState[u] /\ srcSet'[u] = srcSet[u]
             /\ \A s \in SourcesOf(u) : source'[s] = source[s]
             /\ \A d \in ConesOf(u) : d \in Dst /\ cone'[d] = cone[d] /\ dst'[d] = dst[d]
  BY <1>3, ConesApart, SourceOnIs DEF OthersRest
<1>4. HandlerInv'
  <2>1. ASSUME NEW u \in TH, NEW s \in srcSet'[u]
        PROVE  s \in SourcesOf(u) /\ Reads(s, source'[s].facet)
    <3>1. CASE u = t
      BY <1>1, <2>1, <3>1 DEF SourceStep, EngagedSource
    <3>2. CASE u # t
      BY <1>0, <1>3, <2>1, <3>2 DEF HandlerInv
    <3>3. QED
      BY <3>1, <3>2
  <2>2. ASSUME NEW u \in TH, thState'[u] # "IDLE"
        PROVE  /\ srcSet'[u] = SourcesOf(u)
               /\ \A s \in SourcesOf(u) :
                    source'[s].facet \in picked' /\ Whole(s, source'[s].facet)
    <3>1. CASE u = t
      BY <1>1, <1>2, <3>1 DEF SourceStep, EngagedSource
    <3>2. CASE u # t
      BY <1>0, <1>2, <1>3, <2>2, <3>2 DEF HandlerInv
    <3>3. QED
      BY <3>1, <3>2
  <2>3. ASSUME NEW u \in TH, thState'[u] = "IDLE"
        PROVE  /\ \A d \in ConesOf(u) : cone'[d] \in {"IDLE", "DONE"}
               /\ \/ internalError'
                  \/ \A s \in srcSet'[u] : source'[s].done
                  \/ \A d \in ConesOf(u) : cone'[d] = "IDLE" /\ dst'[d].offset = 0
    <3>1. CASE u = t
      BY <2>3, <3>1 DEF SourceStep
    <3>2. CASE u # t
      <4>1. \A s \in srcSet[u] : s \in SourcesOf(u)
        BY <1>0 DEF HandlerInv
      <4>2. QED
        BY <1>0, <1>3, <2>3, <3>2, <4>1 DEF HandlerInv, Resting
    <3>3. QED
      BY <3>1, <3>2
  <2>4. \A d \in Dst : cone'[d] = "STREAMING" => dst'[d].pending # <<>>
    BY <1>0 DEF HandlerInv, ConeStep, OthersRest
  <2>5. QED
    BY <1>2, <2>1, <2>2, <2>3, <2>4 DEF HandlerInv, Resting, Whole
<1>5. SharingInv'
  <2>1. ASSUME NEW u \in TH, u # t, thState'[u] # "IDLE", NEW r \in SourcesOf(u),
               NEW s \in SourcesOf(t)
        PROVE  source'[r].facet # source'[s].facet
    BY <1>1, <1>3, <2>1 DEF EngagedSource
  <2>2. ASSUME NEW u \in TH, NEW v \in TH, u # v, thState'[u] # "IDLE", thState'[v] # "IDLE",
               NEW r \in SourcesOf(u), NEW s \in SourcesOf(v), u # t, v # t
        PROVE  source'[r].facet # source'[s].facet
    BY <1>0, <1>3, <2>2 DEF SharingInv
  <2>3. QED
    BY <2>1, <2>2 DEF SharingInv
<1>6. AheadInv'
  <2> SUFFICES ASSUME NEW u \in TH, thState'[u] # "IDLE", NEW d \in ConesOf(u),
                      ~source'[SrcOf[d]].done
               PROVE  LET p == source'[SrcOf[d]].facet IN
                      /\ chSize[p] = p.size \/ chSize[p] >= dst'[d].offset
                      /\ offset'[p] <= dst'[d].offset
    BY <1>2 DEF AheadInv, DataAvailable
  <2>1. SrcOf[d] \in SourcesOf(u)
    BY ConesApart
  <2>2. CASE u = t
    BY <1>1, <2>1, <2>2 DEF ConeStep
  <2>3. CASE u # t
    <3> DEFINE p == source[SrcOf[d]].facet
    <3>1. /\ thState[u] # "IDLE" /\ source'[SrcOf[d]] = source[SrcOf[d]] /\ dst'[d] = dst[d]
      BY <1>3, <2>1, <2>3
    <3>2. p \in Facet
      BY <1>0, <2>1, <3>1 DEF HandlerInv, Reads
    <3>3. offset'[p] = offset[p]
      <4>1. \A s \in SourcesOf(t) : p # Now(t, mode, s).facet
        BY <1>1, <2>1, <2>3, <3>1 DEF EngagedSource
      <4>2. QED
        BY <3>2, <4>1 DEF ChannelStep
    <3>4. QED
      BY <1>0, <3>1, <3>3 DEF AheadInv, DataAvailable
  <2>4. QED
    BY <2>2, <2>3
<1>7. QED
  BY <1>4, <1>5, <1>6

\* So a call with these effects keeps the invariant.
LEMMA CallStep ==
  ASSUME IInv, NEW t \in TH, NEW mode, Engaged(t, mode), OthersRest(t), ChannelStep(t, mode),
         TypeInv', dst' = [d \in Dst |-> dst'[d]], SourceStep(t, mode),
         \A d \in ConesOf(t) : ConeStep(t, mode, d),
         internalError => internalError'
  PROVE  IInv'
BY CallChannel, CallLoad, CallHandler DEF IInv

-----------------------------------------------------------------------------
\* IsReady of an idle handler, and Starve.

\* Asking the sources sets the offsets of the cones back and changes no queue.
LEMMA PollQueue ==
  ASSUME IInv, NEW t \in TH, Poll(t), UNCHANGED <<arrival, chSize>>
  PROVE  /\ ObjectInv' /\ LoadInv'
         /\ \A d \in Dst : \A f : MadeBy(d, dst'[d], arrival', f) <=> MadeBy(d, dst[d], arrival, f)
         /\ dst' = [d \in Dst |-> dst'[d]]
         /\ \A d \in ConesOf(t) : dst'[d] = ResetOffset(dst[d]) /\ dst'[d].offset = 0
         /\ \A d \in Dst : d \notin ConesOf(t) => dst'[d] = dst[d]
<1>0. ObjectInv /\ LoadInv /\ ConesOf(t) \subseteq Dst
  BY ConesApart DEF IInv
<1>1. /\ dst' = [d \in Dst |-> dst'[d]]
      /\ \A d \in ConesOf(t) : dst'[d] = ResetOffset(dst[d])
      /\ \A d \in Dst : d \notin ConesOf(t) => dst'[d] = dst[d]
  BY <1>0 DEF Poll
<1>2. \A d \in Dst : Object(d, dst[d])
  BY <1>0 DEF ObjectInv
<1>3. \A d \in ConesOf(t) :
        Object(d, dst'[d]) /\ SameQueue(dst[d], dst'[d]) /\ dst'[d].offset = 0
  BY <1>0, <1>1, <1>2, ResetLoad DEF SameQueue
<1>4. \A d \in Dst : Object(d, dst'[d]) /\ SameQueue(dst[d], dst'[d])
  BY <1>1, <1>2, <1>3 DEF SameQueue
<1>5. QED
  BY <1>0, <1>1, <1>3, <1>4, QueueStep

\* Asking the sources of t leaves the other handlers alone.
LEMMA PollOthers ==
  ASSUME NEW t \in TH, Poll(t), TypeInv, UNCHANGED <<arrival, arrived, chSize>>,
         \A u \in TH : u # t => thState'[u] = thState[u]
  PROVE  OthersRest(t)
BY ConesApart, AskedSome DEF OthersRest, Poll, TypeInv

\* Asking the sources leaves every state a state.
LEMMA PollType ==
  ASSUME NEW t \in TH, Poll(t), TypeInv, ChannelInv, UNCHANGED internalError,
         thState' \in [TH -> {"IDLE", "READY", "BUSY"}]
  PROVE  TypeInv'
<1>1. \A s \in SourcesOf(t) : s \in Src /\ (PickUp(t, s) # None => PickUp(t, s) \in Facet)
  BY PickUpFacts, SourceOnIs DEF Reads
<1>2. srcSet' \in [TH -> SUBSET Src]
  BY <1>1, AskedSome DEF Poll, TypeInv
<1>3. \A s \in Asked(t) : Has(t, s) \in [facet : Facet \cup {None}, done : BOOLEAN]
  BY <1>1, AskedSome DEF Has
<1>4. source' \in [Src -> [facet : Facet \cup {None}, done : BOOLEAN]]
  BY <1>3 DEF Poll, TypeInv
<1>5. cone' \in [Dst -> {"IDLE", "LOCK_SRC", "STREAMING", "DONE"}]
  BY DEF Poll, TypeInv
<1>6. QED
  BY <1>2, <1>4, <1>5 DEF TypeInv

\* An idle handler that asks and is not ready keeps the invariant.
LEMMA PollOnly ==
  ASSUME IInv, NEW t \in TH, thState[t] = "IDLE", Poll(t),
         UNCHANGED <<content, arrival, arrived, chSize, offset, picked, thState, internalError>>
  PROVE  IInv'
<1>0. /\ ChannelInv /\ TypeInv /\ HandlerInv /\ AheadInv /\ SharingInv /\ FreshInv /\ ClaimOrder
  BY DEF IInv
<1>1. /\ ObjectInv' /\ LoadInv'
      /\ \A d \in Dst : \A f : MadeBy(d, dst'[d], arrival', f) <=> MadeBy(d, dst[d], arrival, f)
      /\ \A d \in ConesOf(t) : d \in Dst /\ dst'[d].offset = 0 /\ cone'[d] = "IDLE"
      /\ \A d \in Dst : d \notin ConesOf(t) => dst'[d] = dst[d]
  BY PollQueue, ConesApart DEF Poll
<1>2. ChannelInv' /\ ClaimOrder' /\ TypeInv'
  BY <1>0, PollType DEF ChannelInv, ClaimOrder, TypeInv
<1>3. ASSUME NEW u \in TH, u # t
      PROVE  /\ thState'[u] = thState[u] /\ srcSet'[u] = srcSet[u]
             /\ \A s \in SourcesOf(u) : source'[s] = source[s]
             /\ \A d \in ConesOf(u) : d \in Dst /\ cone'[d] = cone[d] /\ dst'[d] = dst[d]
  <2>1. OthersRest(t)
    BY <1>0, PollOthers
  <2>2. QED
    BY <1>3, <2>1, ConesApart, SourceOnIs DEF OthersRest
<1>4. HandlerInv'
  <2>1. ASSUME NEW u \in TH, NEW s \in srcSet'[u]
        PROVE  s \in SourcesOf(u) /\ Reads(s, source'[s].facet)
    <3>1. CASE u = t
      <4>1. srcSet'[t] = {r \in Asked(t) : PickUp(t, r) # None}
        BY <1>0 DEF Poll, TypeInv
      <4>2. s \in Asked(t) /\ s \in SourcesOf(t) /\ s \in Src /\ PickUp(t, s) # None
        BY <2>1, <3>1, <4>1, AskedSome, SourceOnIs
      <4>3. source'[s].facet = PickUp(t, s)
        BY <4>2 DEF Poll, Has
      <4>4. QED
        BY <1>0, <3>1, <4>2, <4>3, PickUpFacts
    <3>2. CASE u # t
      BY <1>0, <1>3, <2>1, <3>2 DEF HandlerInv
    <3>3. QED
      BY <3>1, <3>2
  <2>2. ASSUME NEW u \in TH, thState'[u] # "IDLE"
        PROVE  /\ srcSet'[u] = SourcesOf(u)
               /\ \A s \in SourcesOf(u) :
                    source'[s].facet \in picked' /\ Whole(s, source'[s].facet)
    BY <1>0, <1>3, <2>2 DEF HandlerInv
  <2>3. ASSUME NEW u \in TH, thState'[u] = "IDLE"
        PROVE  /\ \A d \in ConesOf(u) : cone'[d] \in {"IDLE", "DONE"}
               /\ \/ internalError'
                  \/ \A s \in srcSet'[u] : source'[s].done
                  \/ \A d \in ConesOf(u) : cone'[d] = "IDLE" /\ dst'[d].offset = 0
    <3>1. CASE u = t
      BY <1>1, <3>1
    <3>2. CASE u # t
      <4>1. \A s \in srcSet[u] : s \in SourcesOf(u)
        BY <1>0 DEF HandlerInv
      <4>2. QED
        BY <1>0, <1>3, <2>3, <3>2, <4>1 DEF HandlerInv, Resting
    <3>3. QED
      BY <3>1, <3>2
  <2>4. \A d \in Dst : cone'[d] = "STREAMING" => dst'[d].pending # <<>>
    BY <1>0, <1>1 DEF HandlerInv, Poll
  <2>5. QED
    BY <2>1, <2>2, <2>3, <2>4 DEF HandlerInv, Resting, Whole
<1>5. AheadInv' /\ SharingInv'
  <2>1. SharingInv'
    BY <1>0, <1>3 DEF SharingInv
  <2>2. ASSUME NEW u \in TH, thState'[u] # "IDLE", NEW d \in ConesOf(u)
        PROVE  u # t /\ source'[SrcOf[d]] = source[SrcOf[d]] /\ dst'[d] = dst[d]
    BY <1>3, <2>2, ConesApart
  <2>3. AheadInv'
    BY <1>0, <2>2 DEF AheadInv, DataAvailable
  <2>4. QED
    BY <2>1, <2>3
<1>6. FreshInv'
  <2>1. \A d \in Dst : \A f \in FacetsBy(d) : MadeBy(d, dst'[d], arrival', f) =>
          f.of \in picked' /\ Home(f.of) = SrcCh[SrcOf[d]]
    BY <1>0, <1>1 DEF FreshInv
  <2>2. ASSUME NEW u \in TH, thState'[u] # "IDLE", NEW d \in ConesOf(u),
               cone'[d] \in {"IDLE", "LOCK_SRC"}
        PROVE  NewFor(d, dst'[d], arrival, source'[SrcOf[d]].facet)
    <3>1. u # t /\ source'[SrcOf[d]] = source[SrcOf[d]] /\ dst'[d] = dst[d] /\ cone'[d] = cone[d]
      BY <1>3, <2>2, ConesApart
    <3>2. QED
      BY <1>0, <2>2, <3>1 DEF FreshInv
  <2>3. QED
    BY <2>1, <2>2 DEF FreshInv
<1>7. QED
  BY <1>1, <1>2, <1>4, <1>5, <1>6 DEF IInv

\* An idle handler that finds a packet for every source claims them.
LEMMA PollClaim ==
  ASSUME IInv, NEW t \in TH, thState[t] = "IDLE", Missing(t) = {}, Poll(t), ClaimAll(t),
         thState' = [thState EXCEPT ![t] = "READY"],
         UNCHANGED <<content, arrival, arrived, chSize, offset, internalError>>
  PROVE  IInv'
<1> DEFINE mode == "Execute"
<1>0. /\ LoadInv /\ ChannelInv /\ TypeInv /\ Engaged(t, mode)
      /\ Takes(t, mode) /\ Asked(t) = SourcesOf(t)
  BY TakingEngaged, AskedAll DEF IInv, Takes
<1>1. /\ ObjectInv' /\ LoadInv'
      /\ \A d \in Dst : \A f : MadeBy(d, dst'[d], arrival', f) <=> MadeBy(d, dst[d], arrival, f)
      /\ dst' = [d \in Dst |-> dst'[d]]
      /\ \A d \in ConesOf(t) : dst'[d] = Base(t, mode, d) /\ cone'[d] = "IDLE" /\ d \in Dst
                                /\ Was(t, mode, d) = "IDLE"
  BY <1>0, PollQueue, ConesApart DEF Base, Was, Poll
<1>2. OthersRest(t) /\ TypeInv'
  BY <1>0, PollOthers, PollType DEF TypeInv
<1>3. ChannelStep(t, mode)
  BY <1>0 DEF ChannelStep, Claims, ClaimAll, ChannelInv
<1>4. \A s \in SourcesOf(t) : source'[s] = Now(t, mode, s)
  BY <1>0, SourceOnIs DEF Poll, Now
<1>5. SourceStep(t, mode)
  <2>1. srcSet'[t] = SourcesOf(t) /\ thState'[t] = "READY"
    BY <1>0, AskedAll DEF Poll, TypeInv
  <2>2. QED
    BY <1>4, <2>1 DEF SourceStep
<1>6. ASSUME NEW d \in ConesOf(t)
      PROVE  ConeStep(t, mode, d)
  <2>1. EngagedCone(t, mode, d) /\ EngagedSource(t, mode, SrcOf[d]) /\ SrcOf[d] \in SourcesOf(t)
    BY <1>0, ConesApart DEF Engaged
  <2>2. /\ Object(d, dst'[d]) /\ NewFor(d, dst'[d], arrival, Now(t, mode, SrcOf[d]).facet)
        /\ cone'[d] = "IDLE" /\ d \in Dst
    BY <1>1, <2>1 DEF EngagedCone
  <2>3. Conserved(d, dst'[d], arrival, chSize) /\ Queued(d, dst'[d], arrival)
    BY <1>1, <2>2 DEF LoadInv
  <2>4. \A f \in FacetsBy(d) : MadeBy(d, dst'[d], arrival, f) => MadeBy(d, dst[d], arrival, f)
    BY <1>1, <2>2
  <2>5. source'[SrcOf[d]] = Now(t, mode, SrcOf[d])
    BY <1>4, <2>1
  <2>6. ~source'[SrcOf[d]].done =>
          LET p == Now(t, mode, SrcOf[d]).facet IN
          /\ chSize[p] = p.size \/ chSize[p] >= dst'[d].offset
          /\ offset'[p] <= dst'[d].offset
    BY <1>1, <2>1, <2>5 DEF EngagedCone, DataAvailable
  <2>7. QED
    BY <2>2, <2>3, <2>4, <2>6 DEF ConeStep
<1>7. QED
  BY <1>0, <1>1, <1>2, <1>3, <1>5, <1>6, CallStep

\* A handler that finds no packet keeps the invariant.
LEMMA StarveStep ==
  ASSUME IInv, NEW t \in TH, Starve(t)
  PROVE  IInv'
BY PollOnly DEF Starve, chanVars

\* IsReady keeps the invariant.
LEMMA IsReadyStep ==
  ASSUME IInv, NEW t \in TH, IsReady(t)
  PROVE  IInv'
<1>1. CASE thState[t] # "IDLE"
  BY <1>1, InertStep DEF IsReady, coreVars
<1>2. CASE thState[t] = "IDLE" /\ Missing(t) # {}
  BY <1>2, PollOnly DEF IsReady
<1>3. CASE thState[t] = "IDLE" /\ Missing(t) = {}
  BY <1>3, PollClaim DEF IsReady
<1>4. QED
  BY <1>1, <1>2, <1>3

-----------------------------------------------------------------------------
\* One call for one cone.

\* The calls that work on packets.
CallModes == {"Execute", "Prepare", "Resume"}

\* The states of a cone.
ConeStates == {"IDLE", "LOCK_SRC", "STREAMING", "DONE"}

\* The call changes no load: the cone is done, rests, or waits for its source.
Waits(r, state, mode, y) ==
  /\ SameLoad(r, y.dst)
  /\ \/ y.state = state /\ state \in {"IDLE", "DONE"}
     \/ y.state = "LOCK_SRC" /\ state \in {"IDLE", "LOCK_SRC"} /\ ~(state = "IDLE" /\ mode = "Resume")

\* b is r once the cone has started, and the call sends a bite of it or none.
Works(d, r, b, state, src, y) ==
  /\ Object(d, b)
  /\ \/ state = "STREAMING" /\ SameLoad(r, b)
     \/ state \in {"IDLE", "LOCK_SRC"} /\ Filled(d, r, b, src.facet)
  /\ y.state = IF y.dst.pending = <<>> THEN "DONE" ELSE "STREAMING"
  /\ \/ SameLoad(b, y.dst)
     \/ DataAvailable(src, y.dst.offset) /\ BiteSent(d, b, y.dst)

\* The products of a packet are different facets, numbered from one.
LEMMA ProductFacets ==
  ASSUME NEW d \in Dst, NEW p \in Facet, NEW sizes \in Yield[d][p.size],
         Home(p) = SrcCh[SrcOf[d]], p.by \in Accepts[SrcOf[d]]
  PROVE  LET facets == Product(p, d, sizes) IN
         /\ facets \in Seq(FacetsBy(d)) /\ facets # <<>>
         /\ \A k \in DOMAIN facets : facets[k].of = p /\ facets[k].idx = k
         /\ \A j, k \in DOMAIN facets : facets[j] = facets[k] => j = k
<1> DEFINE facets == Product(p, d, sizes)
<1>1. /\ sizes \in Seq(Nat) /\ sizes # <<>>
      /\ facets \in Seq(Facet)
  BY FacetAssumption
<1>2. /\ DOMAIN facets = DOMAIN sizes
      /\ \A k \in DOMAIN facets : facets[k].of = p /\ facets[k].idx = k /\ facets[k].by = d
  BY DEF Product
<1>3. 1 \in DOMAIN sizes
  BY <1>1
<1> HIDE DEF facets
<1>4. facets # <<>>
  BY <1>2, <1>3
<1>5. \A k \in DOMAIN facets : facets[k] \in FacetsBy(d)
  BY <1>1, <1>2 DEF FacetsBy
<1>6. facets \in Seq(FacetsBy(d))
  BY <1>1, <1>5
<1>7. \A j, k \in DOMAIN facets : facets[j] = facets[k] => j = k
  BY <1>2
<1>8. QED
  BY <1>2, <1>4, <1>6, <1>7 DEF facets

\* A cone that starts puts the products of its packet at the end of _PendingQueue.
LEMMA StartLoad ==
  ASSUME NEW d \in Dst, NEW r, Object(d, r), NEW p \in Facet, NEW sizes \in Yield[d][p.size],
         Home(p) = SrcCh[SrcOf[d]], p.by \in Accepts[SrcOf[d]], NewFor(d, r, arrival, p)
  PROVE  LET b == Fill(r, Product(p, d, sizes)) IN
         Object(d, b) /\ Filled(d, r, b, p) /\ b.pending # <<>>
<1> DEFINE facets == Product(p, d, sizes)
           b == Fill(r, facets)
<1>1. /\ facets \in Seq(FacetsBy(d)) /\ facets # <<>>
      /\ \A k \in DOMAIN facets : facets[k].of = p /\ facets[k].idx = k
      /\ \A j, k \in DOMAIN facets : facets[j] = facets[k] => j = k
  BY ProductFacets
<1>2. \A k \in DOMAIN r.pending : r.pending[k] \in FacetsBy(d) /\ MadeBy(d, r, arrival, r.pending[k])
  <2>1. \A k \in DOMAIN r.pending : r.pending[k] \in FacetsBy(d)
    BY DEF Object
  <2>2. \A k \in DOMAIN r.pending : r.pending[k] \in ToSet(r.pending)
    BY DEF ToSet
  <2>3. QED
    BY <2>1, <2>2 DEF MadeBy
<1>3. \A k \in DOMAIN r.pending : r.pending[k].of # p
  BY <1>2 DEF NewFor
<1>4. \A j \in DOMAIN facets, k \in DOMAIN r.pending : facets[j] # r.pending[k]
  BY <1>1, <1>3
<1> HIDE DEF facets
<1>5. /\ Object(d, b)
      /\ b.pending = r.pending \o facets /\ b.pending # <<>>
      /\ b.sent = r.sent /\ b.offset = r.offset /\ b.bite = r.bite /\ b.unit = r.unit
  BY <1>1, <1>4, FillLoad
<1> HIDE DEF b
<1>6. Filled(d, r, b, p)
  BY <1>1, <1>5 DEF Filled
<1>7. QED
  BY <1>5, <1>6 DEF b, facets

\* A call of a cone waits, or works on the packet of its source.
LEMMA ConeResult ==
  ASSUME NEW t \in TH, NEW d \in Dst, NEW r, Object(d, r), NEW mode \in CallModes,
         NEW state \in ConeStates, state = "STREAMING" => r.pending # <<>>,
         NEW src, src.facet \in Facet,
         Home(src.facet) = SrcCh[SrcOf[d]], src.facet.by \in Accepts[SrcOf[d]],
         state \in {"IDLE", "LOCK_SRC"} => NewFor(d, r, arrival, src.facet),
         NEW draw, draw.sizes \in Yield[d][src.facet.size]
  PROVE  LET y == ProcessLogicCone(t, d, mode, state, r, src, draw) IN
         /\ Object(d, y.dst)
         /\ Waits(r, state, mode, y) \/ \E b : Works(d, r, b, state, src, y)
<1> DEFINE called == SetTo(mode, r)
           starting == state \in {"IDLE", "LOCK_SRC"}
           filled == IF starting THEN Fill(called, Product(src.facet, d, draw.sizes)) ELSE called
           available == DataAvailable(src, Needs(d, filled))
           moved == Transfer(d, filled, available, draw.packet, draw.bite)
           lock == Ch(SrcCh[SrcOf[d]])!CanLockRd(t)
           y == ProcessLogicCone(t, d, mode, state, r, src, draw)
<1>1. y = CASE state = "DONE" \/ (state = "IDLE" /\ mode = "Resume") ->
                 [state |-> state, dst |-> called]
            [] starting /\ ~(state = "IDLE" /\ mode = "Resume") /\ ~lock ->
                 [state |-> "LOCK_SRC", dst |-> called]
            [] OTHER ->
                 [state |-> IF moved.pending = <<>> THEN "DONE" ELSE "STREAMING",
                  dst |-> moved]
  BY DEF ProcessLogicCone
<1>2. Object(d, called) /\ SameLoad(r, called)
  BY SetToLoad DEF CallModes
<1> HIDE DEF lock, called
<1>3. CASE state = "DONE" \/ (state = "IDLE" /\ mode = "Resume")
  <2>1. y = [state |-> state, dst |-> called]
    BY <1>1, <1>3
  <2>2. QED
    BY <1>2, <1>3, <2>1 DEF Waits
<1>4. CASE /\ ~(state = "DONE" \/ (state = "IDLE" /\ mode = "Resume"))
           /\ starting /\ ~lock
  <2>1. y = [state |-> "LOCK_SRC", dst |-> called]
    BY <1>1, <1>4
  <2>2. QED
    BY <1>2, <1>4, <2>1 DEF Waits
<1>5. CASE /\ ~(state = "DONE" \/ (state = "IDLE" /\ mode = "Resume"))
           /\ ~(starting /\ ~lock)
  <2>1. y = [state |-> IF moved.pending = <<>> THEN "DONE" ELSE "STREAMING", dst |-> moved]
    BY <1>1, <1>5
  <2>2. /\ Object(d, filled) /\ filled.pending # <<>>
        /\ \/ state = "STREAMING" /\ SameLoad(r, filled)
           \/ starting /\ Filled(d, r, filled, src.facet)
    <3>1. CASE starting
      <4>1. NewFor(d, called, arrival, src.facet)
        BY <1>2, <3>1, SameKeeps DEF NewFor, SameLoad, SameQueue
      <4> DEFINE b == Fill(called, Product(src.facet, d, draw.sizes))
      <4>2. Object(d, b) /\ Filled(d, called, b, src.facet) /\ b.pending # <<>>
        BY <1>2, <4>1, StartLoad
      <4> HIDE DEF b
      <4>3. Filled(d, r, b, src.facet)
        BY <1>2, <4>2 DEF Filled, SameLoad
      <4>4. filled = b
        BY <3>1 DEF b
      <4>5. QED
        BY <3>1, <4>2, <4>3, <4>4
    <3>2. CASE ~starting
      <4>1. state = "STREAMING" /\ filled = called
        BY <1>5, <3>2 DEF ConeStates
      <4>2. QED
        BY <1>2, <4>1 DEF SameLoad
    <3>3. QED
      BY <3>1, <3>2
  <2> HIDE DEF filled
  <2>3. /\ Object(d, moved)
        /\ \/ SameLoad(filled, moved)
           \/ available /\ moved.offset = Needs(d, filled) /\ BiteSent(d, filled, moved)
    <3> HIDE DEF available
    <3>1. QED
      BY <2>2, TransferLoad
  <2> HIDE DEF moved
  <2>4. y.dst = moved /\ y.state = IF y.dst.pending = <<>> THEN "DONE" ELSE "STREAMING"
    BY <2>1
  <2> HIDE DEF y
  <2>5. Works(d, r, filled, state, src, y)
    BY <2>2, <2>3, <2>4 DEF Works
  <2>6. QED
    BY <2>3, <2>4, <2>5 DEF y
<1>6. QED
  BY <1>3, <1>4, <1>5

\* Either way it keeps the count, the order, and its distance from the source.
LEMMA ConeKeeps ==
  ASSUME NEW d \in Dst, NEW r, Object(d, r), NEW mode, NEW state, NEW src, NEW y,
         Object(d, y.dst),
         Waits(r, state, mode, y) \/ \E b : Works(d, r, b, state, src, y),
         src.facet \in Facet,
         state \in {"IDLE", "LOCK_SRC"} => NewFor(d, r, arrival, src.facet),
         ~src.done => DataAvailable(src, r.offset),
         arrival \in [Facet -> Nat], chSize \in [Facet -> Nat],
         Conserved(d, r, arrival, chSize), Queued(d, r, arrival),
         \A f \in FacetsBy(d) : MadeBy(d, r, arrival, f) =>
           f.of \in Facet /\ Home(f.of) = Home(src.facet)
  PROVE  LET q == y.dst IN
         /\ Conserved(d, q, arrival, chSize) /\ Queued(d, q, arrival)
         /\ \A f \in FacetsBy(d) :
              MadeBy(d, q, arrival, f) => MadeBy(d, r, arrival, f) \/ f.of = src.facet
         /\ y.state \in ConeStates
         /\ y.state = "STREAMING" => q.pending # <<>>
         /\ y.state \in {"IDLE", "LOCK_SRC"} => NewFor(d, q, arrival, src.facet)
         /\ r.offset <= q.offset
         /\ ~src.done => DataAvailable(src, q.offset)
<1> DEFINE q == y.dst
           p == src.facet
<1>1. CASE Waits(r, state, mode, y)
  <2>1. SameQueue(r, q) /\ q.offset = r.offset /\ r.offset \in Nat
    BY <1>1 DEF Waits, SameLoad, SameQueue, Object
  <2>2. /\ Conserved(d, q, arrival, chSize) /\ Queued(d, q, arrival)
        /\ \A f : MadeBy(d, q, arrival, f) <=> MadeBy(d, r, arrival, f)
    BY <2>1, SameKeeps
  <2>3. y.state \in {"IDLE", "LOCK_SRC", "DONE"}
        /\ (y.state \in {"IDLE", "LOCK_SRC"} => state \in {"IDLE", "LOCK_SRC"})
    BY <1>1 DEF Waits
  <2>4. y.state \in {"IDLE", "LOCK_SRC"} => NewFor(d, q, arrival, p)
    BY <2>2, <2>3 DEF NewFor
  <2>5. QED
    BY <2>1, <2>2, <2>3, <2>4 DEF ConeStates
<1>2. ASSUME NEW b, Works(d, r, b, state, src, y)
      PROVE  /\ Conserved(d, q, arrival, chSize) /\ Queued(d, q, arrival)
             /\ \A f \in FacetsBy(d) :
                  MadeBy(d, q, arrival, f) => MadeBy(d, r, arrival, f) \/ f.of = p
             /\ y.state \in {"STREAMING", "DONE"}
             /\ y.state = "STREAMING" => q.pending # <<>>
             /\ r.offset <= q.offset
             /\ ~src.done => DataAvailable(src, q.offset)
  <2>1. /\ Object(d, b)
        /\ Conserved(d, b, arrival, chSize) /\ Queued(d, b, arrival)
        /\ \A f \in FacetsBy(d) :
             MadeBy(d, b, arrival, f) => MadeBy(d, r, arrival, f) \/ f.of = p
        /\ b.offset = r.offset
    <3>1. CASE state = "STREAMING" /\ SameLoad(r, b)
      BY <1>2, <3>1, SameKeeps DEF Works, SameLoad, SameQueue
    <3>2. CASE state \in {"IDLE", "LOCK_SRC"} /\ Filled(d, r, b, p)
      <4>1. b.offset = r.offset /\ NewFor(d, r, arrival, p)
        BY <3>2 DEF Filled
      <4> HIDE DEF q, p
      <4>2. /\ Conserved(d, b, arrival, chSize) /\ Queued(d, b, arrival)
            /\ \A f \in FacetsBy(d) :
                 MadeBy(d, b, arrival, f) => MadeBy(d, r, arrival, f) \/ f.of = p
        BY <3>2, <4>1, FillKeeps DEF p
      <4>3. QED
        BY <1>2, <4>1, <4>2 DEF Works
    <3>3. QED
      BY <1>2, <3>1, <3>2 DEF Works
  <2>2. CASE SameLoad(b, q)
    <3>1. SameQueue(b, q) /\ q.offset = r.offset /\ r.offset \in Nat
      BY <2>1, <2>2 DEF SameLoad, SameQueue, Object
    <3>2. /\ Conserved(d, q, arrival, chSize) /\ Queued(d, q, arrival)
          /\ \A f : MadeBy(d, q, arrival, f) <=> MadeBy(d, b, arrival, f)
      BY <2>1, <3>1, SameKeeps
    <3>3. QED
      BY <1>2, <2>1, <3>1, <3>2 DEF Works
  <2>3. CASE DataAvailable(src, q.offset) /\ BiteSent(d, b, q)
    <3>1. q.bite.size \in Nat /\ q.offset = b.offset + q.bite.size /\ r.offset \in Nat
      BY <2>3 DEF BiteSent, BiteOf, Object
    <3>2. /\ Conserved(d, q, arrival, chSize) /\ Queued(d, q, arrival)
          /\ \A f \in FacetsBy(d) : MadeBy(d, q, arrival, f) <=> MadeBy(d, b, arrival, f)
      <4> HIDE DEF q
      <4>1. QED
        BY <2>1, <2>3, BiteKeeps DEF q
    <3>3. QED
      BY <1>2, <2>1, <2>3, <3>1, <3>2 DEF Works
  <2>4. QED
    BY <1>2, <2>2, <2>3 DEF Works
<1>3. QED
  BY <1>1, <1>2 DEF ConeStates

-----------------------------------------------------------------------------
\* Any set of numbers has a least one.
LEMMA LeastNumber ==
  ASSUME NEW S \in SUBSET Nat, S # {}
  PROVE  Min(S) \in S /\ \A k \in S : Min(S) <= k
<1>1. PICK m \in S : \A k \in S : <<k, m>> \notin OpToRel(<, Nat)
  BY NatLessThanWellFounded, WFMin
<1>2. \A k \in S : ~(k < m)
  BY <1>1 DEF OpToRel
<1>3. m \in S /\ \A k \in S : m <= k
  BY <1>2
<1>4. QED
  BY <1>3 DEF Min

-----------------------------------------------------------------------------
\* What one call does to a cone and to a source.

\* What is known of a cone after the call.
ConeGood(t, mode, d, y) ==
  LET q == y.dst
      src == Now(t, mode, SrcOf[d])
  IN /\ Object(d, q)
     /\ Conserved(d, q, arrival, chSize) /\ Queued(d, q, arrival)
     /\ \A f \in FacetsBy(d) :
          MadeBy(d, q, arrival, f) => MadeBy(d, dst[d], arrival, f) \/ f.of = src.facet
     /\ y.state \in ConeStates
     /\ y.state = "STREAMING" => q.pending # <<>>
     /\ y.state \in {"IDLE", "LOCK_SRC"} => NewFor(d, q, arrival, src.facet)
     /\ Base(t, mode, d).offset <= q.offset
     /\ ~src.done => DataAvailable(src, q.offset)

\* What is known of a source after the call: it is done only with a complete packet, and its
\* offset is behind its cones.
SourceGood(t, mode, after, s) ==
  LET left == Left(t, mode, after, s)
      p == Now(t, mode, s).facet
  IN /\ left.offset \in Nat
     /\ left.done \in BOOLEAN
     /\ left.done => chSize[p] = p.size
     /\ ~AllDone(t, after) =>
          \A d \in ConesOf(t) : SrcOf[d] = s => left.offset <= after[d].dst.offset

\* A cone of an engaged handler does well.
LEMMA RunCone ==
  ASSUME IInv, NEW t \in TH, NEW mode \in CallModes, Engaged(t, mode),
         NEW draw \in Draws(t, [s \in SourcesOf(t) |-> Now(t, mode, s).facet]),
         NEW d \in ConesOf(t)
  PROVE  ConeGood(t, mode, d, After(t, mode, d, draw[d]))
<1> DEFINE src == Now(t, mode, SrcOf[d])
           r == Base(t, mode, d)
           state == Was(t, mode, d)
           y == After(t, mode, d, draw[d])
<1>1. /\ d \in Dst /\ SrcOf[d] \in SourcesOf(t)
      /\ EngagedSource(t, mode, SrcOf[d]) /\ EngagedCone(t, mode, d)
  BY ConesApart DEF Engaged
<1>2. /\ src.facet \in Facet /\ Home(src.facet) = SrcCh[SrcOf[d]]
      /\ src.facet.by \in Accepts[SrcOf[d]]
  BY <1>1 DEF EngagedSource, Reads
<1>3. draw[d].sizes \in Yield[d][src.facet.size]
  <2>1. draw[d] \in Draw(d, src.facet)
    BY <1>1 DEF Draws
  <2>2. src.facet # None
    BY <1>2, FacetAssumption
  <2> HIDE DEF src
  <2>3. QED
    BY <2>1, <2>2 DEF Draw
<1>4. /\ Object(d, r) /\ SameQueue(dst[d], r) /\ state \in ConeStates
      /\ state = "STREAMING" => r.pending # <<>>
      /\ state \in {"IDLE", "LOCK_SRC"} => NewFor(d, r, arrival, src.facet)
      /\ ~src.done => DataAvailable(src, r.offset)
  BY <1>1 DEF EngagedCone, ConeStates
<1>5. y = ProcessLogicCone(t, d, mode, state, r, src, draw[d])
  BY DEF After, Base
<1> HIDE DEF src, r, state, y
<1>6. /\ Object(d, y.dst)
      /\ Waits(r, state, mode, y) \/ \E b : Works(d, r, b, state, src, y)
  BY <1>1, <1>2, <1>3, <1>4, <1>5, ConeResult
<1>7. /\ arrival \in [Facet -> Nat] /\ chSize \in [Facet -> Nat]
      /\ Conserved(d, dst[d], arrival, chSize) /\ Queued(d, dst[d], arrival)
  BY <1>1 DEF IInv, ChannelInv, LoadInv
<1>8. /\ Conserved(d, r, arrival, chSize) /\ Queued(d, r, arrival)
      /\ \A f : MadeBy(d, r, arrival, f) <=> MadeBy(d, dst[d], arrival, f)
  BY <1>4, <1>7, SameKeeps
<1>9. \A f \in FacetsBy(d) : MadeBy(d, r, arrival, f) => f.of \in Facet /\ Home(f.of) = Home(src.facet)
  BY <1>1, <1>2, <1>8 DEF IInv, FreshInv, ChannelInv
<1>10. LET q == y.dst IN
       /\ Conserved(d, q, arrival, chSize) /\ Queued(d, q, arrival)
       /\ \A f \in FacetsBy(d) :
            MadeBy(d, q, arrival, f) => MadeBy(d, r, arrival, f) \/ f.of = src.facet
       /\ y.state \in ConeStates
       /\ y.state = "STREAMING" => q.pending # <<>>
       /\ y.state \in {"IDLE", "LOCK_SRC"} => NewFor(d, q, arrival, src.facet)
       /\ r.offset <= q.offset
       /\ ~src.done => DataAvailable(src, q.offset)
  BY <1>1, <1>2, <1>4, <1>6, <1>7, <1>8, <1>9, ConeKeeps
<1>11. QED
  BY <1>6, <1>8, <1>10 DEF ConeGood, src, r, y

\* So does each of its sources.
LEMMA RunSource ==
  ASSUME IInv, NEW t \in TH, NEW mode, Engaged(t, mode), NEW after,
         \A d \in ConesOf(t) : ConeGood(t, mode, d, after[d]),
         NEW s \in SourcesOf(t), ~Now(t, mode, s).done
  PROVE  SourceGood(t, mode, after, s)
<1> DEFINE src == Now(t, mode, s)
           p == src.facet
           c == SrcCh[s]
           offsets == {chSize[p]} \cup {after[d].dst.offset : d \in {e \in ConesOf(t) : SrcOf[e] = s}}
           new == ReadByCones(t, s, src, after)
           all == AllDone(t, after)
           till == IF all THEN chSize[p] ELSE new
           left == Left(t, mode, after, s)
<1>1. /\ p \in Facet /\ Home(p) = c /\ p \in FacetsOf(c) /\ Whole(s, p)
      /\ p.size \in Nat /\ chSize[p] \in Nat /\ chSize[p] <= p.size /\ offset[p] \in Nat
  <2>1. EngagedSource(t, mode, s)
    BY DEF Engaged
  <2>2. p \in Facet /\ Home(p) = c /\ Whole(s, p)
    BY <2>1 DEF EngagedSource, Reads
  <2> HIDE DEF p
  <2>3. QED
    BY <2>2, HomeType DEF IInv, ChannelInv, FacetsOf
<1>2. c \in Chan /\ SourceOn(t, c) = s /\ t \in ReadersOf(c) /\ s \in Src
  BY SourceOnIs
<1>3. \A d \in ConesOf(t) : SrcOf[d] = s =>
        /\ after[d].dst.offset \in Nat
        /\ offset[p] <= after[d].dst.offset
  <2> SUFFICES ASSUME NEW d \in ConesOf(t), SrcOf[d] = s
               PROVE  after[d].dst.offset \in Nat /\ offset[p] <= after[d].dst.offset
    OBVIOUS
  <2>1. EngagedCone(t, mode, d) /\ ConeGood(t, mode, d, after[d])
    BY DEF Engaged
  <2>2. offset[p] <= Base(t, mode, d).offset /\ Base(t, mode, d).offset \in Nat
    BY <2>1 DEF EngagedCone, Object
  <2>3. Base(t, mode, d).offset <= after[d].dst.offset /\ after[d].dst.offset \in Nat
    BY <2>1 DEF ConeGood, Object
  <2>4. QED
    BY <1>1, <2>2, <2>3
<1>4. /\ new \in Nat /\ new <= chSize[p]
      /\ \A d \in ConesOf(t) : SrcOf[d] = s => new <= after[d].dst.offset
  <2>1. offsets \in SUBSET Nat /\ offsets # {} /\ new = Min(offsets)
    BY <1>1, <1>3 DEF ReadByCones
  <2> HIDE DEF offsets
  <2>2. new \in offsets /\ \A k \in offsets : new <= k
    BY <2>1, LeastNumber
  <2> HIDE DEF new
  <2>3. QED
    BY <2>1, <2>2 DEF offsets
<1> HIDE DEF new
<1>5. left = SourceAfter(t, s, src, new, all)
  BY DEF Left, new
<1> HIDE DEF all, src
<1>6. till \in Nat /\ till <= chSize[p]
  BY <1>1, <1>4
<1>7. Ch(c)!ReadOffset(p, till) = till
  BY <1>1, <1>6 DEF Ch!ReadOffset
<1>8. left.offset = IF Mode[s] = "PIPELINE" THEN till ELSE offset[p]
  BY <1>5, <1>7 DEF SourceAfter
<1>9. left.done = Ch(c)!SourceDone(t, p, till, all)
  BY <1>5 DEF SourceAfter
<1>10. all \in BOOLEAN
  BY DEF all, AllDone
<1> HIDE DEF till, left
<1>11. left.done \in BOOLEAN /\ (left.done => chSize[p] = p.size)
  <2>1. Mode[s] \in {"SERIAL_AHEAD", "SERIAL_POST", "PIPELINE"}
    BY <1>2, FlowAssumption
  <2>2. CASE Mode[s] = "PIPELINE"
    <3>1. left.done = (till = p.size)
      BY <1>1, <1>2, <1>7, <1>9, <2>2 DEF Ch!SourceDone
    <3>2. left.done \in BOOLEAN /\ (left.done => till = p.size)
      BY <3>1, Zenon
    <3>3. QED
      BY <1>1, <1>6, <3>2
  <2>3. CASE Mode[s] # "PIPELINE"
    <3>1. left.done = (till > 0 \/ all) \/ left.done = (till >= p.size \/ all)
      BY <1>1, <1>2, <1>9, <2>1, <2>3 DEF Ch!SourceDone
    <3>2. left.done \in BOOLEAN
      BY <1>10, <3>1
    <3>3. QED
      BY <1>1, <2>3, <3>2 DEF Whole
  <2>4. QED
    BY <2>2, <2>3
<1>12. ~all => \A d \in ConesOf(t) : SrcOf[d] = s => left.offset <= after[d].dst.offset
  BY <1>3, <1>4, <1>8 DEF till
<1>13. QED
  BY <1>1, <1>6, <1>8, <1>11, <1>12 DEF SourceGood, left, src, all

-----------------------------------------------------------------------------
\* A call that works on packets.

\* The cones end in after, the sources follow, and no byte arrives.
Moves(t, mode, after) ==
  /\ RunCones(t, mode, after)
  /\ RunSources(t, mode, after)
  /\ UNCHANGED <<arrival, arrived, chSize>>
  /\ ~internalError

\* What RunSources does, source by source.
LEMMA SourcesMove ==
  ASSUME IInv, NEW t \in TH, NEW mode, Engaged(t, mode), NEW after, Moves(t, mode, after),
         \A s \in SourcesOf(t) : ~Now(t, mode, s).done => SourceGood(t, mode, after, s)
  PROVE  /\ ChannelStep(t, mode)
         /\ srcSet' = [srcSet EXCEPT ![t] = SourcesOf(t)]
         /\ source' \in [Src -> [facet : Facet \cup {None}, done : BOOLEAN]]
         /\ \A s \in Src : s \notin SourcesOf(t) => source'[s] = source[s]
         /\ \A s \in SourcesOf(t) :
              LET p == Now(t, mode, s).facet IN
              /\ source'[s].facet = p
              /\ ~source'[s].done => /\ ~Now(t, mode, s).done
                                     /\ ~Left(t, mode, after, s).done
                                     /\ offset'[p] = Left(t, mode, after, s).offset
         /\ internalError' \in BOOLEAN
         /\ AllDone(t, after) /\ ~internalError' => \A s \in SourcesOf(t) : source'[s].done
<1> DEFINE updated == Updated(t, mode)
           facet(s) == Now(t, mode, s).facet
           left == [s \in updated |-> Left(t, mode, after, s)]
           finished(c) == c \in {SrcCh[s] : s \in SourcesOf(t)} /\ SourceOn(t, c) \in updated
                          /\ left[SourceOn(t, c)].done
<1>0. /\ Working(t, mode) = SourcesOf(t)
      /\ updated = {s \in SourcesOf(t) : ~Now(t, mode, s).done}
      /\ \A s \in SourcesOf(t) : s \in Src /\ EngagedSource(t, mode, s)
      /\ TypeInv /\ ChannelInv
  BY SourceOnIs DEF Engaged, Updated, IInv
<1>1. \A s \in SourcesOf(t) :
        /\ facet(s) \in Facet /\ Home(facet(s)) = SrcCh[s]
        /\ Now(t, mode, s) \in [facet : Facet, done : BOOLEAN]
  BY <1>0 DEF EngagedSource, Reads
<1>2. \A s \in updated :
        /\ s \in SourcesOf(t)
        /\ left[s] = Left(t, mode, after, s)
        /\ left[s].offset \in Nat /\ left[s].done \in BOOLEAN
        /\ left[s].done => chSize[facet(s)] = facet(s).size
  BY <1>0 DEF SourceGood
<1>3. /\ srcSet' = [srcSet EXCEPT ![t] = Working(t, mode)]
      /\ source' = [s \in Src |->
           IF s \in updated THEN [Now(t, mode, s) EXCEPT !.done = left[s].done]
           ELSE IF s \in SourcesOf(t) THEN Now(t, mode, s) ELSE source[s]]
      /\ IF Takes(t, mode) THEN ClaimAll(t) ELSE UNCHANGED picked
      /\ offset' = [f \in Facet |->
           IF \E s \in updated : facet(s) = f
           THEN left[CHOOSE s \in updated : facet(s) = f].offset ELSE offset[f]]
      /\ content' = [c \in Chan |->
           IF finished(c) THEN content[c] \ {facet(SourceOn(t, c))} ELSE content[c]]
  BY DEF Moves, RunSources
<1>4. /\ internalError' \in BOOLEAN
      /\ AllDone(t, after) /\ (\E s \in updated : ~left[s].done) => internalError'
  BY DEF Moves, RunSources
<1> HIDE DEF updated, facet, left, finished
<1>5. ChannelStep(t, mode)
  <2>1. picked' = Claims(t, mode)
    BY <1>3 DEF ClaimAll, Claims
  <2>2. offset' \in [Facet -> Nat]
    <3>1. \A f \in Facet : offset[f] \in Nat
      BY <1>0 DEF ChannelInv
    <3>2. ASSUME NEW f \in Facet, \E s \in updated : facet(s) = f
          PROVE  left[CHOOSE s \in updated : facet(s) = f].offset \in Nat
      BY <1>2, <3>2
    <3>3. QED
      BY <1>3, <3>1, <3>2
  <2>3. \A f \in Facet : offset'[f] = offset[f] \/ \E s \in SourcesOf(t) : f = Now(t, mode, s).facet
    BY <1>2, <1>3 DEF facet
  <2>4. ASSUME NEW c \in Chan
        PROVE  /\ content'[c] \subseteq content[c]
               /\ \A f \in content[c] \ content'[c] : chSize[f] = f.size
    <3>1. content'[c] = IF finished(c) THEN content[c] \ {facet(SourceOn(t, c))} ELSE content[c]
      BY <1>3
    <3>2. finished(c) => chSize[facet(SourceOn(t, c))] = facet(SourceOn(t, c)).size
      BY <1>2 DEF finished
    <3>3. QED
      BY <3>1, <3>2
  <2>5. content' \in [Chan -> SUBSET Facet]
    <3>1. content \in [Chan -> SUBSET Facet]
      BY <1>0 DEF ChannelInv
    <3>2. content' = [c \in Chan |-> content'[c]]
      BY <1>3
    <3>3. QED
      BY <2>4, <3>1, <3>2
  <2>6. QED
    BY <2>1, <2>2, <2>3, <2>4, <2>5 DEF ChannelStep
<1>6. ASSUME NEW s \in SourcesOf(t)
      PROVE  /\ source'[s] \in [facet : Facet, done : BOOLEAN]
             /\ source'[s].facet = facet(s)
             /\ ~source'[s].done => s \in updated /\ ~left[s].done
             /\ (\A r \in updated : left[r].done) => source'[s].done
  <2>1. CASE s \in updated
    <3>1. source'[s] = [Now(t, mode, s) EXCEPT !.done = left[s].done]
      BY <1>0, <1>3, <2>1
    <3>2. left[s].done \in BOOLEAN
      BY <1>2, <2>1
    <3>3. /\ source'[s] \in [facet : Facet, done : BOOLEAN]
          /\ source'[s].facet = facet(s) /\ source'[s].done = left[s].done
      BY <1>1, <3>1, <3>2 DEF facet
    <3>4. QED
      BY <2>1, <3>3
  <2>2. CASE s \notin updated
    <3>1. source'[s] = Now(t, mode, s)
      BY <1>0, <1>3, <2>2
    <3>2. Now(t, mode, s).done
      BY <1>0, <2>2
    <3>3. QED
      BY <1>1, <3>1, <3>2 DEF facet
  <2>3. QED
    BY <2>1, <2>2
<1>7. \A s \in Src : s \notin SourcesOf(t) => source'[s] = source[s]
  BY <1>2, <1>3
<1>8. source' \in [Src -> [facet : Facet \cup {None}, done : BOOLEAN]]
  <2>1. \A s \in Src : source'[s] \in [facet : Facet \cup {None}, done : BOOLEAN]
    BY <1>0, <1>6, <1>7 DEF TypeInv
  <2>2. source' = [s \in Src |-> source'[s]]
    BY <1>3
  <2>3. QED
    BY <2>1, <2>2
<1>9. ASSUME NEW s \in updated
      PROVE  offset'[facet(s)] = left[s].offset
  <2>1. \A r \in updated : facet(r) = facet(s) => r = s
    BY <1>1, <1>2, FlowAssumption
  <2>2. facet(s) \in Facet
    BY <1>1, <1>2
  <2>3. (CHOOSE r \in updated : facet(r) = facet(s)) = s
    BY <2>1
  <2>4. QED
    BY <1>3, <2>2, <2>3
<1>10. AllDone(t, after) /\ ~internalError' => \A s \in SourcesOf(t) : source'[s].done
  BY <1>4, <1>6
<1>11. ASSUME NEW s \in SourcesOf(t)
       PROVE  /\ source'[s].facet = Now(t, mode, s).facet
              /\ ~source'[s].done => /\ ~Now(t, mode, s).done
                                     /\ ~Left(t, mode, after, s).done
                                     /\ offset'[Now(t, mode, s).facet] = Left(t, mode, after, s).offset
  <2>1. source'[s].facet = Now(t, mode, s).facet
    BY <1>6 DEF facet
  <2>2. ASSUME ~source'[s].done
        PROVE  /\ ~Now(t, mode, s).done
               /\ ~Left(t, mode, after, s).done
               /\ offset'[Now(t, mode, s).facet] = Left(t, mode, after, s).offset
    <3>1. s \in updated /\ ~left[s].done
      BY <1>6, <2>2
    <3>2. ~Now(t, mode, s).done /\ left[s] = Left(t, mode, after, s)
      BY <1>0, <1>2, <3>1
    <3>3. offset'[Now(t, mode, s).facet] = left[s].offset
      BY <1>9, <3>1 DEF facet
    <3>4. QED
      BY <3>1, <3>2, <3>3
  <2>3. QED
    BY <2>1, <2>2
<1>12. srcSet' = [srcSet EXCEPT ![t] = SourcesOf(t)] /\ internalError' \in BOOLEAN
  BY <1>0, <1>3, <1>4
<1>13. QED
  BY <1>5, <1>7, <1>8, <1>10, <1>11, <1>12

\* The call of an engaged handler keeps the invariant.
LEMMA MovesStep ==
  ASSUME IInv, NEW t \in TH, NEW mode \in CallModes, Engaged(t, mode),
         thState[t] # "IDLE" \/ mode # "Resume",
         NEW after, Moves(t, mode, after),
         \A d \in ConesOf(t) : ConeGood(t, mode, d, after[d])
  PROVE  IInv'
<1>1. \A s \in SourcesOf(t) : ~Now(t, mode, s).done => SourceGood(t, mode, after, s)
  BY RunSource
<1>2. /\ ChannelStep(t, mode)
      /\ srcSet' = [srcSet EXCEPT ![t] = SourcesOf(t)]
      /\ source' \in [Src -> [facet : Facet \cup {None}, done : BOOLEAN]]
      /\ \A s \in Src : s \notin SourcesOf(t) => source'[s] = source[s]
      /\ \A s \in SourcesOf(t) :
           LET p == Now(t, mode, s).facet IN
           /\ source'[s].facet = p
           /\ ~source'[s].done => /\ ~Now(t, mode, s).done
                                  /\ ~Left(t, mode, after, s).done
                                  /\ offset'[p] = Left(t, mode, after, s).offset
      /\ internalError' \in BOOLEAN
      /\ AllDone(t, after) /\ ~internalError' => \A s \in SourcesOf(t) : source'[s].done
  BY <1>1, SourcesMove
<1>3. /\ dst' = [d \in Dst |-> IF d \in ConesOf(t) THEN after[d].dst ELSE dst[d]]
      /\ cone' = [d \in Dst |-> IF d \in ConesOf(t) THEN after[d].state ELSE cone[d]]
      /\ thState' = [thState EXCEPT ![t] = IF AllDone(t, after) THEN "IDLE"
                                           ELSE IF mode = "Resume" THEN @ ELSE "BUSY"]
      /\ UNCHANGED <<arrival, arrived, chSize>>
      /\ ~internalError
  BY DEF Moves, RunCones
<1>4. TypeInv /\ ConesOf(t) \subseteq Dst
  BY ConesApart DEF IInv
<1>5. OthersRest(t)
  BY <1>2, <1>3, <1>4 DEF OthersRest, TypeInv
<1>6. /\ dst' = [d \in Dst |-> dst'[d]]
      /\ \A d \in ConesOf(t) : d \in Dst /\ dst'[d] = after[d].dst /\ cone'[d] = after[d].state
      /\ thState'[t] = "IDLE" <=> AllDone(t, after)
      /\ thState' \in [TH -> {"IDLE", "READY", "BUSY"}]
  BY <1>3, <1>4 DEF TypeInv
<1>7. TypeInv'
  <2>1. cone' \in [Dst -> ConeStates]
    BY <1>3, <1>4 DEF TypeInv, ConeGood, ConeStates
  <2>2. srcSet' \in [TH -> SUBSET Src]
    BY <1>2, <1>4, SourceOnIs DEF TypeInv
  <2>3. QED
    BY <1>2, <1>6, <2>1, <2>2 DEF TypeInv, ConeStates
<1>8. SourceStep(t, mode)
  <2>1. srcSet'[t] = SourcesOf(t)
    BY <1>2, <1>4 DEF TypeInv
  <2>2. AllDone(t, after) => \A d \in ConesOf(t) : cone'[d] = "DONE"
    BY <1>6 DEF AllDone
  <2>3. QED
    BY <1>2, <1>6, <2>1, <2>2 DEF SourceStep
<1>9. ASSUME NEW d \in ConesOf(t)
      PROVE  ConeStep(t, mode, d)
  <2> DEFINE src == Now(t, mode, SrcOf[d])
             q == dst'[d]
  <2>1. /\ ConeGood(t, mode, d, after[d])
        /\ q = after[d].dst /\ cone'[d] = after[d].state
        /\ SrcOf[d] \in SourcesOf(t)
    BY <1>6, ConesApart
  <2>2. ASSUME thState'[t] # "IDLE", ~source'[SrcOf[d]].done
        PROVE  /\ chSize[src.facet] = src.facet.size \/ chSize[src.facet] >= q.offset
               /\ offset'[src.facet] <= q.offset
    <3>1. ~AllDone(t, after)
      BY <1>6, <2>2
    <3>2. ~src.done /\ offset'[src.facet] = Left(t, mode, after, SrcOf[d]).offset
      BY <1>2, <2>1, <2>2
    <3>3. SourceGood(t, mode, after, SrcOf[d])
      BY <1>1, <2>1, <3>2
    <3>4. offset'[src.facet] <= q.offset
      BY <2>1, <3>1, <3>2, <3>3 DEF SourceGood
    <3>5. DataAvailable(src, q.offset)
      BY <2>1, <3>2 DEF ConeGood
    <3>6. QED
      BY <3>2, <3>4, <3>5 DEF DataAvailable
  <2>3. QED
    BY <2>1, <2>2 DEF ConeGood, ConeStep
<1>10. QED
  BY <1>2, <1>3, <1>5, <1>6, <1>7, <1>8, <1>9, CallStep

-----------------------------------------------------------------------------
\* Resume of an idle handler: its cones rest or are done.

\* The calls of its sources' Update leave their offsets, or set them back to 0.
LEMMA OffsetStep ==
  ASSUME IInv, ObjectInv', LoadInv',
         UNCHANGED <<content, arrival, arrived, chSize, picked, thState, srcSet, source,
                     cone, internalError>>,
         offset' \in [Facet -> Nat],
         \A f \in Facet : offset'[f] = offset[f] \/ offset'[f] = 0,
         \A d \in Dst : dst'[d].pending = dst[d].pending /\ dst'[d].offset = dst[d].offset,
         \A d \in Dst : \A f \in FacetsBy(d) :
           MadeBy(d, dst'[d], arrival', f) => MadeBy(d, dst[d], arrival, f)
  PROVE  IInv'
<1>0. /\ ObjectInv /\ ChannelInv /\ TypeInv /\ HandlerInv /\ AheadInv /\ SharingInv /\ FreshInv /\ ClaimOrder
  BY DEF IInv
<1>1. ChannelInv' /\ TypeInv' /\ SharingInv' /\ ClaimOrder'
  BY <1>0 DEF ChannelInv, TypeInv, SharingInv, ClaimOrder
<1>2. \A t \in TH : ConesOf(t) \subseteq Dst
  BY ConesApart
<1>3. HandlerInv'
  BY <1>0, <1>2 DEF HandlerInv, Resting, Whole
<1>4. AheadInv'
  <2> SUFFICES ASSUME NEW t \in TH, thState[t] # "IDLE", NEW d \in ConesOf(t),
                      ~source[SrcOf[d]].done
               PROVE  LET p == source[SrcOf[d]].facet IN
                      /\ chSize[p] = p.size \/ chSize[p] >= dst'[d].offset
                      /\ offset'[p] <= dst'[d].offset
    BY DEF AheadInv, DataAvailable
  <2> DEFINE p == source[SrcOf[d]].facet
  <2>1. p \in Facet /\ d \in Dst
    BY <1>0, ConesApart DEF HandlerInv, Reads
  <2>2. dst'[d].offset = dst[d].offset /\ dst[d].offset \in Nat
    BY <1>0, <2>1 DEF ObjectInv, Object
  <2>3. /\ chSize[p] = p.size \/ chSize[p] >= dst[d].offset
        /\ offset[p] <= dst[d].offset
    BY <1>0 DEF AheadInv, DataAvailable
  <2> HIDE DEF p
  <2>4. offset'[p] = offset[p] \/ offset'[p] = 0
    BY <2>1
  <2>5. QED
    BY <2>2, <2>3, <2>4 DEF p
<1>5. FreshInv'
  <2>1. \A d \in Dst : \A p : NewFor(d, dst[d], arrival, p) => NewFor(d, dst'[d], arrival', p)
    BY DEF NewFor
  <2>2. \A d \in Dst : \A f \in FacetsBy(d) : MadeBy(d, dst'[d], arrival', f) =>
          f.of \in picked' /\ Home(f.of) = SrcCh[SrcOf[d]]
    BY <1>0 DEF FreshInv
  <2>3. \A t \in TH : thState'[t] # "IDLE" => \A d \in ConesOf(t) :
          cone'[d] \in {"IDLE", "LOCK_SRC"} => NewFor(d, dst'[d], arrival', source'[SrcOf[d]].facet)
    BY <1>0, <1>2, <2>1 DEF FreshInv
  <2>4. QED
    BY <2>2, <2>3 DEF FreshInv
<1>6. QED
  BY <1>1, <1>3, <1>4, <1>5 DEF IInv

\* What Update does to a source of which the cones have read nothing.
LEMMA RestingSource ==
  ASSUME IInv, NEW t \in TH, Resting(t), NEW after,
         \A d \in ConesOf(t) : after[d].state = "IDLE" /\ after[d].dst.offset = 0,
         NEW s \in srcSet[t]
  PROVE  LET left == Left(t, "Resume", after, s) IN
         thState[t] = "IDLE" => left.done = FALSE /\ left.offset \in {0, offset[source[s].facet]}
<1> SUFFICES ASSUME thState[t] = "IDLE"
             PROVE  LET left == Left(t, "Resume", after, s) IN
                    left.done = FALSE /\ left.offset \in {0, offset[source[s].facet]}
  OBVIOUS
<1> DEFINE src == source[s]
           p == src.facet
           c == SrcCh[s]
           offsets == {chSize[p]} \cup {after[d].dst.offset : d \in {e \in ConesOf(t) : SrcOf[e] = s}}
           left == Left(t, "Resume", after, s)
<1>1. s \in SourcesOf(t) /\ p \in Facet /\ Home(p) = c /\ p \in FacetsOf(c)
  BY DEF IInv, HandlerInv, Reads, FacetsOf
<1>2. p.size \in Nat \ {0} /\ chSize[p] \in Nat
  BY <1>1, HomeType DEF IInv, ChannelInv
<1>3. c \in Chan /\ SourceOn(t, c) = s /\ t \in ReadersOf(c) /\ s \in Src
  BY <1>1, SourceOnIs
<1>4. ~AllDone(t, after)
  BY ConesApart DEF AllDone
<1>5. ReadByCones(t, s, src, after) = 0
  <2>1. 0 \in offsets /\ offsets \in SUBSET Nat
    BY <1>1, <1>2, ConesApart
  <2> HIDE DEF offsets
  <2>2. Min(offsets) \in Nat /\ Min(offsets) <= 0
    BY <2>1, LeastNumber
  <2>3. Min(offsets) = 0
    BY <2>2
  <2>4. QED
    BY <2>3 DEF ReadByCones, offsets
<1> DEFINE all == AllDone(t, after)
           done == Ch(c)!SourceDone(t, p, 0, all)
<1>6. left = SourceAfter(t, s, src, 0, all)
  <2>1. Now(t, "Resume", s) = src
    BY DEF Now, Takes
  <2>2. QED
    BY <1>5, <2>1 DEF Left
<1>7. all = FALSE
  BY <1>4 DEF AllDone
<1> HIDE DEF all, left
<1>8. Ch(c)!ReadOffset(p, 0) = 0
  BY <1>1, <1>2 DEF Ch!ReadOffset
<1>9. left.offset \in {0, offset[p]}
  BY <1>6, <1>7, <1>8 DEF SourceAfter
<1>10. left.done = done
  BY <1>6, <1>7 DEF SourceAfter
<1> HIDE DEF p
<1>11. done = FALSE
  <2>1. Mode[s] \in {"SERIAL_AHEAD", "SERIAL_POST", "PIPELINE"}
    BY <1>3, FlowAssumption
  <2>2. CASE Mode[s] = "PIPELINE"
    <3>1. done <=> (0 = p.size)
      BY <1>1, <1>3, <1>8, <2>2 DEF Ch!SourceDone
    <3>2. QED
      BY <1>2, <3>1, <1>1, <1>3, <1>8, <2>2 DEF Ch!SourceDone
  <2>3. CASE Mode[s] = "SERIAL_AHEAD"
    <3>1. done = (0 > 0 \/ all)
      BY <1>1, <1>3, <2>3 DEF Ch!SourceDone
    <3>2. (0 > 0) = FALSE
      OBVIOUS
    <3>3. QED
      BY <1>7, <3>1, <3>2, Zenon
  <2>4. CASE Mode[s] = "SERIAL_POST"
    <3>1. done = (0 >= p.size \/ all)
      BY <1>1, <1>3, <2>4 DEF Ch!SourceDone
    <3>2. (0 >= p.size) = FALSE
      BY <1>2
    <3>3. QED
      BY <1>7, <3>1, <3>2, Zenon
  <2>5. QED
    BY <2>1, <2>2, <2>3, <2>4
<1>12. QED
  BY <1>9, <1>10, <1>11 DEF left, p

\* Resume of an idle handler whose cones rest keeps the invariant.
LEMMA IdleStep ==
  ASSUME IInv, NEW t \in TH, thState[t] = "IDLE",
         NEW after, Moves(t, "Resume", after),
         \A d \in ConesOf(t) : /\ Object(d, after[d].dst) /\ SameLoad(dst[d], after[d].dst)
                               /\ after[d].state = cone[d]
  PROVE  IInv'
<1> DEFINE mode == "Resume"
           updated == Updated(t, mode)
           facet(s) == Now(t, mode, s).facet
           left == [s \in updated |-> Left(t, mode, after, s)]
           finished(c) == c \in {SrcCh[s] : s \in SourcesOf(t)} /\ SourceOn(t, c) \in updated
                          /\ left[SourceOn(t, c)].done
           locked == {SrcCh[SrcOf[d]] : d \in {e \in ConesOf(t) :
                        Was(t, mode, e) \in {"IDLE", "LOCK_SRC"}
                        /\ after[e].state \in {"STREAMING", "DONE"}}}
           readers(c) == IF c \in locked THEN currentReader[c] \cup {t} ELSE currentReader[c]
<1>0. /\ TypeInv /\ ChannelInv /\ HandlerInv /\ ObjectInv /\ LoadInv /\ ConesOf(t) \subseteq Dst
      /\ ~internalError
  BY ConesApart DEF IInv, Moves
<1>1. /\ ~Takes(t, mode) /\ \A s : Now(t, mode, s) = source[s]
      /\ Working(t, mode) = srcSet[t]
      /\ updated = {s \in srcSet[t] : ~source[s].done}
  BY DEF Takes, Now, Working, Updated
<1>2. /\ dst' = [d \in Dst |-> IF d \in ConesOf(t) THEN after[d].dst ELSE dst[d]]
      /\ cone' = [d \in Dst |-> IF d \in ConesOf(t) THEN after[d].state ELSE cone[d]]
      /\ thState' = [thState EXCEPT ![t] = IF AllDone(t, after) THEN "IDLE" ELSE @]
      /\ UNCHANGED <<arrival, arrived, chSize>>
  BY DEF Moves, RunCones
<1>3. /\ srcSet' = [srcSet EXCEPT ![t] = Working(t, mode)]
      /\ source' = [s \in Src |->
           IF s \in updated THEN [Now(t, mode, s) EXCEPT !.done = left[s].done]
           ELSE IF s \in SourcesOf(t) THEN Now(t, mode, s) ELSE source[s]]
      /\ IF Takes(t, mode) THEN ClaimAll(t) ELSE UNCHANGED picked
      /\ offset' = [f \in Facet |->
           IF \E s \in updated : facet(s) = f
           THEN left[CHOOSE s \in updated : facet(s) = f].offset ELSE offset[f]]
      /\ content' = [c \in Chan |->
           IF finished(c) THEN content[c] \ {facet(SourceOn(t, c))} ELSE content[c]]
      /\ internalError' = \/ \E c \in {SrcCh[s] : s \in SourcesOf(t)} :
                               finished(c) /\ t \notin readers(c)
                          \/ AllDone(t, after) /\ \E s \in updated : ~left[s].done
  BY DEF Moves, RunSources
<1>4. /\ updated \subseteq srcSet[t]
      /\ \A s \in updated : left[s].done = FALSE /\ left[s].offset \in {0, offset[facet(s)]}
      /\ updated # {} => ~AllDone(t, after)
  <2>1. CASE \A s \in srcSet[t] : source[s].done
    BY <1>1, <2>1
  <2>2. CASE Resting(t)
    <3>1. \A d \in ConesOf(t) : after[d].state = "IDLE" /\ after[d].dst.offset = 0
      BY <2>2 DEF Resting, SameLoad
    <3>2. ~AllDone(t, after)
      BY <3>1, ConesApart DEF AllDone
    <3>3. \A s \in updated : left[s] = Left(t, mode, after, s) /\ s \in srcSet[t]
      BY <1>1
    <3> HIDE DEF left
    <3>4. ASSUME NEW s \in updated
          PROVE  left[s].done = FALSE /\ left[s].offset \in {0, offset[source[s].facet]}
      <4>1. s \in srcSet[t] /\ left[s] = Left(t, "Resume", after, s)
        BY <3>3
      <4>2. LET l == Left(t, "Resume", after, s) IN
            l.done = FALSE /\ l.offset \in {0, offset[source[s].facet]}
        BY <2>2, <3>1, <4>1, RestingSource
      <4>3. QED
        BY <4>1, <4>2
    <3>5. QED
      BY <1>1, <3>2, <3>4
  <2>3. QED
    BY <1>0, <2>1, <2>2 DEF HandlerInv
<1> HIDE DEF updated, left, readers
<1>5. \A c : ~finished(c)
  BY <1>4
<1> HIDE DEF finished
<1>6. content' = content /\ picked' = picked
  BY <1>0, <1>1, <1>3, <1>5 DEF ChannelInv
<1>7. internalError' = internalError
  <2>1. internalError' = FALSE
    BY <1>3, <1>4, <1>5
  <2>2. internalError = FALSE
    BY <1>0 DEF TypeInv
  <2>3. QED
    BY <2>1, <2>2
<1>8. thState' = thState /\ srcSet' = srcSet /\ cone' = cone
  BY <1>0, <1>1, <1>2, <1>3 DEF TypeInv
<1>9. source' = source
  <2>1. ASSUME NEW s \in Src
        PROVE  source'[s] = source[s]
    <3>1. CASE s \in updated
      <4>1. source'[s] = [source[s] EXCEPT !.done = FALSE]
        BY <1>1, <1>3, <1>4, <3>1
      <4>2. source[s].done = FALSE /\ source[s] \in [facet : Facet \cup {None}, done : BOOLEAN]
        BY <1>0, <1>1, <3>1 DEF TypeInv
      <4>3. QED
        BY <4>1, <4>2
    <3>2. CASE s \notin updated
      BY <1>1, <1>3, <3>2
    <3>3. QED
      BY <3>1, <3>2
  <2>2. source' = [s \in Src |-> source'[s]] /\ source = [s \in Src |-> source[s]]
    BY <1>0, <1>3 DEF TypeInv
  <2>3. QED
    BY <2>1, <2>2
<1>10. /\ offset' \in [Facet -> Nat]
       /\ \A f \in Facet : offset'[f] = offset[f] \/ offset'[f] = 0
  <2>1. ASSUME NEW f \in Facet
        PROVE  offset'[f] = offset[f] \/ offset'[f] = 0
    <3>1. CASE \E s \in updated : facet(s) = f
      <4>1. PICK r \in updated : r = CHOOSE s \in updated : facet(s) = f
        BY <3>1
      <4>2. facet(r) = f /\ offset'[f] = left[r].offset
        BY <1>3, <3>1, <4>1
      <4>3. QED
        BY <1>4, <4>2
    <3>2. CASE ~\E s \in updated : facet(s) = f
      BY <1>3, <3>2
    <3>3. QED
      BY <3>1, <3>2
  <2>2. offset \in [Facet -> Nat] /\ offset' = [f \in Facet |-> offset'[f]]
    BY <1>0, <1>3 DEF ChannelInv
  <2>3. QED
    BY <2>1, <2>2
<1>11. /\ dst' = [d \in Dst |-> dst'[d]]
       /\ \A d \in Dst : Object(d, dst'[d]) /\ SameLoad(dst[d], dst'[d])
  BY <1>0, <1>2 DEF ObjectInv, SameLoad
<1>12. /\ ObjectInv' /\ LoadInv'
       /\ \A d \in Dst : \A f : MadeBy(d, dst'[d], arrival', f) <=> MadeBy(d, dst[d], arrival, f)
  BY <1>0, <1>2, <1>11, QueueStep DEF SameLoad, SameQueue
<1>13. QED
  BY <1>2, <1>6, <1>7, <1>8, <1>9, <1>10, <1>11, <1>12, OffsetStep DEF SameLoad

-----------------------------------------------------------------------------
\* The calls.

\* Execute, Prepare and Resume keep the invariant.
LEMMA RunStep ==
  ASSUME IInv, NEW t \in TH, NEW mode \in CallModes, ~internalError,
         thState[t] = "IDLE" /\ mode # "Resume" => Missing(t) = {},
         NEW draw \in Draws(t, [s \in SourcesOf(t) |-> Now(t, mode, s).facet]),
         LET after == [d \in ConesOf(t) |-> After(t, mode, d, draw[d])] IN
         /\ RunCones(t, mode, after)
         /\ RunSources(t, mode, after)
         /\ UNCHANGED <<arrival, arrived, chSize>>
  PROVE  IInv'
<1> DEFINE after == [d \in ConesOf(t) |-> After(t, mode, d, draw[d])]
<1>1. Moves(t, mode, after)
  BY DEF Moves
<1>2. \A d \in ConesOf(t) : after[d] = After(t, mode, d, draw[d])
  OBVIOUS
<1> HIDE DEF after
<1>3. CASE thState[t] # "IDLE" \/ mode # "Resume"
  <2>1. Engaged(t, mode)
    BY <1>3, BusyEngaged, TakingEngaged DEF Takes
  <2>2. \A d \in ConesOf(t) : ConeGood(t, mode, d, after[d])
    BY <1>2, <2>1, RunCone
  <2>3. QED
    BY <1>1, <1>3, <2>1, <2>2, MovesStep
<1>4. CASE thState[t] = "IDLE" /\ mode = "Resume"
  <2>1. ASSUME NEW d \in ConesOf(t)
        PROVE  /\ Object(d, after[d].dst) /\ SameLoad(dst[d], after[d].dst)
               /\ after[d].state = cone[d]
    <3>1. cone[d] \in {"IDLE", "DONE"} /\ d \in Dst /\ Object(d, dst[d])
      BY <1>4, ConesApart DEF IInv, HandlerInv, ObjectInv
    <3>2. after[d] = [state |-> cone[d], dst |-> SetTo(mode, dst[d])]
      BY <1>2, <1>4, <3>1 DEF After, Was, Takes, ProcessLogicCone
    <3>3. Object(d, SetTo(mode, dst[d])) /\ SameLoad(dst[d], SetTo(mode, dst[d]))
      BY <3>1, SetToLoad DEF CallModes
    <3>4. QED
      BY <3>2, <3>3
  <2>2. QED
    BY <1>1, <1>4, <2>1, IdleStep
<1>5. QED
  BY <1>3, <1>4

\* So does every step of a handler.
LEMMA HandlerStep ==
  ASSUME IInv, NEW t \in TH, HandlerNext(t)
  PROVE  IInv'
<1>1. CASE Execute(t)
  <2>1. CASE Starve(t)
    BY <2>1, StarveStep
  <2>2. CASE ~Starve(t)
    BY <1>1, <2>2, RunStep DEF Execute, Run, Runs, Called, CallModes
  <2>3. QED
    BY <2>1, <2>2
<1>2. CASE Prepare(t)
  <2>1. CASE Starve(t)
    BY <2>1, StarveStep
  <2>2. CASE ~Starve(t)
    BY <1>2, <2>2, RunStep DEF Prepare, Run, Runs, Called, CallModes
  <2>3. QED
    BY <2>1, <2>2
<1>3. CASE Resume(t)
  BY <1>3, RunStep DEF Resume, Run, Called, CallModes
<1>4. CASE IsReady(t)
  BY <1>4, IsReadyStep
<1>5. QED
  BY <1>1, <1>2, <1>3, <1>4 DEF HandlerNext

\* Every step keeps the invariant.
LEMMA NextHolds == IInv /\ [Next]_vars => IInv'
<1> SUFFICES ASSUME IInv, [Next]_vars
             PROVE  IInv'
  OBVIOUS
<1>1. ASSUME NEW f \in Seed, BackDoorWrite(f)
      PROVE  IInv'
  BY <1>1, BackDoorStep
<1>2. CASE Start \/ UNCHANGED vars \/ \E g \in Group : GroupNext(g)
  BY <1>2, InertSteps, InertStep
<1>3. CASE Tick
  BY <1>3, TickStep
<1>4. ASSUME NEW t \in TH, HandlerNext(t)
      PROVE  IInv'
  BY <1>4, HandlerStep
<1>5. ASSUME NEW d \in Dst, UpdatePipeline(d)
      PROVE  IInv'
  <2>1. Advance(d) \/ Halt(d) \/ Write(d)
    BY <1>5 DEF UpdatePipeline
  <2>2. QED
    BY <1>5, <2>1, NoWriteStep, WriteStep
<1>6. QED
  BY <1>1, <1>2, <1>3, <1>4, <1>5 DEF Next

\* What links packets, queues and handlers at every moment of a run: the inductive
\* invariant behind the five theorems that follow.
THEOREM Invariance == Spec => []IInv
BY InitHolds, NextHolds, PTL DEF Spec

\* Destinations, pipelines and channels lose no byte of a packet and make none twice, for
\* any graph of handlers, any sizes and any depth of the pipelines (ProcessLogicCone,
\* UpdatePipeline, CChannel::Write).
THEOREM BytesAreConserved == Spec => []BytesConserved
BY Invariance, InvGives, PTL

\* No cone sends bytes for which its packet has not come in far enough, however the two
\* sizes compare (DataAvailable, Transfer).
THEOREM NeverAheadOfSource == Spec => []NotAheadOfSource
BY Invariance, InvGives, PTL

\* The room of a packet that is still coming in is freed only up to the slowest of the
\* cones that read it (Update, CSource::Update).
THEOREM FreedAfterAll == Spec => []FreedAfterAllCones
BY Invariance, InvGives, PTL

\* Two handlers that are not idle never work on one packet (IsReady, Lock).
THEOREM NoPacketShared == Spec => []NoSharedPacket
BY Invariance, InvGives, PTL

\* In an ordered channel the products of two packets of one destination keep the order of
\* these packets all the way (PickUp, Fill, UpdatePipeline, PushBack).
THEOREM OrderIsKept == Spec => []OrderKept
BY Invariance, InvGives, PTL

-----------------------------------------------------------------------------
\* The shares of an arbiter.

\* No child of an arbiter was added with a weight of zero: it would have no share.
WeightsGiven ==
  \A g \in Group : Kind[g] = "Arbiter" => \A i \in 1 .. Size(g) : Weight[g][i] # 0

\* The turns of the groups, as numbers of their children.
TurnInv ==
  /\ position \in [Group -> Nat]
  /\ selector \in [Group -> Nat]
  /\ \A g \in Group : position[g] \in 0 .. Size(g) - 1
  /\ SharesKept

\* The shares of the first children are finitely many.
LEMMA SharesFinite ==
  ASSUME NEW g \in Group, NEW i \in 1 .. Size(g)
  PROVE  IsFiniteSet(Shares(g, i))
<1> DEFINE part(k) == {k} \X (1 .. Weight[g][k])
           h == [k \in 1 .. i |-> part(k)]
           S == {part(k) : k \in 1 .. i}
<1>1. Size(g) \in Nat /\ i \in Nat /\ \A k \in 1 .. i : Weight[g][k] \in Nat
  BY FlowAssumption DEF Size
<1>2. \A T \in S : IsFiniteSet(T)
  <2>1. \A k \in 1 .. i : IsFiniteSet(part(k))
    BY <1>1, PlaceCount
  <2>2. QED
    BY <2>1
<1>3. h \in Surjection(1 .. i, S)
  BY DEF Surjection
<1> HIDE DEF h
<1>4. IsFiniteSet(S)
  BY <1>1, <1>3, FS_Interval, FS_Surjection
<1>5. QED
  BY <1>2, <1>4, FS_UNION DEF Shares

\* The added-up weights grow from child to child.
LEMMA SharesGrow ==
  ASSUME WeightsGiven, NEW g \in Group, Kind[g] = "Arbiter"
  PROVE  /\ Size(g) \in Nat \ {0}
         /\ WeightSum(g) \in [1 .. Size(g) -> Nat]
         /\ \A i \in 1 .. Size(g) : 0 < WeightSum(g)[i]
         /\ \A i, j \in 1 .. Size(g) : i < j => WeightSum(g)[i] < WeightSum(g)[j]
<1>1. Size(g) \in Nat \ {0}
  BY FlowAssumption DEF Size
<1>2. \A k \in 1 .. Size(g) : Weight[g][k] \in Nat \ {0}
  BY FlowAssumption DEF Size, WeightsGiven
<1>3. \A i \in 1 .. Size(g) :
        /\ IsFiniteSet(Shares(g, i)) /\ WeightSum(g)[i] = Cardinality(Shares(g, i))
        /\ Cardinality(Shares(g, i)) \in Nat
  BY SharesFinite, FS_CardinalityType DEF WeightSum
<1>4. \A i, k \in 1 .. Size(g) : <<k, 1>> \in Shares(g, i) <=> k <= i
  <2> SUFFICES ASSUME NEW i \in 1 .. Size(g), NEW k \in 1 .. Size(g)
               PROVE  <<k, 1>> \in Shares(g, i) <=> k <= i
    OBVIOUS
  <2>1. 1 \in 1 .. Weight[g][k]
    BY <1>2
  <2>2. <<k, 1>> \in {k} \X (1 .. Weight[g][k])
    BY <2>1
  <2>3. ASSUME k <= i
        PROVE  <<k, 1>> \in Shares(g, i)
    <3>1. k \in 1 .. i
      BY <1>1, <2>3
    <3>2. QED
      BY <2>2, <3>1 DEF Shares
  <2>4. ASSUME <<k, 1>> \in Shares(g, i)
        PROVE  k <= i
    <3>1. PICK m \in 1 .. i : <<k, 1>> \in {m} \X (1 .. Weight[g][m])
      BY <2>4 DEF Shares
    <3>2. k = m
      BY <3>1
    <3>3. QED
      BY <1>1, <3>2
  <2>5. QED
    BY <2>3, <2>4
<1>5. \A i \in 1 .. Size(g) : 0 < WeightSum(g)[i]
  <2> SUFFICES ASSUME NEW i \in 1 .. Size(g)
               PROVE  0 < WeightSum(g)[i]
    OBVIOUS
  <2>1. <<i, 1>> \in Shares(g, i)
    BY <1>1, <1>4
  <2>2. Cardinality(Shares(g, i)) # 0
    BY <1>3, <2>1, FS_EmptySet
  <2>3. QED
    BY <1>3, <2>2
<1>6. ASSUME NEW i \in 1 .. Size(g), NEW j \in 1 .. Size(g), i < j
      PROVE  WeightSum(g)[i] < WeightSum(g)[j]
  <2>1. Shares(g, i) \subseteq Shares(g, j)
    <3>1. 1 .. i \subseteq 1 .. j
      BY <1>1, <1>6
    <3>2. QED
      BY <3>1 DEF Shares
  <2>2. Shares(g, i) # Shares(g, j)
    <3>1. <<j, 1>> \in Shares(g, j) /\ <<j, 1>> \notin Shares(g, i)
      BY <1>1, <1>4, <1>6
    <3>2. QED
      BY <3>1
  <2>3. Cardinality(Shares(g, i)) <= Cardinality(Shares(g, j))
        /\ Cardinality(Shares(g, i)) # Cardinality(Shares(g, j))
    BY <1>3, <2>1, <2>2, FS_Subset
  <2>4. QED
    BY <1>3, <2>3
<1>7. WeightSum(g) \in [1 .. Size(g) -> Nat]
  BY <1>3 DEF WeightSum
<1>8. QED
  BY <1>1, <1>5, <1>6, <1>7

\* At the beginning every group is at its first child.
LEMMA TurnInit == WeightsGiven /\ Init => TurnInv
<1> SUFFICES ASSUME WeightsGiven, Init
             PROVE  TurnInv
  OBVIOUS
<1>1. position = [g \in Group |-> 0] /\ selector = [g \in Group |-> 0]
  BY DEF Init
<1>2. \A g \in Group : Size(g) \in Nat \ {0}
  BY FlowAssumption DEF Size
<1>3. ASSUME NEW g \in Group, Kind[g] = "Arbiter"
      PROVE  0 < WeightSum(g)[1]
  BY <1>2, <1>3, SharesGrow
<1>4. SharesKept
  BY <1>1, <1>3 DEF SharesKept
<1>5. QED
  BY <1>1, <1>2, <1>4 DEF TurnInv

\* Only Turn passes a turn on.
LEMMA TurnsRest ==
  ASSUME [Next]_vars
  PROVE  UNCHANGED <<position, selector>> \/ \E g \in Group : Turn(g)
<1>1. ASSUME NEW f \in Seed, BackDoorWrite(f)
      PROVE  UNCHANGED <<position, selector>>
  BY <1>1 DEF BackDoorWrite, groupVars
<1>2. CASE Start \/ Tick \/ UNCHANGED vars
  BY <1>2 DEF Start, Tick, vars, groupVars
<1>3. ASSUME NEW t \in TH, HandlerNext(t)
      PROVE  UNCHANGED <<position, selector>>
  BY <1>3 DEF HandlerNext, Execute, Prepare, Resume, IsReady, Starve, Run, groupVars
<1>4. ASSUME NEW g \in Group, PrepareOthers(g) \/ SelectTH(g) \/ Dispatch(g)
      PROVE  UNCHANGED <<position, selector>>
  BY <1>4 DEF PrepareOthers, SelectTH, Dispatch, groupVars
<1>5. ASSUME NEW d \in Dst, UpdatePipeline(d)
      PROVE  UNCHANGED <<position, selector>>
  BY <1>5 DEF UpdatePipeline, groupVars
<1>6. QED
  BY <1>1, <1>2, <1>3, <1>4, <1>5 DEF Next, GroupNext

\* The turn of an arbiter passes on with the last point of a share.
LEMMA ArbiterTurn ==
  ASSUME WeightsGiven, TurnInv, NEW g \in Group, Turn(g), Kind[g] = "Arbiter"
  PROVE  LET now == position'[g] + 1 IN
         /\ position'[g] \in 0 .. Size(g) - 1
         /\ selector'[g] \in Nat
         /\ selector'[g] < WeightSum(g)[now]
         /\ now > 1 => selector'[g] >= WeightSum(g)[now - 1]
<1> DEFINE n == Size(g)
           sum == WeightSum(g)
           p == position[g]
           s == selector[g]
<1>1. /\ n \in Nat \ {0} /\ sum \in [1 .. n -> Nat]
      /\ \A i \in 1 .. n : 0 < sum[i]
      /\ \A i, j \in 1 .. n : i < j => sum[i] < sum[j]
  BY SharesGrow
<1>2. /\ p \in 0 .. n - 1 /\ s \in Nat /\ s < sum[p + 1]
      /\ p > 0 => s >= sum[p]
      /\ position \in [Group -> Nat] /\ selector \in [Group -> Nat]
  BY DEF TurnInv, SharesKept
<1>3. CASE UNCHANGED <<position, selector>>
  BY <1>2, <1>3
<1>4. CASE ~UNCHANGED <<position, selector>>
  <2>1. /\ position' = IF s + 1 >= sum[p + 1] THEN [position EXCEPT ![g] = (@ + 1) % n] ELSE position
        /\ selector' = [selector EXCEPT ![g] = (@ + 1) % sum[n]]
    BY <1>4 DEF Turn, Passes
  <2>2. /\ selector'[g] = (s + 1) % sum[n]
        /\ position'[g] = IF s + 1 >= sum[p + 1] THEN (p + 1) % n ELSE p
    BY <1>2, <2>1
  <2> HIDE DEF n, sum, p, s
  <2>3. /\ n \in 1 .. n /\ p + 1 \in 1 .. n /\ sum[n] \in Nat \ {0} /\ sum[p + 1] \in Nat
        /\ p + 1 # n => p + 1 < n /\ p + 2 \in 1 .. n
        /\ p > 0 => p \in 1 .. n /\ sum[p] \in Nat
        /\ p \in Nat
    BY <1>1, <1>2
  <2>4. \A a, b \in Nat : a < b => a % b = a
    OBVIOUS
  <2>5. \A b \in Nat \ {0} : b % b = 0
    OBVIOUS
  <2>6. CASE s + 1 < sum[p + 1]
    <3>1. s + 1 < sum[n]
      BY <1>1, <1>2, <2>3, <2>6
    <3>2. selector'[g] = s + 1 /\ position'[g] = p
      BY <1>2, <2>2, <2>3, <2>4, <2>6, <3>1
    <3>3. QED
      BY <1>2, <2>3, <2>6, <3>2 DEF n, sum
  <2>7. CASE s + 1 >= sum[p + 1] /\ p + 1 = n
    <3>1. s + 1 = sum[n]
      BY <1>2, <2>3, <2>7
    <3>2. selector'[g] = 0 /\ position'[g] = 0
      BY <2>2, <2>3, <2>5, <2>7, <3>1
    <3>3. QED
      BY <1>1, <2>3, <3>2 DEF n, sum
  <2>8. CASE s + 1 >= sum[p + 1] /\ p + 1 # n
    <3>1. s + 1 = sum[p + 1]
      BY <1>2, <2>3, <2>8
    <3>2. s + 1 < sum[n] /\ s + 1 < sum[p + 2]
      BY <1>1, <2>3, <2>8, <3>1
    <3>3. selector'[g] = s + 1 /\ position'[g] = p + 1
      BY <1>2, <2>2, <2>3, <2>4, <2>8, <3>2
    <3>4. QED
      BY <1>1, <1>2, <2>3, <2>8, <3>1, <3>2, <3>3 DEF n, sum
  <2>9. QED
    BY <1>2, <2>3, <2>6, <2>7, <2>8
<1>5. QED
  BY <1>3, <1>4

\* Every step keeps the turns within the children and their shares.
LEMMA TurnNext == WeightsGiven /\ TurnInv /\ [Next]_vars => TurnInv'
<1> SUFFICES ASSUME WeightsGiven, TurnInv, [Next]_vars
             PROVE  TurnInv'
  OBVIOUS
<1>1. CASE UNCHANGED <<position, selector>>
  BY <1>1 DEF TurnInv, SharesKept
<1>2. ASSUME NEW g \in Group, Turn(g)
      PROVE  TurnInv'
  <2>1. /\ position \in [Group -> Nat] /\ selector \in [Group -> Nat]
        /\ \A h \in Group : position[h] \in 0 .. Size(h) - 1
        /\ SharesKept
        /\ Size(g) \in Nat \ {0}
    BY FlowAssumption DEF TurnInv, Size
  <2>2. /\ position' = [position EXCEPT ![g] = position'[g]]
        /\ selector' = [selector EXCEPT ![g] = selector'[g]]
        /\ \A h \in Group : h # g => position'[h] = position[h] /\ selector'[h] = selector[h]
    BY <1>2, <2>1 DEF Turn
  <2>3. Kind[g] # "Arbiter" =>
          selector'[g] = selector[g] /\ position'[g] \in 0 .. Size(g) - 1
    <3>1. Kind[g] # "Arbiter" =>
            selector'[g] = selector[g]
            /\ (position'[g] = position[g] \/ position'[g] = (position[g] + 1) % Size(g))
      BY <1>2, <2>1 DEF Turn
    <3>2. position[g] \in Nat /\ (position[g] + 1) % Size(g) \in 0 .. Size(g) - 1
      BY <2>1
    <3>3. QED
      BY <2>1, <3>1, <3>2
  <2>4. Kind[g] = "Arbiter" =>
          LET now == position'[g] + 1 IN
          /\ position'[g] \in 0 .. Size(g) - 1
          /\ selector'[g] \in Nat
          /\ selector'[g] < WeightSum(g)[now]
          /\ now > 1 => selector'[g] >= WeightSum(g)[now - 1]
    BY <1>2, ArbiterTurn
  <2>5. /\ position'[g] \in 0 .. Size(g) - 1 /\ position'[g] \in Nat /\ selector'[g] \in Nat
    BY <2>1, <2>3, <2>4
  <2>6. SharesKept'
    BY <2>1, <2>2, <2>4 DEF SharesKept
  <2>7. QED
    BY <2>1, <2>2, <2>5, <2>6 DEF TurnInv
<1>3. QED
  BY <1>1, <1>2, TurnsRest

\* The selector of an arbiter lies in the share of the child whose turn it is, whatever
\* the weights are, as long as none is zero.
THEOREM ArbiterKeepsShares ==
  ASSUME WeightsGiven
  PROVE  Spec => []SharesKept
<1>1. Init => TurnInv
  BY TurnInit
<1>2. TurnInv /\ [Next]_vars => TurnInv'
  BY TurnNext
<1>3. TurnInv => SharesKept
  BY DEF TurnInv
<1>4. QED
  BY <1>1, <1>2, <1>3, PTL DEF Spec


-----------------------------------------------------------------------------
\* How the channels of a design implement Channel: what leaves a channel alone, and the
\* writes at the back door.

\* Everything that the mapping of channel c reads.
Quiet(c) ==
  /\ elaborating' = elaborating
  /\ content'[c] = content[c]
  /\ arrived'[c] = arrived[c]
  /\ occupied'[c] = occupied[c]
  /\ currentReader'[c] = currentReader[c]
  /\ currentWriter'[c] = currentWriter[c]
  /\ overflow'[c] = overflow[c]
  /\ \A f \in FacetsOf(c) : /\ arrival'[f] = arrival[f]
                            /\ chSize'[f] = chSize[f]
                            /\ offset'[f] = offset[f]
                            /\ f \in picked' <=> f \in picked
  /\ \A t \in ReadersOf(c) : ReadingOn(t, c)' = ReadingOn(t, c)

\* The facets of which d has written a part.
Begun(d) == {f \in Facet : f.by = d /\ 0 < chSize[f] /\ chSize[f] < f.size}

\* Some member of S, or None.
OneOf(S) == IF S = {} THEN None ELSE CHOOSE f \in S : TRUE

\* WritingOf by the facets begun.
LEMMA WritingIs ==
  ASSUME NEW d
  PROVE  WritingOf(d) = OneOf(Begun(d)) /\ WritingOf(d)' = OneOf(Begun(d)')
BY DEF WritingOf, OneOf, Begun

\* Who keeps the counts of its facets writes what it wrote.
LEMMA QuietWriting ==
  ASSUME NEW d \in Dst, \A f \in FacetsBy(d) : chSize'[f] = chSize[f]
  PROVE  WritingOf(d)' = WritingOf(d)
<1>1. \A f \in Facet : f.by = d => f \in FacetsBy(d)
  BY DEF FacetsBy
<1>2. Begun(d)' = Begun(d)
  BY <1>1 DEF Begun
<1>3. QED
  BY <1>2, WritingIs

\* A step that keeps all that is read of a channel is no step of that channel.
LEMMA QuietStutters ==
  ASSUME NEW c \in Chan, Quiet(c)
  PROVE  UNCHANGED Ch(c)!vars
<1>0. \A d \in WritersOf(c) : FacetsBy(d) \subseteq FacetsOf(c) /\ d \in Dst
  BY DEF WritersOf, FacetsBy, FacetsOf, Home
<1>1. \A d \in WritersOf(c) : WritingOf(d)' = WritingOf(d)
  BY <1>0, QuietWriting DEF Quiet
<1>2. QED
  BY <1>1 DEF Quiet, Ch!vars

\* An empty design has empty channels.
LEMMA InitChannel ==
  ASSUME Init, NEW c \in Chan
  PROVE Ch(c)!Init
<1>1. \A d : WritingOf(d) = None
  <2> SUFFICES ASSUME NEW d PROVE WritingOf(d) = None
    OBVIOUS
  <2>1. Begun(d) = {}
    BY DEF Init, Begun
  <2>2. QED
    BY <2>1, WritingIs DEF OneOf
<1>2. \A t \in ReadersOf(c) : ReadingOn(t, c) = None
  BY DEF Init, ReadingOn, ReadersOf
<1> QED
BY <1>1, <1>2 DEF Init, Ch!Init, FacetsOf

\* The variables of the channels are functions, for EXCEPT to be read field by field.
Functions ==
 /\ arrival = [g \in Facet |-> arrival[g]] /\ chSize = [g \in Facet |-> chSize[g]]
 /\ occupied = [e \in Chan |-> occupied[e]] /\ content = [e \in Chan |-> content[e]]
 /\ arrived = [e \in Chan |-> arrived[e]] /\ overflow = [e \in Chan |-> overflow[e]]
 /\ currentReader = [e \in Chan |-> currentReader[e]]
 /\ currentWriter = [e \in Chan |-> currentWriter[e]]

\* The readers of c read what they read.
SameReading(c) == \A t \in ReadersOf(c) : ReadingOn(t, c)' = ReadingOn(t, c)

\* The writers of c write what they wrote.
SameWriting(c) == \A d \in WritersOf(c) : WritingOf(d)' = WritingOf(d)

\* A write at the back door of one channel is a step of it, and none of the others.
LEMMA BackDoorChannel ==
  ASSUME NEW f \in Seed, BackDoorWrite(f), Functions, NEW c \in Chan
  PROVE  UNCHANGED Ch(c)!vars \/ Ch(c)!Next
<1>0. f \in Facet /\ f \in FacetsOf(Home(f)) /\ Home(f) \in Chan /\ Home(f) = SrcCh[f.by]
  BY HomeType, FlowAssumption DEF FacetsOf, Seed, Home
<1>1. SameReading(c)
  BY DEF BackDoorWrite, SameReading, ReadingOn, thVars
<1>2. \A d \in Dst : f.by # d
  BY FlowAssumption DEF Seed
<1>3. \A d \in Dst : WritingOf(d)' = WritingOf(d)
  <2> SUFFICES ASSUME NEW d \in Dst PROVE \A g \in FacetsBy(d) : chSize'[g] = chSize[g]
    BY QuietWriting
  <2> QED BY <1>2 DEF BackDoorWrite, FacetsBy, Functions
<1>4. CASE c # Home(f)
  <2>1. Quiet(c)
    BY <1>0, <1>1, <1>4 DEF Quiet, Functions, BackDoorWrite, PushBack, SameReading, FacetsOf, designVars
  <2> QED BY <2>1, QuietStutters
<1>5. CASE c = Home(f)
  <2>1. SameWriting(c) BY <1>3 DEF SameWriting, WritersOf
  <2>a. f \in FacetsOf(c) BY <1>0, <1>5
  <2>b. FacetsOf(c) \subseteq Facet BY DEF FacetsOf
  <2>2. Ch(c)!BackDoorWrite(f)
    <3>1. elaborating /\ arrival[f] = 0 /\ elaborating' = elaborating BY DEF BackDoorWrite, designVars
    <3>2. /\ content'[c] = content[c] \cup {f}
          /\ arrived'[c] = arrived[c] + 1
          /\ occupied'[c] = occupied[c] + f.size
          /\ currentReader'[c] = currentReader[c] /\ currentWriter'[c] = currentWriter[c]
          /\ offset' = offset /\ picked' = picked
          /\ arrival' = [arrival EXCEPT ![f] = arrived[c] + 1]
          /\ chSize' = [chSize EXCEPT ![f] = f.size]
          /\ overflow'[c] = (overflow[c] \/ (Ch(c)!Finite /\ occupied[c] + f.size > Capacity[c]))
       BY <1>5 DEF BackDoorWrite, PushBack, Functions
    <3>3. [g \in FacetsOf(c) |-> arrival'[g]] = [[g \in FacetsOf(c) |-> arrival[g]] EXCEPT ![f] = arrived[c] + 1]
      BY <3>2, <2>a, <2>b DEF Functions
    <3>4. [g \in FacetsOf(c) |-> chSize'[g]] = [[g \in FacetsOf(c) |-> chSize[g]] EXCEPT ![f] = f.size]
      BY <3>2, <2>a, <2>b DEF Functions
    <3> QED BY <3>1, <3>2, <3>3, <3>4, <1>1, <2>1, <2>a DEF Ch!BackDoorWrite, Ch!PushBack, Ch!Finite, SameReading, SameWriting
  <2> QED BY <2>2, <2>a DEF Ch!Next
<1> QED BY <1>4, <1>5

-----------------------------------------------------------------------------
\* The facets of a destination are sent one after the other.

\* All of f is ahead of all of g, between _PendingQueue and the channel: g is sent only
\* when f was, and nothing of g is in the channel while some of f is not.
Clear(d, r, size, f, g) ==
  /\ \A i \in Places(d, r, f), j \in Places(d, r, g) : j < i
  /\ Places(d, r, g) # {} \/ size[g] > 0 => f \notin ToSet(r.pending)
  /\ size[g] > 0 => Places(d, r, f) = {}

\* The facets of d are sent one after the other, and the last bite of each is marked.
InLine(d, r, size) ==
  /\ \A f, g \in FacetsBy(d) : f # g => Clear(d, r, size, f, g) \/ Clear(d, r, size, g, f)
  /\ \A f \in FacetsBy(d) : \A i \in Places(d, r, f) :
       BiteAt(r, i).last <=> /\ f \notin ToSet(r.pending)
                             /\ \A j \in Places(d, r, f) : i <= j

\* Equal queues and counts are in the same line.
LEMMA SameLine ==
  ASSUME NEW d, NEW r, NEW q, SameQueue(r, q), NEW size, NEW size2,
         \A f \in FacetsBy(d) : size2[f] = size[f], InLine(d, r, size)
  PROVE  InLine(d, q, size2)
<1>1. \A i : BiteAt(q, i) = BiteAt(r, i)
  BY DEF SameQueue, BiteAt
<1>2. \A f : Places(d, q, f) = Places(d, r, f)
  BY SameKeeps
<1>3. q.pending = r.pending
  BY DEF SameQueue
<1>4. QED
  BY <1>1, <1>2, <1>3 DEF InLine, Clear

\* What is pending and not in front has not been sent.
LEMMA UnsentIs ==
  ASSUME NEW d \in Dst, NEW r, Object(d, r), NEW arr, NEW size \in [Facet -> Nat],
         Conserved(d, r, arr, size), NEW f \in FacetsBy(d),
         f \notin ToSet(r.pending) \/ Head(r.pending) # f,
         MadeBy(d, r, arr, f) => f \in ToSet(r.pending)
  PROVE  size[f] = 0 /\ Places(d, r, f) = {}
<1>1. SentBy(d, r, arr, f) = 0
  BY DEF SentBy
<1>2. size[f] \in Nat /\ Cardinality(BytesIn(d, r, f)) \in Nat
  BY BytesFinite DEF FacetsBy
<1>3. Cardinality(BytesIn(d, r, f)) = 0 /\ size[f] = 0
  BY <1>1, <1>2 DEF Conserved
<1>4. BytesIn(d, r, f) = {}
  BY <1>3, BytesFinite, FS_EmptySet
<1>5. \A i \in Places(d, r, f) : <<i, 1>> \in BytesIn(d, r, f)
  <2>1. \A i \in Places(d, r, f) : 1 \in 1 .. BiteAt(r, i).size
    BY PlacesType
  <2>2. QED
    BY <2>1 DEF BytesIn
<1>6. QED
  BY <1>3, <1>4, <1>5

\* Products of a new packet come after all that was made.
LEMMA FillLine ==
  ASSUME NEW d \in Dst, NEW r, NEW b, NEW p, Object(d, r), Filled(d, r, b, p),
         NEW arr, NEW size \in [Facet -> Nat],
         NewFor(d, r, arr, p), Conserved(d, r, arr, size), InLine(d, r, size)
  PROVE  InLine(d, b, size)
<1>1. \A i : BiteAt(b, i) = BiteAt(r, i)
  BY DEF Filled, BiteAt
<1>2. \A f : Places(d, b, f) = Places(d, r, f)
  BY <1>1 DEF Places
<1>3. PICK facets \in Seq(FacetsBy(d)) :
        /\ b.pending = r.pending \o facets
        /\ \A k \in DOMAIN facets : facets[k].of = p
  BY DEF Filled
<1>4. \A f : f \in ToSet(b.pending) <=> f \in ToSet(r.pending) \/ f \in ToSet(facets)
  <2>1. r.pending \in Seq(FacetsBy(d))
    BY DEF Object
  <2> DEFINE u == r.pending
             n == Len(u)
  <2>2. /\ n \in Nat /\ DOMAIN u = 1 .. n /\ DOMAIN facets = 1 .. Len(facets) /\ Len(facets) \in Nat
        /\ DOMAIN (u \o facets) = 1 .. n + Len(facets)
        /\ \A k \in 1 .. n + Len(facets) : (u \o facets)[k] = IF k <= n THEN u[k] ELSE facets[k - n]
    BY <2>1
  <2> HIDE DEF u, n
  <2>3. \A k \in DOMAIN facets : k + n \in DOMAIN (u \o facets) /\ (u \o facets)[k + n] = facets[k]
    <3> SUFFICES ASSUME NEW k \in DOMAIN facets
                 PROVE  k + n \in DOMAIN (u \o facets) /\ (u \o facets)[k + n] = facets[k]
      OBVIOUS
    <3>1. k + n \in 1 .. n + Len(facets) /\ ~(k + n <= n) /\ (k + n) - n = k
      BY <2>2
    <3>2. QED
      BY <2>2, <3>1
  <2>4. \A k \in DOMAIN u : k \in DOMAIN (u \o facets) /\ (u \o facets)[k] = u[k]
    BY <2>2
  <2>5. \A k \in DOMAIN (u \o facets) :
           (k \in DOMAIN u /\ (u \o facets)[k] = u[k])
           \/ (k - n \in DOMAIN facets /\ (u \o facets)[k] = facets[k - n])
    BY <2>2
  <2>6. \A f : f \in ToSet(u \o facets) <=> f \in ToSet(u) \/ f \in ToSet(facets)
    <3>1. \A v, f : f \in ToSet(v) <=> \E k \in DOMAIN v : v[k] = f
      BY DEF ToSet
    <3>2. ASSUME NEW f
          PROVE  (\E k \in DOMAIN (u \o facets) : (u \o facets)[k] = f)
                 <=> (\E k \in DOMAIN u : u[k] = f) \/ (\E k \in DOMAIN facets : facets[k] = f)
      BY <2>3, <2>4, <2>5
    <3>3. QED
      BY <3>1, <3>2
  <2>7. QED
    BY <1>3, <2>6 DEF u
<1>5. \A f \in FacetsBy(d) : f \in ToSet(facets) =>
        f \notin ToSet(r.pending) /\ size[f] = 0 /\ Places(d, r, f) = {}
  <2> SUFFICES ASSUME NEW f \in FacetsBy(d), f \in ToSet(facets)
               PROVE  f \notin ToSet(r.pending) /\ size[f] = 0 /\ Places(d, r, f) = {}
    OBVIOUS
  <2>1. f.of = p
    BY <1>3 DEF ToSet
  <2>2. ~MadeBy(d, r, arr, f)
    BY <2>1 DEF NewFor
  <2>3. QED
    BY <2>2, UnsentIs DEF MadeBy
<1>6. ASSUME NEW f \in FacetsBy(d), NEW g \in FacetsBy(d), f # g
      PROVE  Clear(d, b, size, f, g) \/ Clear(d, b, size, g, f)
  <2>1. CASE g \in ToSet(facets)
    BY <1>2, <1>5, <2>1 DEF Clear
  <2>2. CASE f \in ToSet(facets)
    BY <1>2, <1>5, <2>2 DEF Clear
  <2>3. CASE f \notin ToSet(facets) /\ g \notin ToSet(facets)
    BY <1>2, <1>4, <1>6, <2>3 DEF Clear, InLine
  <2>4. QED
    BY <2>1, <2>2, <2>3
<1>7. QED
  BY <1>1, <1>2, <1>4, <1>5, <1>6 DEF InLine

\* The bite that TakeBite sends is behind all others.
LEMMA BiteLine ==
  ASSUME NEW d \in Dst, NEW r, NEW q, Object(d, r), Object(d, q), BiteSent(d, r, q),
         NEW arr, NEW size \in [Facet -> Nat],
         Conserved(d, r, arr, size), InLine(d, r, size)
  PROVE  InLine(d, q, size)
<1> DEFINE h == Head(r.pending)
           n == Stages[d]
<1>1. /\ r.pending \in Seq(FacetsBy(d)) /\ r.pending # <<>>
      /\ \A j, k \in DOMAIN r.pending : r.pending[j] = r.pending[k] => j = k
      /\ h \in FacetsBy(d) /\ h \in ToSet(r.pending)
  <2>1. /\ r.pending \in Seq(FacetsBy(d)) /\ r.pending # <<>>
        /\ \A j, k \in DOMAIN r.pending : r.pending[j] = r.pending[k] => j = k
    BY DEF Object, BiteSent
  <2>2. h = r.pending[1] /\ 1 \in DOMAIN r.pending /\ h \in FacetsBy(d)
    BY <2>1
  <2>3. QED
    BY <2>1, <2>2 DEF ToSet
<1>2. /\ \A f : f \in ToSet(q.pending) <=> f \in ToSet(r.pending) /\ (f # h \/ ~q.bite.last)
  <2>1. CASE ~q.bite.last
    BY <2>1, <1>1 DEF BiteSent
  <2>2. CASE q.bite.last
    <3>1. q.pending = Tail(r.pending)
      BY <2>2 DEF BiteSent
    <3> DEFINE u == r.pending
    <3>2. /\ DOMAIN Tail(u) = 1 .. Len(u) - 1
          /\ \A j \in DOMAIN Tail(u) : Tail(u)[j] = u[j + 1] /\ j + 1 \in DOMAIN u
          /\ \A j \in DOMAIN Tail(u) : Tail(u)[j] # Head(u)
      BY <1>1, TailOnce
    <3>3. \A k \in DOMAIN u : u[k] # Head(u) => k - 1 \in DOMAIN Tail(u) /\ Tail(u)[k - 1] = u[k]
      <4> SUFFICES ASSUME NEW k \in DOMAIN u, u[k] # Head(u)
                   PROVE  k - 1 \in DOMAIN Tail(u) /\ Tail(u)[k - 1] = u[k]
        OBVIOUS
      <4>1. Head(u) = u[1] /\ DOMAIN u = 1 .. Len(u) /\ Len(u) \in Nat
        BY <1>1
      <4>2. k - 1 \in 1 .. Len(u) - 1 /\ (k - 1) + 1 = k
        BY <4>1
      <4>3. QED
        BY <3>2, <4>2
    <3> HIDE DEF u
    <3>4. \A f : f \in ToSet(Tail(u)) <=> f \in ToSet(u) /\ f # Head(u)
      BY <3>2, <3>3 DEF ToSet
    <3>5. QED
      BY <2>2, <3>1, <3>4 DEF u
  <2>3. QED
    BY <2>1, <2>2
<1> HIDE DEF h
<1>3. /\ \A i : i # 0 => BiteAt(q, i) = BiteAt(r, i)
      /\ BiteAt(r, 0) = NoBite /\ BiteAt(q, 0) = q.bite /\ q.bite.facet = h /\ q.bite # NoBite
  BY NoBiteIsNone DEF BiteAt, BiteSent, h
<1>4. n \in Nat /\ 0 \in 0 .. n
  BY DestinationAssumption
<1>5. /\ \A f : f # h => Places(d, q, f) = Places(d, r, f)
      /\ Places(d, q, h) = Places(d, r, h) \cup {0}
      /\ \A f : 0 \notin Places(d, r, f)
      /\ \A f : Places(d, r, f) \subseteq 0 .. n
      /\ \A f : \A i \in Places(d, r, f) : 0 < i /\ i # 0
  <2>1. /\ \A f : f # h => Places(d, q, f) = Places(d, r, f)
        /\ Places(d, q, h) = Places(d, r, h) \cup {0}
        /\ \A f : 0 \notin Places(d, r, f)
        /\ \A f : Places(d, r, f) \subseteq 0 .. n
    BY <1>3, <1>4 DEF Places
  <2>2. QED
    BY <1>4, <2>1
<1>6. \A g \in FacetsBy(d) : g # h /\ g \in ToSet(r.pending) => size[g] = 0 /\ Places(d, r, g) = {}
  BY UnsentIs DEF h
<1>7. ASSUME NEW g \in FacetsBy(d), g # h
      PROVE  Clear(d, q, size, h, g) \/ Clear(d, q, size, g, h)
  <2>1. CASE size[g] = 0 /\ Places(d, r, g) = {}
    <3>1. ~(size[g] > 0)
      BY <2>1
    <3>2. QED
      BY <1>5, <1>7, <2>1, <3>1 DEF Clear
  <2>2. CASE ~(size[g] = 0 /\ Places(d, r, g) = {})
    <3>1. g \notin ToSet(r.pending)
      BY <1>6, <1>7, <2>2
    <3>2. size[g] > 0 \/ Places(d, r, g) # {}
      BY <2>2 DEF FacetsBy
    <3>3. Clear(d, r, size, g, h)
      BY <1>1, <1>7, <3>2 DEF InLine, Clear
    <3>4. \A i \in Places(d, q, g), j \in Places(d, q, h) : j < i
      BY <1>5, <1>7, <3>3 DEF Clear
    <3>5. g \notin ToSet(q.pending)
      BY <1>2, <3>1
    <3>6. QED
      BY <1>5, <1>7, <3>3, <3>4, <3>5 DEF Clear
  <2>3. QED
    BY <2>1, <2>2
<1>8. ASSUME NEW f \in FacetsBy(d), NEW g \in FacetsBy(d), f # g
      PROVE  Clear(d, q, size, f, g) \/ Clear(d, q, size, g, f)
  <2>1. CASE f = h \/ g = h
    BY <1>7, <1>8, <2>1
  <2>2. CASE f # h /\ g # h
    BY <1>2, <1>5, <1>8, <2>2 DEF InLine, Clear
  <2>3. QED
    BY <2>1, <2>2
<1>9. ASSUME NEW f \in FacetsBy(d), NEW i \in Places(d, q, f)
      PROVE  BiteAt(q, i).last <=> /\ f \notin ToSet(q.pending)
                                   /\ \A j \in Places(d, q, f) : i <= j
  <2>1. CASE f # h
    <3>1. i \in Places(d, r, f) /\ BiteAt(q, i) = BiteAt(r, i)
      BY <1>3, <1>5, <1>9, <2>1
    <3>2. QED
      BY <1>2, <1>5, <2>1, <3>1 DEF InLine
  <2>2. CASE f = h /\ i = 0
    <3>1. \A j \in Places(d, q, h) : 0 <= j
      BY <1>4, <1>5
    <3>2. QED
      BY <1>1, <1>2, <1>3, <2>2, <3>1
  <2>3. CASE f = h /\ i # 0
    <3>1. i \in Places(d, r, h) /\ BiteAt(q, i) = BiteAt(r, i) /\ 0 \in Places(d, q, h) /\ ~(i <= 0)
      BY <1>3, <1>4, <1>5, <1>9, <2>3
    <3>2. ~BiteAt(r, i).last
      BY <1>1, <3>1 DEF InLine
    <3>3. QED
      BY <2>3, <3>1, <3>2
  <2>4. QED
    BY <2>1, <2>2, <2>3
<1>10. QED
  BY <1>8, <1>9 DEF InLine

-----------------------------------------------------------------------------
\* Lines and shifts of the pipeline.

\* A shift moves each bite that stays by one place.
LEMMA ShiftPlaces ==
  ASSUME NEW d \in Dst, NEW r, NEW q, Object(d, r), Object(d, q), Shifted(d, r, q)
  PROVE  LET n == Stages[d] IN
         /\ \A f : \A j \in Places(d, q, f) :
              j - 1 \in Places(d, r, f) /\ j - 1 # n /\ j \in Nat /\ BiteAt(q, j) = BiteAt(r, j - 1)
         /\ \A f : \A i \in Places(d, r, f) : i # n => i + 1 \in Places(d, q, f)
         /\ \A f : \A i \in Places(d, r, f) : i \in Nat /\ i <= n
<1> DEFINE n == Stages[d]
<1>1. n \in Nat \ {0}
  BY DestinationAssumption
<1>2. /\ \A f : Places(d, q, f) \subseteq 0 .. n
      /\ \A f : Places(d, r, f) \subseteq 0 .. n
  BY PlacesType
<1>3. /\ \A f : \A j \in Places(d, q, f) : j - 1 \in Places(d, r, f) /\ j - 1 # n /\ j # 0
      /\ \A f : \A i \in Places(d, r, f) : i # n => i + 1 \in Places(d, q, f)
  BY ShiftCounted
<1>4. \A j \in 1 .. n : BiteAt(q, j) = BiteAt(r, j - 1)
  <2> SUFFICES ASSUME NEW j \in 1 .. n
               PROVE  BiteAt(q, j) = BiteAt(r, j - 1)
    OBVIOUS
  <2>1. q.unit[j] = IF j = 1 THEN r.bite ELSE r.unit[j - 1]
    BY DEF Shifted
  <2>2. j # 0 /\ (j = 1 <=> j - 1 = 0)
    BY <1>1
  <2>3. QED
    BY <2>1, <2>2 DEF BiteAt
<1>5. \A f : \A j \in Places(d, q, f) : j \in 1 .. n
  BY <1>1, <1>2, <1>3
<1>6. QED
  BY <1>1, <1>2, <1>3, <1>4, <1>5

\* A shift keeps the line; a bite at the top goes to the channel.
LEMMA ShiftLine ==
  ASSUME NEW d \in Dst, NEW r, NEW q, Object(d, r), Object(d, q), Shifted(d, r, q),
         NEW size \in [Facet -> Nat], NEW size2 \in [Facet -> Nat], InLine(d, r, size),
         \A f \in FacetsBy(d) : size2[f] = size[f] \/ Stages[d] \in Places(d, r, f)
  PROVE  InLine(d, q, size2)
<1> DEFINE n == Stages[d]
<1>1. /\ \A f : \A j \in Places(d, q, f) :
           j - 1 \in Places(d, r, f) /\ j - 1 # n /\ j \in Nat /\ BiteAt(q, j) = BiteAt(r, j - 1)
      /\ \A f : \A i \in Places(d, r, f) : i # n => i + 1 \in Places(d, q, f)
      /\ \A f : \A i \in Places(d, r, f) : i \in Nat /\ i <= n
      /\ n \in Nat
  BY ShiftPlaces, DestinationAssumption
<1>2. q.pending = r.pending
  BY DEF Shifted
<1>3. ASSUME NEW f \in FacetsBy(d), NEW g \in FacetsBy(d), Clear(d, r, size, f, g)
      PROVE  Clear(d, q, size2, f, g)
  <2>1. ASSUME NEW i \in Places(d, q, f), NEW j \in Places(d, q, g)
        PROVE  j < i
    <3>1. j - 1 < i - 1 /\ j \in Nat /\ i \in Nat
      BY <1>1, <1>3 DEF Clear
    <3>2. QED
      BY <3>1
  <2>2. Places(d, q, g) # {} => Places(d, r, g) # {}
    BY <1>1
  <2>3. Places(d, q, f) # {} => Places(d, r, f) # {}
    BY <1>1
  <2>4. size2[g] > 0 => size[g] > 0 \/ n \in Places(d, r, g)
    OBVIOUS
  <2>5. Places(d, q, g) # {} \/ size2[g] > 0 => f \notin ToSet(q.pending)
    BY <1>2, <1>3, <2>2, <2>4 DEF Clear
  <2>6. n \in Places(d, r, g) => Places(d, q, f) = {}
    <3> SUFFICES ASSUME n \in Places(d, r, g), NEW i \in Places(d, q, f)
                 PROVE  FALSE
      OBVIOUS
    <3>1. i - 1 \in Places(d, r, f)
      BY <1>1
    <3>2. n < i - 1 /\ i - 1 <= n
      BY <1>1, <1>3, <3>1 DEF Clear
    <3>3. QED
      BY <1>1, <3>1, <3>2
  <2>7. size2[g] > 0 => Places(d, q, f) = {}
    BY <1>3, <2>3, <2>4, <2>6 DEF Clear
  <2>8. QED
    BY <2>1, <2>5, <2>7 DEF Clear
<1>4. ASSUME NEW f \in FacetsBy(d), NEW j \in Places(d, q, f)
      PROVE  BiteAt(q, j).last <=> /\ f \notin ToSet(q.pending)
                                   /\ \A k \in Places(d, q, f) : j <= k
  <2>1. /\ j - 1 \in Places(d, r, f) /\ BiteAt(q, j) = BiteAt(r, j - 1) /\ j \in Nat /\ j - 1 # n
        /\ j - 1 <= n /\ j - 1 \in Nat
    BY <1>1
  <2>2. BiteAt(q, j).last <=> f \notin ToSet(r.pending) /\ \A i \in Places(d, r, f) : j - 1 <= i
    BY <2>1 DEF InLine
  <2>3. (\A i \in Places(d, r, f) : j - 1 <= i) <=> \A k \in Places(d, q, f) : j <= k
    <3>1. ASSUME \A i \in Places(d, r, f) : j - 1 <= i, NEW k \in Places(d, q, f)
          PROVE  j <= k
      <4>1. j - 1 <= k - 1 /\ k \in Nat
        BY <1>1, <3>1
      <4>2. QED
        BY <2>1, <4>1
    <3>2. ASSUME \A k \in Places(d, q, f) : j <= k, NEW i \in Places(d, r, f)
          PROVE  j - 1 <= i
      <4>1. CASE i = n
        BY <2>1, <4>1
      <4>2. CASE i # n
        <5>1. j <= i + 1 /\ i \in Nat
          BY <1>1, <3>2, <4>2
        <5>2. QED
          BY <2>1, <5>1
      <4>3. QED
        BY <4>1, <4>2
    <3>3. QED
      BY <3>1, <3>2
  <2>4. QED
    BY <1>2, <2>2, <2>3
<1>5. QED
  BY <1>3, <1>4 DEF InLine

\* The bite at the top belongs to the one facet of which d has written a part, or begins
\* a new one; if it is marked as the last, it completes it.
LEMMA TopOfLine ==
  ASSUME NEW d \in Dst, NEW r, Object(d, r), TopBite(d, r) # NoBite,
         NEW arr \in [Facet -> Nat], NEW size \in [Facet -> Nat],
         Conserved(d, r, arr, size), InLine(d, r, size),
         \A f \in FacetsBy(d) : arr[f] # 0 <=> size[f] > 0
  PROVE  LET top == TopBite(d, r)
             h == top.facet
         IN /\ h \in FacetsBy(d) /\ top.size \in Nat \ {0}
            /\ Stages[d] \in Places(d, r, h)
            /\ size[h] + top.size <= h.size
            /\ top.last <=> size[h] + top.size = h.size
            /\ {f \in Facet : f.by = d /\ 0 < size[f] /\ size[f] < f.size} \subseteq {h}
<1> DEFINE n == Stages[d]
           top == TopBite(d, r)
           h == top.facet
           bytes(f) == Cardinality(BytesIn(d, r, f))
<1>1. /\ n \in Nat \ {0} /\ n \in 0 .. n /\ n # 0
      /\ BiteAt(r, n) = top
      /\ top \in BiteOf(d) /\ h \in FacetsBy(d) /\ top.size \in Nat \ {0}
      /\ n \in Places(d, r, h)
  <2>1. n \in Nat \ {0}
    BY DestinationAssumption
  <2>2. n \in 1 .. n /\ n \in 0 .. n /\ n # 0
    BY <2>1
  <2>3. top \in BiteOf(d)
    BY <2>2 DEF TopBite, Object
  <2>4. BiteAt(r, n) = top /\ h \in FacetsBy(d) /\ top.size \in Nat \ {0}
    BY <2>2, <2>3 DEF BiteAt, TopBite, BiteOf
  <2>5. n \in Places(d, r, h)
    BY <2>2, <2>4 DEF Places
  <2>6. QED
    BY <2>1, <2>2, <2>3, <2>4, <2>5
<1>2. \A f \in FacetsBy(d) : /\ f \in Facet /\ f.size \in Nat \ {0} /\ size[f] \in Nat /\ bytes(f) \in Nat
                            /\ size[f] + bytes(f) = SentBy(d, r, arr, f)
  BY BytesFinite, FacetAssumption DEF FacetsBy, Conserved
<1>3. \A i \in Places(d, r, h) : i \in Nat /\ i <= n
  BY <1>1, PlacesType
<1>4. \A f \in FacetsBy(d) : Places(d, r, f) = {} => BytesIn(d, r, f) = {} /\ bytes(f) = 0
  BY FS_EmptySet DEF BytesIn
<1>5. {n} \X (1 .. top.size) \subseteq BytesIn(d, r, h)
      /\ IsFiniteSet(BytesIn(d, r, h))
      /\ Cardinality({n} \X (1 .. top.size)) = top.size
  <2>1. {n} \X (1 .. top.size) \subseteq BytesIn(d, r, h)
    BY <1>1 DEF BytesIn
  <2>2. IsFiniteSet(BytesIn(d, r, h))
    BY BytesFinite
  <2>3. Cardinality({n} \X (1 .. top.size)) = top.size
    BY <1>1, PlaceCount
  <2>4. QED
    BY <2>1, <2>2, <2>3
<1>6. top.size <= bytes(h)
  <2> DEFINE S == {n} \X (1 .. top.size)
             T == BytesIn(d, r, h)
  <2>1. S \subseteq T /\ IsFiniteSet(T) /\ Cardinality(S) = top.size
    BY <1>5
  <2> HIDE DEF S, T
  <2>2. Cardinality(S) <= Cardinality(T)
    BY <2>1, FS_Subset
  <2>3. QED
    BY <2>1, <2>2 DEF T
<1>7. MadeBy(d, r, arr, h)
  BY <1>1 DEF MadeBy
<1>8. SentBy(d, r, arr, h) <= h.size /\ (h \in ToSet(r.pending) => SentBy(d, r, arr, h) < h.size)
      /\ (h \notin ToSet(r.pending) => SentBy(d, r, arr, h) = h.size)
  <2>1. h \in ToSet(r.pending) => r.pending # <<>>
    BY DEF ToSet
  <2>2. QED
    BY <1>1, <1>2, <1>7, <2>1 DEF SentBy, Object
<1>9. size[h] + top.size <= h.size
  BY <1>1, <1>2, <1>6, <1>8
<1>10. top.last => size[h] + top.size = h.size
  <2> SUFFICES ASSUME top.last
               PROVE  size[h] + top.size = h.size
    OBVIOUS
  <2>1. h \notin ToSet(r.pending) /\ \A j \in Places(d, r, h) : n <= j
    BY <1>1 DEF InLine
  <2>2. \A j \in Places(d, r, h) : j = n
    BY <1>1, <1>3, <2>1
  <2>3. Places(d, r, h) = {n}
    BY <1>1, <2>2
  <2>4. BytesIn(d, r, h) = {n} \X (1 .. top.size)
    BY <1>1, <2>3 DEF BytesIn
  <2>5. bytes(h) = top.size
    BY <1>5, <2>4
  <2>6. QED
    BY <1>1, <1>2, <1>8, <2>1, <2>5
<1>11. ~top.last => size[h] + top.size # h.size
  <2> SUFFICES ASSUME ~top.last, size[h] + top.size = h.size
               PROVE  FALSE
    OBVIOUS
  <2>1. h \notin ToSet(r.pending)
    BY <1>1, <1>2, <1>6, <1>8
  <2>2. PICK j \in Places(d, r, h) : ~(n <= j)
    BY <1>1, <2>1 DEF InLine
  <2>3. j # n /\ j \in Nat
    BY <1>1, <1>3, <2>2
  <2>4. <<j, 1>> \in BytesIn(d, r, h) /\ <<j, 1>> \notin {n} \X (1 .. top.size)
    <3>1. 1 \in 1 .. BiteAt(r, j).size
      BY PlacesType
    <3>2. QED
      BY <2>3, <3>1 DEF BytesIn
  <2> DEFINE S == {n} \X (1 .. top.size)
             T == BytesIn(d, r, h)
  <2>5. S \subseteq T /\ IsFiniteSet(T) /\ Cardinality(S) = top.size /\ S # T
    BY <1>5, <2>4
  <2> HIDE DEF S, T
  <2>6. Cardinality(S) < Cardinality(T)
    BY <2>5, FS_Subset, FS_CardinalityType
  <2>7. top.size < bytes(h)
    BY <2>5, <2>6 DEF T
  <2>8. QED
    BY <1>1, <1>2, <1>8, <2>1, <2>7
<1>12. ASSUME NEW f \in Facet, f.by = d, 0 < size[f], size[f] < f.size, f # h
       PROVE  FALSE
  <2>1. f \in FacetsBy(d) /\ MadeBy(d, r, arr, f)
    BY <1>12 DEF FacetsBy, MadeBy
  <2>2. Clear(d, r, size, f, h)
    BY <1>1, <1>12, <2>1 DEF InLine, Clear
  <2>3. f \notin ToSet(r.pending) /\ Places(d, r, f) = {}
    <3>1. f \notin ToSet(r.pending) /\ \A i \in Places(d, r, f) : n < i
      BY <1>1, <2>2 DEF Clear
    <3>2. \A i \in Places(d, r, f) : i \in 0 .. n
      BY PlacesType
    <3>3. QED
      BY <1>1, <3>1, <3>2
  <2>4. size[f] = f.size
    BY <1>2, <1>4, <2>1, <2>3 DEF SentBy
  <2>5. QED
    BY <1>2, <1>12, <2>1, <2>4
<1>13. QED
  BY <1>1, <1>9, <1>10, <1>11, <1>12

-----------------------------------------------------------------------------
\* The calls still to be made, and who is prepared.

\* What the agenda is made of.
Calls == [op : {"Execute", "Prepare", "Resume", "Turn", "IsReady", "Dispatch", "UpdatePipeline"},
          of : TH \cup Group \cup Dst]

\* A list of calls without a Resume.
Plain(list) == list \in Seq(Calls) /\ \A i \in DOMAIN list : list[i].op # "Resume"

\* Only Turn asks for a Resume, of a handler that is at work, and as the next call.
AgendaInv ==
  /\ elaborating => agenda = <<>>
  /\ Plain(order)
  /\ agenda \in Seq(Calls)
  /\ agenda # <<>> => Plain(Tail(agenda))
  /\ agenda # <<>> /\ Head(agenda).op = "Resume" =>
       Head(agenda).of \in TH /\ thState[Head(agenda).of] # "IDLE"
  /\ addresses \in Seq(TH)
  /\ position \in [Group -> Nat]
  /\ readyTHs \in [Group -> SUBSET TH]

\* The pipeline takes bites, or is empty and nobody has asked it to prepare one.
Flowing(d, r) ==
  \/ r.pipeline = "TRANSFER"
  \/ /\ r.pipeline = "UNPREPARED" /\ r.bite = NoBite
     /\ \A i \in 1 .. Stages[d] : r.unit[i] = NoBite

\* A handler at work has a cone to finish; an idle one has a destination that is not
\* prepared, so that no group takes it for one to resume.
PreparedInv ==
  /\ \A t \in TH : thState[t] # "IDLE" => \E d \in ConesOf(t) : cone[d] # "DONE"
  /\ \A t \in TH : thState[t] = "IDLE" => \E d \in ConesOf(t) : Flowing(d, dst[d])

\* The parts of a list without a Resume have none.
LEMMA PlainAgenda ==
  ASSUME NEW list, Plain(list)
  PROVE  /\ list \in Seq(Calls)
         /\ list # <<>> => Plain(Tail(list)) /\ Head(list).op # "Resume"
<1>1. list \in Seq(Calls) /\ \A i \in DOMAIN list : list[i].op # "Resume"
  BY DEF Plain
<1>2. ASSUME list # <<>>
      PROVE  Plain(Tail(list)) /\ Head(list).op # "Resume"
  <2>1. 1 \in DOMAIN list /\ Head(list) = list[1]
    BY <1>1, <1>2
  <2>2. /\ Tail(list) \in Seq(Calls)
        /\ \A i \in DOMAIN Tail(list) : i + 1 \in DOMAIN list /\ Tail(list)[i] = list[i + 1]
    BY <1>1, <1>2
  <2>3. QED
    BY <1>1, <2>1, <2>2 DEF Plain
<1>3. QED
  BY <1>1, <1>2

\* Two lists without a Resume, put together.
LEMMA PlainConcat ==
  ASSUME NEW s, NEW u, Plain(s), Plain(u)
  PROVE  Plain(s \o u)
<1>1. s \in Seq(Calls) /\ u \in Seq(Calls)
  BY DEF Plain
<1>2. s \o u \in Seq(Calls)
  BY <1>1
<1>3. \A i \in DOMAIN (s \o u) :
        (i \in DOMAIN s /\ (s \o u)[i] = s[i])
        \/ (i - Len(s) \in DOMAIN u /\ (s \o u)[i] = u[i - Len(s)])
  BY <1>1
<1>4. QED
  BY <1>2, <1>3 DEF Plain

\* The same call of each of several objects.
LEMMA PlainJobs ==
  ASSUME NEW op \in {"Execute", "Prepare", "Turn", "IsReady", "Dispatch", "UpdatePipeline"},
         NEW seq \in Seq(TH \cup Group \cup Dst)
  PROVE  Plain(Jobs(op, seq))
<1>1. \A i \in DOMAIN seq : Job(op, seq[i]) \in Calls /\ Job(op, seq[i]).op # "Resume"
  BY DEF Job, Calls
<1>2. DOMAIN seq = 1 .. Len(seq) /\ Len(seq) \in Nat
  OBVIOUS
<1>3. Jobs(op, seq) \in Seq(Calls)
  BY <1>1, <1>2 DEF Jobs
<1>4. QED
  BY <1>1, <1>3 DEF Jobs, Plain

\* A call on its own.
LEMMA PlainOne ==
  ASSUME NEW op \in {"Execute", "Prepare", "Turn", "IsReady", "Dispatch", "UpdatePipeline"},
         NEW x \in TH \cup Group \cup Dst
  PROVE  Plain(<<Job(op, x)>>)
<1>1. Job(op, x) \in Calls /\ Job(op, x).op # "Resume"
  BY DEF Job, Calls
<1>2. QED
  BY <1>1 DEF Plain

\* What is left of the agenda after some of its calls.
LEMMA PlainRest ==
  ASSUME AgendaInv, agenda # <<>>
  PROVE  /\ Plain(Tail(agenda))
         /\ \A k \in DOMAIN agenda : Plain(SubSeq(agenda, k + 1, Len(agenda)))
<1>1. agenda \in Seq(Calls) /\ Plain(Tail(agenda))
  BY DEF AgendaInv
<1>2. \A j \in DOMAIN agenda : j # 1 => agenda[j].op # "Resume"
  <2> SUFFICES ASSUME NEW j \in DOMAIN agenda, j # 1
               PROVE  agenda[j].op # "Resume"
    OBVIOUS
  <2>1. j - 1 \in DOMAIN Tail(agenda) /\ Tail(agenda)[j - 1] = agenda[j]
    BY <1>1
  <2>2. QED
    BY <1>1, <2>1 DEF Plain
<1>3. ASSUME NEW k \in DOMAIN agenda
      PROVE  Plain(SubSeq(agenda, k + 1, Len(agenda)))
  <2> DEFINE rest == SubSeq(agenda, k + 1, Len(agenda))
  <2>1. /\ k \in Nat /\ k >= 1 /\ k <= Len(agenda) /\ Len(agenda) \in Nat
        /\ DOMAIN agenda = 1 .. Len(agenda)
    BY <1>1
  <2>2. rest \in Seq(Calls) /\ Len(rest) = Len(agenda) - k
        /\ DOMAIN rest = 1 .. Len(agenda) - k
        /\ \A i \in 1 .. Len(agenda) - k : rest[i] = agenda[k + i]
    BY <1>1, <2>1
  <2> HIDE DEF rest
  <2>3. \A i \in DOMAIN rest : k + i \in DOMAIN agenda /\ k + i # 1 /\ rest[i] = agenda[k + i]
    BY <2>1, <2>2
  <2>4. QED
    BY <1>2, <2>2, <2>3 DEF Plain, rest
<1>4. QED
  BY <1>1, <1>3

-----------------------------------------------------------------------------
\* What groups and handlers put on the agenda.

\* A list of different members of a finite set is a sequence.
LEMMA ListIsSeq ==
  ASSUME NEW S, IsFiniteSet(S), NEW list \in SetToSeqs(S)
  PROVE  list \in Seq(S)
BY FS_CardinalityType DEF SetToSeqs

\* What a design is made of is finite, and the children of a group are handlers.
LEMMA ListsAre ==
  /\ IsFiniteSet(Top) /\ Top \subseteq TH \cup Group
  /\ \A g \in Group : Children[g] \in Seq(TH) /\ Size(g) \in Nat \ {0} /\ Members(g) \in SUBSET TH
  /\ \A S \in SUBSET TH : IsFiniteSet(S)
<1>1. IsFiniteSet(TH) /\ IsFiniteSet(Group)
  BY FlowAssumption
<1>2. Top \subseteq TH \cup Group
  BY DEF Top
<1>3. IsFiniteSet(TH \cup Group)
  BY <1>1, FS_Union
<1>4. IsFiniteSet(Top)
  BY <1>2, <1>3, FS_Subset
<1>5. \A S \in SUBSET TH : IsFiniteSet(S)
  BY <1>1, FS_Subset
<1>6. \A g \in Group : Children[g] \in Seq(TH) /\ Children[g] # <<>>
  BY FlowAssumption
<1>7. \A g \in Group : Size(g) \in Nat \ {0} /\ Members(g) \in SUBSET TH
  BY <1>6 DEF Size, Members, ToSet
<1>8. QED
  BY <1>2, <1>4, <1>5, <1>6, <1>7

\* The child at any position is a handler.
LEMMA ChildType ==
  ASSUME NEW g \in Group, NEW i \in Nat
  PROVE  Child(g, i) \in TH
<1>1. Children[g] \in Seq(TH) /\ Size(g) \in Nat \ {0} /\ Size(g) = Len(Children[g])
  BY ListsAre DEF Size
<1>2. \A n \in Nat \ {0} : i % n \in 0 .. n - 1 /\ (i % n) + 1 \in 1 .. n
  OBVIOUS
<1>3. (i % Size(g)) + 1 \in 1 .. Size(g)
  BY <1>1, <1>2
<1>4. QED
  BY <1>1, <1>3 DEF Child

\* A prepared destination does not flow.
LEMMA FlowingIs ==
  ASSUME NEW d, NEW r, Flowing(d, r)
  PROVE  ~IsPrepared(r)
BY DEF Flowing, IsPrepared

\* Start puts handlers and destinations in an order.
LEMMA AgendaStart ==
  ASSUME AgendaInv, Start
  PROVE  Plain(order') /\ agenda' = order' /\ addresses' \in Seq(TH)
<1>1. PICK handlers \in HandlerOrders, dsts \in DstOrders :
        order' = Jobs("Execute", handlers) \o Jobs("UpdatePipeline", dsts)
  BY DEF Start
<1>2. handlers \in Seq(Top) /\ dsts \in Seq(Dst)
  BY FlowAssumption, ListsAre, ListIsSeq
<1>3. handlers \in Seq(TH \cup Group \cup Dst) /\ dsts \in Seq(TH \cup Group \cup Dst)
  BY <1>2, ListsAre
<1>4. Plain(order')
  BY <1>1, <1>3, PlainJobs, PlainConcat
<1>5. addresses' \in Seq(TH)
  <2> DEFINE S == UNION {Members(g) : g \in {h \in Group : Kind[h] = "Dispatch"}}
  <2>1. S \in SUBSET TH /\ addresses' \in SetToSeqs(S)
    BY ListsAre DEF Start
  <2> HIDE DEF S
  <2>2. addresses' \in Seq(S)
    BY <2>1, ListsAre, ListIsSeq
  <2>3. QED
    BY <2>1, <2>2
<1>6. QED
  BY <1>4, <1>5 DEF Start

\* A group puts calls on its children in front of the agenda.
LEMMA AgendaGroup ==
  ASSUME AgendaInv, PreparedInv, NEW g \in Group, GroupNext(g)
  PROVE  AgendaInv'
<1>0. /\ agenda # <<>>
      /\ UNCHANGED <<order, addresses, elaborating, thState, readyTHs>>
      /\ Plain(Tail(agenda)) /\ ~elaborating
  BY DEF GroupNext, PrepareOthers, Turn, SelectTH, Dispatch, Called, AgendaInv, designVars, thVars, groupVars
<1>1. ASSUME Plain(agenda'), position' \in [Group -> Nat]
      PROVE  AgendaInv'
  BY <1>0, <1>1, PlainAgenda DEF AgendaInv
<1>2. Group \subseteq TH \cup Group \cup Dst /\ TH \subseteq TH \cup Group \cup Dst
  OBVIOUS
<1>3. CASE PrepareOthers(g)
  <2> DEFINE jobs == [i \in 1 .. Size(g) - 1 |-> Job("Prepare", Child(g, position[g] + i))]
             others == [i \in 1 .. Size(g) - 1 |-> Child(g, position[g] + i)]
  <2>1. \A i \in 1 .. Size(g) - 1 : Child(g, position[g] + i) \in TH
    <3> SUFFICES ASSUME NEW i \in 1 .. Size(g) - 1
                 PROVE  Child(g, position[g] + i) \in TH
      OBVIOUS
    <3>1. position[g] + i \in Nat
      BY ListsAre DEF AgendaInv
    <3>2. QED
      BY <3>1, ChildType
  <2>2. Size(g) - 1 \in Nat
    BY ListsAre
  <2>3. others \in Seq(TH \cup Group \cup Dst)
    BY <2>1, <2>2
  <2>4. jobs = Jobs("Prepare", others)
    BY DEF Jobs
  <2>5. Plain(jobs)
    BY <2>3, <2>4, PlainJobs
  <2> HIDE DEF jobs
  <2>6. Plain(<<Job("Turn", g)>>)
    BY <1>2, PlainOne
  <2>7. Plain(jobs \o <<Job("Turn", g)>> \o Tail(agenda))
    BY <1>0, <2>5, <2>6, PlainConcat
  <2>8. agenda' = jobs \o <<Job("Turn", g)>> \o Tail(agenda) /\ position' = position
    BY <1>3 DEF PrepareOthers, jobs, groupVars
  <2>9. QED
    BY <1>1, <2>7, <2>8 DEF AgendaInv
<1>4. CASE SelectTH(g)
  <2>1. PICK asked \in Lined(Members(g) \ readyTHs[g], Children[g]) :
          agenda' = Jobs("IsReady", asked) \o <<Job("Dispatch", g)>> \o Tail(agenda)
    BY <1>4 DEF SelectTH
  <2>2. asked \in SetToSeqs(Members(g) \ readyTHs[g]) /\ Members(g) \ readyTHs[g] \in SUBSET TH
    BY ListsAre DEF Lined
  <2>3. asked \in Seq(Members(g) \ readyTHs[g])
    BY <2>2, ListsAre, ListIsSeq
  <2>4. asked \in Seq(TH \cup Group \cup Dst)
    BY <2>2, <2>3
  <2>5. Plain(agenda')
    BY <1>0, <1>2, <2>1, <2>4, PlainJobs, PlainOne, PlainConcat
  <2>6. position' = position
    BY <1>4 DEF SelectTH, groupVars
  <2>7. QED
    BY <1>1, <2>5, <2>6 DEF AgendaInv
<1>5. CASE Dispatch(g)
  <2>1. PICK run \in Lined(readyTHs[g], addresses) :
          agenda' = Jobs("Execute", run) \o Tail(agenda)
    BY <1>5 DEF Dispatch
  <2>2. run \in SetToSeqs(readyTHs[g]) /\ readyTHs[g] \in SUBSET TH
    BY DEF Lined, AgendaInv
  <2>3. run \in Seq(readyTHs[g])
    BY <2>2, ListsAre, ListIsSeq
  <2>4. run \in Seq(TH \cup Group \cup Dst)
    BY <2>2, <2>3
  <2>5. Plain(agenda')
    BY <1>0, <2>1, <2>4, PlainJobs, PlainConcat
  <2>6. position' = position
    BY <1>5 DEF Dispatch, groupVars
  <2>7. QED
    BY <1>1, <2>5, <2>6 DEF AgendaInv
<1>6. CASE Turn(g)
  <2> DEFINE t == Current(g)
  <2>1. t \in TH
    BY ChildType DEF AgendaInv, Current
  <2>2. position' \in [Group -> Nat]
    <3>1. position' = position \/ position' = [position EXCEPT ![g] = (@ + 1) % Size(g)]
      BY <1>6 DEF Turn
    <3>2. (position[g] + 1) % Size(g) \in Nat
      BY ListsAre DEF AgendaInv
    <3>3. QED
      BY <3>1, <3>2 DEF AgendaInv
  <2>3. CASE AllPrepared(t)
    <3>1. agenda' = <<Job("Resume", t)>> \o Tail(agenda)
      BY <1>6, <2>3 DEF Turn
    <3>2. thState[t] # "IDLE"
      BY <2>1, <2>3, FlowingIs DEF PreparedInv, AllPrepared
    <3>3. Job("Resume", t) \in Calls /\ Job("Resume", t).of = t
      BY <2>1 DEF Job, Calls
    <3> HIDE DEF t
    <3>4. Tail(agenda) \in Seq(Calls)
      BY <1>0 DEF Plain
    <3>5. /\ agenda' \in Seq(Calls) /\ Tail(agenda') = Tail(agenda)
          /\ Head(agenda') = Job("Resume", t)
      BY <3>1, <3>3, <3>4
    <3>6. QED
      BY <1>0, <2>1, <2>2, <3>2, <3>3, <3>5 DEF AgendaInv
  <2>4. CASE ~AllPrepared(t)
    <3>1. agenda' = <<Job("Prepare", t)>> \o Tail(agenda)
      BY <1>6, <2>4 DEF Turn
    <3>2. Plain(agenda')
      BY <1>0, <1>2, <2>1, <3>1, PlainOne, PlainConcat
    <3>3. QED
      BY <1>1, <2>2, <3>2
  <2>5. QED
    BY <2>3, <2>4
<1>7. QED
  BY <1>3, <1>4, <1>5, <1>6 DEF GroupNext

\* Every step keeps the agenda in order.
LEMMA AgendaNext ==
  ASSUME AgendaInv, PreparedInv, TypeInv, [Next]_vars
  PROVE  AgendaInv'
<1>1. ASSUME UNCHANGED <<order, addresses, position, readyTHs, elaborating, thState, agenda>>
      PROVE  AgendaInv'
  BY <1>1 DEF AgendaInv, Plain
<1>2. ASSUME Plain(agenda'), ~elaborating', Plain(order'), addresses' \in Seq(TH),
             position' = position, readyTHs' \in [Group -> SUBSET TH]
      PROVE  AgendaInv'
  BY <1>2, PlainAgenda DEF AgendaInv
<1>3. ASSUME NEW f \in Seed, BackDoorWrite(f)
      PROVE  AgendaInv'
  BY <1>1, <1>3 DEF BackDoorWrite, thVars, groupVars, designVars
<1>4. CASE UNCHANGED vars
  BY <1>1, <1>4 DEF vars, thVars, groupVars, designVars
<1>5. CASE Start
  BY <1>2, <1>5, AgendaStart DEF Start, groupVars, AgendaInv
<1>6. CASE Tick
  BY <1>2, <1>6 DEF Tick, groupVars, designVars, AgendaInv
<1>7. ASSUME NEW g \in Group, GroupNext(g)
      PROVE  AgendaInv'
  BY <1>7, AgendaGroup
<1>8. ASSUME NEW d \in Dst, UpdatePipeline(d)
      PROVE  AgendaInv'
  <2>1. agenda # <<>> /\ agenda' = Tail(agenda) /\ UNCHANGED <<order, addresses, position, readyTHs, elaborating>>
    BY <1>8 DEF UpdatePipeline, Called, designVars, groupVars
  <2>2. QED
    BY <1>2, <2>1, PlainRest DEF AgendaInv
<1>9. ASSUME NEW t \in TH, HandlerNext(t)
      PROVE  AgendaInv'
  <2>1. agenda # <<>> /\ UNCHANGED <<order, addresses, position, elaborating>> /\ ~elaborating
    <3>1. agenda # <<>> /\ UNCHANGED designVars /\ position' = position
      BY <1>9 DEF HandlerNext, Execute, Prepare, Resume, IsReady, Starve, Run, Called, groupVars
    <3>2. QED
      BY <3>1 DEF AgendaInv, designVars
  <2>2. \A g \in Owner(t) : g \in Group
    BY DEF Owner
  <2>3. readyTHs' \in [Group -> SUBSET TH]
    <3>1. \/ readyTHs' = readyTHs
          \/ \E g \in Owner(t) : readyTHs' = [readyTHs EXCEPT ![g] = @ \ {t}]
          \/ readyTHs' = [g \in Group |-> readyTHs'[g]] /\ \A g \in Group : readyTHs'[g] \in {readyTHs[g], readyTHs[g] \cup {t}}
      BY <1>9 DEF HandlerNext, Execute, Prepare, Resume, IsReady, Starve, Run, Erase, groupVars
    <3>2. QED
      BY <2>2, <3>1 DEF AgendaInv
  <2>4. agenda' = Tail(agenda) \/ \E k \in DOMAIN agenda : agenda' = SubSeq(agenda, k + 1, Len(agenda))
    <3>1. 1 \in DOMAIN agenda
      BY <2>1 DEF AgendaInv
    <3>2. QED
      BY <1>9, <3>1 DEF HandlerNext, Execute, Prepare, Resume, IsReady, Starve, Run, Erase
  <2>5. Plain(agenda')
    BY <2>1, <2>4, PlainRest
  <2>6. QED
    BY <1>2, <2>1, <2>3, <2>5 DEF AgendaInv
<1>10. QED
  BY <1>3, <1>4, <1>5, <1>6, <1>7, <1>8, <1>9 DEF Next

-----------------------------------------------------------------------------
\* Pipelines that flow.

\* What moves a pipeline along lets it flow on.
LEMMA FlowsOn ==
  ASSUME NEW d \in Dst, NEW r, Object(d, r), Flowing(d, r)
  PROVE  /\ Flowing(d, ResetOffset(r))
         /\ Flowing(d, Elapse(d, r))
         /\ Flowing(d, Polled(d, r))
         /\ Flowing(d, Shift(d, Polled(d, r)))
<1>1. /\ DOMAIN r = Fields /\ r = [x \in Fields |-> r[x]]
      /\ r.unit \in [1 .. Stages[d] -> BiteOf(d) \cup {NoBite}]
  BY DEF Object
<1>2. Flowing(d, ResetOffset(r)) /\ Flowing(d, Elapse(d, r))
  BY <1>1 DEF Flowing, ResetOffset, Elapse, Fields
<1> DEFINE p == Polled(d, r)
<1>3. /\ DOMAIN p = Fields
      /\ p.unit = r.unit /\ p.bite = r.bite /\ p.pipeline = r.pipeline
  BY <1>1 DEF Polled, Fields
<1>4. Flowing(d, p)
  BY <1>3 DEF Flowing
<1> HIDE DEF p
<1>5. Stages[d] \in 1 .. Stages[d] /\ Stages[d] \in Nat \ {0}
  BY DestinationAssumption
<1>6. Flowing(d, Shift(d, p))
  <2> DEFINE moved == [p EXCEPT !.unit = [i \in 1 .. Stages[d] |-> IF i = 1 THEN p.bite ELSE p.unit[i - 1]],
                                !.bite = NoBite]
             state == IF TopBite(d, p) # NoBite /\ TopBite(d, p).last THEN AfterLast(p.pipeline) ELSE p.pipeline
             new == IF TopBite(d, moved) # NoBite /\ state = "UNPREPARED" THEN "PREPARED" ELSE state
  <2>1. Shift(d, p) = [moved EXCEPT !.pipeline = new]
    BY DEF Shift
  <2>2. /\ DOMAIN moved = Fields
        /\ moved.unit = [i \in 1 .. Stages[d] |-> IF i = 1 THEN p.bite ELSE p.unit[i - 1]]
        /\ moved.bite = NoBite
    BY <1>3 DEF Fields
  <2>3. CASE p.pipeline = "TRANSFER"
    <3>1. new = "TRANSFER"
      BY <2>3 DEF AfterLast
    <3> HIDE DEF new, moved
    <3>2. Shift(d, p).pipeline = "TRANSFER"
      BY <2>1, <2>2, <3>1 DEF Fields
    <3>3. QED
      BY <3>2 DEF Flowing
  <2>4. CASE p.pipeline # "TRANSFER"
    <3>1. /\ p.pipeline = "UNPREPARED" /\ p.bite = NoBite
          /\ \A i \in 1 .. Stages[d] : p.unit[i] = NoBite
      BY <1>4, <2>4 DEF Flowing
    <3>2. \A i \in 1 .. Stages[d] : i # 1 => i - 1 \in 1 .. Stages[d]
      BY <1>5
    <3>3. \A i \in 1 .. Stages[d] : moved.unit[i] = NoBite
      BY <2>2, <3>1, <3>2
    <3>4. new = "UNPREPARED"
      BY <1>5, <3>1, <3>3 DEF TopBite
    <3> HIDE DEF new, moved
    <3>5. Shift(d, p).pipeline = "UNPREPARED" /\ Shift(d, p).bite = NoBite /\ Shift(d, p).unit = moved.unit
      BY <2>1, <2>2, <3>4 DEF Fields
    <3>6. QED
      BY <3>3, <3>5 DEF Flowing
  <2>5. QED
    BY <2>3, <2>4
<1>7. QED
  BY <1>2, <1>4, <1>6 DEF p

\* Transfer puts the pipeline into PPL_TRANSFER.
LEMMA TransferFlows ==
  ASSUME NEW d \in Dst, NEW r, DOMAIN r = Fields, r.active \in Int, NEW available, NEW packet, NEW bite
  PROVE  Transfer(d, r, available, packet, bite).pipeline = "TRANSFER"
<1> DEFINE called == [r EXCEPT !.pipeline = "TRANSFER"]
           aimed == [called EXCEPT !.active = NextPoint(@, Cycle[d])]
           ready == PassDelays(aimed, packet, bite)
<1>1. DOMAIN called = Fields /\ called.pipeline = "TRANSFER"
  BY DEF Fields
<1>2. DOMAIN aimed = Fields /\ aimed.pipeline = "TRANSFER"
  BY <1>1 DEF Fields
<1> HIDE DEF aimed
<1>3. DOMAIN ready = Fields /\ ready.pipeline = "TRANSFER"
  BY <1>2 DEF PassDelays, Fields
<1> HIDE DEF ready
<1>4. TakeBite(d, ready).pipeline = "TRANSFER"
  BY <1>3 DEF TakeBite, Fields
<1>5. r.active > 0 \/ r.active <= 0
  OBVIOUS
<1>6. Transfer(d, r, available, packet, bite) \in {called, ready, TakeBite(d, ready)}
  BY <1>5 DEF Transfer, aimed, ready
<1>7. QED
  BY <1>1, <1>3, <1>4, <1>6

\* What a call does to the state of a cone: it waits for the read lock or takes it, and a
\* cone that comes to its end has put its pipeline into PPL_TRANSFER.
LEMMA ConeSwitch ==
  ASSUME NEW t \in TH, NEW d \in Dst, NEW r, Object(d, r), NEW mode \in CallModes,
         NEW state \in ConeStates, NEW src, NEW draw
  PROVE  LET y == ProcessLogicCone(t, d, mode, state, r, src, draw)
             lock == Ch(SrcCh[SrcOf[d]])!CanLockRd(t)
         IN /\ y.state = "IDLE" <=> state = "IDLE" /\ mode = "Resume"
            /\ y.state = "LOCK_SRC" => ~lock /\ state \in {"IDLE", "LOCK_SRC"}
            /\ y.state \in {"STREAMING", "DONE"} /\ state \in {"IDLE", "LOCK_SRC"} => lock
            /\ y.state = "DONE" /\ state # "DONE" => y.dst.pipeline = "TRANSFER"
            /\ state = "DONE" => y.state = "DONE"
<1> DEFINE called == SetTo(mode, r)
           starting == state \in {"IDLE", "LOCK_SRC"}
           filled == IF starting THEN Fill(called, Product(src.facet, d, draw.sizes)) ELSE called
           moved == Transfer(d, filled, DataAvailable(src, Needs(d, filled)), draw.packet, draw.bite)
           lock == Ch(SrcCh[SrcOf[d]])!CanLockRd(t)
           y == ProcessLogicCone(t, d, mode, state, r, src, draw)
<1>1. y = CASE state = "DONE" \/ (state = "IDLE" /\ mode = "Resume") ->
                 [state |-> state, dst |-> called]
            [] starting /\ ~(state = "IDLE" /\ mode = "Resume") /\ ~lock ->
                 [state |-> "LOCK_SRC", dst |-> called]
            [] OTHER ->
                 [state |-> IF moved.pending = <<>> THEN "DONE" ELSE "STREAMING",
                  dst |-> moved]
  BY DEF ProcessLogicCone
<1>2. Object(d, called)
  BY SetToLoad DEF CallModes
<1> HIDE DEF called
<1>3. DOMAIN filled = Fields /\ filled.active \in Int
  <2>1. DOMAIN called = Fields /\ called.active \in Int
    BY <1>2 DEF Object
  <2>2. QED
    BY <2>1 DEF Fill, Fields
<1>4. moved.pipeline = "TRANSFER"
  <2> HIDE DEF filled
  <2>1. QED
    BY <1>3, TransferFlows
<1> HIDE DEF moved, lock, y
<1>5. CASE state = "DONE" \/ (state = "IDLE" /\ mode = "Resume")
  <2>1. y.state = state
    BY <1>1, <1>5
  <2>2. QED
    BY <1>5, <2>1 DEF y, lock, ConeStates
<1>6. CASE /\ ~(state = "DONE" \/ (state = "IDLE" /\ mode = "Resume"))
           /\ starting /\ ~lock
  <2>1. y.state = "LOCK_SRC"
    BY <1>1, <1>6
  <2>2. QED
    BY <1>6, <2>1 DEF y, lock
<1>7. CASE /\ ~(state = "DONE" \/ (state = "IDLE" /\ mode = "Resume"))
           /\ ~(starting /\ ~lock)
  <2>1. y = [state |-> IF moved.pending = <<>> THEN "DONE" ELSE "STREAMING", dst |-> moved]
    BY <1>1, <1>7
  <2>2. y.state \in {"DONE", "STREAMING"} /\ y.dst.pipeline = "TRANSFER"
    BY <1>4, <2>1
  <2>3. QED
    BY <1>7, <2>2 DEF y, lock
<1>8. QED
  BY <1>5, <1>6, <1>7

-----------------------------------------------------------------------------
\* Only a handler at work is resumed.

\* A step that keeps the states of the other handlers and cones, and lets what flows flow on.
OthersFlow(t) ==
  /\ \A u \in TH : u # t => thState'[u] = thState[u] /\ \A d \in ConesOf(u) : cone'[d] = cone[d]
  /\ \A u \in TH : u # t => \A d \in ConesOf(u) : Flowing(d, dst[d]) => Flowing(d, dst'[d])

\* A step of one handler, whose own part is known.
LEMMA PreparedOne ==
  ASSUME PreparedInv, NEW t \in TH, OthersFlow(t),
         thState'[t] # "IDLE" => \E d \in ConesOf(t) : cone'[d] # "DONE",
         thState'[t] = "IDLE" => \E d \in ConesOf(t) : Flowing(d, dst'[d])
  PROVE  PreparedInv'
BY DEF PreparedInv, OthersFlow

\* A call leaves a cone to finish, or a pipeline that flows.
LEMMA PreparedRun ==
  ASSUME IInv, PreparedInv, NEW t \in TH, NEW mode \in CallModes,
         thState[t] # "IDLE" \/ mode # "Resume",
         NEW draw, NEW after, \A d \in ConesOf(t) : after[d] = After(t, mode, d, draw[d]),
         RunCones(t, mode, after)
  PROVE  PreparedInv'
<1>1. /\ dst' = [d \in Dst |-> IF d \in ConesOf(t) THEN after[d].dst ELSE dst[d]]
      /\ cone' = [d \in Dst |-> IF d \in ConesOf(t) THEN after[d].state ELSE cone[d]]
      /\ thState' = [thState EXCEPT ![t] = IF AllDone(t, after) THEN "IDLE"
                                           ELSE IF mode = "Resume" THEN @ ELSE "BUSY"]
      /\ thState \in [TH -> {"IDLE", "READY", "BUSY"}]
      /\ cone \in [Dst -> ConeStates]
      /\ \A d \in Dst : Object(d, dst[d])
  BY DEF RunCones, IInv, TypeInv, ObjectInv, ConeStates
<1>2. \A u \in TH : ConesOf(u) \subseteq Dst /\ ConesOf(u) # {}
                    /\ (u # t => ConesOf(t) \cap ConesOf(u) = {})
  BY ConesApart
<1>3. /\ \A d \in ConesOf(t) : cone'[d] = after[d].state /\ dst'[d] = after[d].dst
      /\ thState'[t] = "IDLE" <=> AllDone(t, after)
      /\ \A u \in TH : u # t => thState'[u] = thState[u]
                                /\ \A d \in ConesOf(u) : cone'[d] = cone[d] /\ dst'[d] = dst[d]
  BY <1>1, <1>2
<1>4. OthersFlow(t)
  BY <1>3 DEF OthersFlow
<1>5. thState'[t] # "IDLE" => \E d \in ConesOf(t) : cone'[d] # "DONE"
  BY <1>3 DEF AllDone
<1>6. ASSUME AllDone(t, after)
      PROVE  \E d \in ConesOf(t) : Flowing(d, dst'[d])
  <2>1. PICK d \in ConesOf(t) : Was(t, mode, d) # "DONE"
    <3>1. CASE Takes(t, mode)
      BY <1>2, <3>1 DEF Was
    <3>2. CASE ~Takes(t, mode)
      BY <3>2 DEF Was, Takes, PreparedInv
    <3>3. QED
      BY <3>1, <3>2
  <2>2. d \in Dst /\ Object(d, Base(t, mode, d)) /\ Was(t, mode, d) \in ConeStates
    BY <1>1, <1>2, ResetLoad DEF Base, Was, ConeStates
  <2>3. after[d] = ProcessLogicCone(t, d, mode, Was(t, mode, d), Base(t, mode, d),
                                    Now(t, mode, SrcOf[d]), draw[d])
    BY DEF After, Base
  <2>4. after[d].state = "DONE"
    BY <1>6 DEF AllDone
  <2>5. after[d].dst.pipeline = "TRANSFER"
    BY <2>1, <2>2, <2>3, <2>4, ConeSwitch
  <2>6. QED
    BY <1>3, <2>5 DEF Flowing
<1>7. QED
  BY <1>3, <1>4, <1>5, <1>6, PreparedOne

\* A handler that only looks for packets lets its pipelines flow.
LEMMA PreparedPoll ==
  ASSUME IInv, PreparedInv, NEW t \in TH, thState[t] = "IDLE", Poll(t),
         \A u \in TH : u # t => thState'[u] = thState[u]
  PROVE  PreparedInv'
<1>1. \A u \in TH : ConesOf(u) \subseteq Dst /\ ConesOf(u) # {}
                    /\ (u # t => ConesOf(t) \cap ConesOf(u) = {})
  BY ConesApart
<1>2. /\ \A d \in ConesOf(t) : cone'[d] = "IDLE" /\ dst'[d] = ResetOffset(dst[d])
      /\ \A u \in TH : u # t => \A d \in ConesOf(u) : cone'[d] = cone[d] /\ dst'[d] = dst[d]
  BY <1>1 DEF Poll
<1>3. \E d \in ConesOf(t) : Flowing(d, dst'[d])
  <2>1. PICK d \in ConesOf(t) : Flowing(d, dst[d])
    BY DEF PreparedInv
  <2>2. d \in Dst /\ Object(d, dst[d])
    BY <1>1 DEF IInv, ObjectInv
  <2>3. QED
    BY <1>2, <2>1, <2>2, FlowsOn
<1>4. QED
  BY <1>1, <1>2, <1>3, PreparedOne DEF OthersFlow

\* Nothing but the pipelines moves.
LEMMA PreparedPipes ==
  ASSUME PreparedInv, thState' = thState, cone' = cone,
         \A d \in Dst : Flowing(d, dst[d]) => Flowing(d, dst'[d])
  PROVE  PreparedInv'
BY ConesApart DEF PreparedInv

\* Every step keeps the pipelines as PreparedInv says.
LEMMA PreparedNext ==
  ASSUME IInv, AgendaInv, PreparedInv, [Next]_vars
  PROVE  PreparedInv'
<1>0. ObjectInv /\ TypeInv
  BY DEF IInv
<1>1. ASSUME UNCHANGED <<thState, cone, dst>>
      PROVE  PreparedInv'
  BY <1>1, PreparedPipes
<1>2. ASSUME NEW f \in Seed, BackDoorWrite(f)
      PROVE  PreparedInv'
  BY <1>1, <1>2 DEF BackDoorWrite, thVars
<1>3. CASE UNCHANGED vars \/ Start
  BY <1>1, <1>3 DEF vars, thVars, Start
<1>4. ASSUME NEW g \in Group, GroupNext(g)
      PROVE  PreparedInv'
  BY <1>1, <1>4 DEF GroupNext, PrepareOthers, Turn, SelectTH, Dispatch, thVars
<1>5. CASE Tick
  <2>1. thState' = thState /\ cone' = cone /\ \A d \in Dst : dst'[d] = Elapse(d, dst[d])
    BY <1>5 DEF Tick, thVars
  <2>2. QED
    BY <1>0, <2>1, FlowsOn, PreparedPipes DEF ObjectInv
<1>6. ASSUME NEW d \in Dst, UpdatePipeline(d)
      PROVE  PreparedInv'
  <2>1. thState' = thState /\ cone' = cone
    BY <1>6 DEF UpdatePipeline, thVars
  <2>2. dst' \in {[dst EXCEPT ![d] = dst[d]], [dst EXCEPT ![d] = Polled(d, dst[d])],
                  [dst EXCEPT ![d] = Shift(d, Polled(d, dst[d]))]}
    BY <1>6 DEF UpdatePipeline, Advance, Halt, Write
  <2>3. /\ dst = [e \in Dst |-> dst[e]] /\ Object(d, dst[d])
    BY <1>0 DEF ObjectInv
  <2>4. \A e \in Dst : e # d => dst'[e] = dst[e]
    BY <2>2, <2>3
  <2>5. dst'[d] \in {dst[d], Polled(d, dst[d]), Shift(d, Polled(d, dst[d]))}
    BY <2>2, <2>3
  <2>6. QED
    BY <2>1, <2>3, <2>4, <2>5, FlowsOn, PreparedPipes
<1>7. ASSUME NEW t \in TH, Starve(t)
      PROVE  PreparedInv'
  BY <1>7, PreparedPoll DEF Starve
<1>8. ASSUME NEW t \in TH, NEW mode \in CallModes, NEW next, Run(t, mode, next),
             thState[t] # "IDLE" \/ mode # "Resume"
      PROVE  PreparedInv'
  <2>1. PICK draw \in Draws(t, [s \in SourcesOf(t) |-> Now(t, mode, s).facet]) :
          RunCones(t, mode, [d \in ConesOf(t) |-> After(t, mode, d, draw[d])])
    BY <1>8 DEF Run
  <2> DEFINE after == [d \in ConesOf(t) |-> After(t, mode, d, draw[d])]
  <2>2. \A d \in ConesOf(t) : after[d] = After(t, mode, d, draw[d])
    OBVIOUS
  <2> HIDE DEF after
  <2>3. RunCones(t, mode, after)
    BY <2>1 DEF after
  <2>4. QED
    BY <1>8, <2>2, <2>3, PreparedRun
<1>9. ASSUME NEW t \in TH, HandlerNext(t)
      PROVE  PreparedInv'
  <2>1. CASE Execute(t)
    BY <1>7, <1>8, <2>1 DEF Execute, CallModes
  <2>2. CASE Prepare(t)
    BY <1>7, <1>8, <2>2 DEF Prepare, CallModes
  <2>3. CASE Resume(t)
    <3>1. thState[t] # "IDLE"
      BY <2>3 DEF Resume, Called, Job, AgendaInv
    <3>2. QED
      BY <1>8, <2>3, <3>1 DEF Resume, CallModes
  <2>4. CASE IsReady(t) /\ thState[t] = "IDLE"
    <3>1. \A u \in TH : u # t => thState'[u] = thState[u]
      BY <1>0, <2>4 DEF IsReady, TypeInv
    <3>2. QED
      BY <2>4, <3>1, PreparedPoll DEF IsReady
  <2>5. CASE IsReady(t) /\ thState[t] # "IDLE"
    BY <1>1, <2>5 DEF IsReady
  <2>6. QED
    BY <1>9, <2>1, <2>2, <2>3, <2>4, <2>5 DEF HandlerNext
<1>10. QED
  BY <1>2, <1>3, <1>4, <1>5, <1>6, <1>9 DEF Next

\* At the beginning nothing is called and everything flows.
LEMMA PreparedInit ==
  ASSUME Init
  PROVE  AgendaInv /\ PreparedInv
<1>1. \A d \in Dst : Flowing(d, dst[d])
  BY DEF Init, NewDestination, Flowing
<1>2. PreparedInv
  BY <1>1, ConesApart DEF Init, PreparedInv
<1>3. AgendaInv
  BY DEF Init, AgendaInv, Plain
<1>4. QED
  BY <1>2, <1>3

\* A group resumes no child that is idle.
ResumedAtWork ==
  \A t \in TH : agenda # <<>> /\ Head(agenda) = Job("Resume", t) => thState[t] # "IDLE"

\* CGroupTH::Resume and the groups' Execute call ResumeTH only of a child that is at work
\* (CTransHandler.cc): Resume never meets a handler that holds no packet.
THEOREM NoIdleResumed == Spec => []ResumedAtWork
<1>1. Init => IInv /\ AgendaInv /\ PreparedInv
  BY InitHolds, PreparedInit
<1>2. IInv /\ AgendaInv /\ PreparedInv /\ [Next]_vars => (IInv /\ AgendaInv /\ PreparedInv)'
  BY NextHolds, AgendaNext, PreparedNext DEF IInv
<1>3. AgendaInv => ResumedAtWork
  BY DEF AgendaInv, ResumedAtWork, Job
<1>4. QED
  BY <1>1, <1>2, <1>3, PTL DEF Spec

-----------------------------------------------------------------------------
\* What a call does to a cone and to the line of its destination.

\* What is known of the cone of d after a call that started from Base.
ConeRuns(t, mode, d, y) ==
  LET r == Base(t, mode, d)
      state == Was(t, mode, d)
      src == Now(t, mode, SrcOf[d])
  IN /\ Object(d, r) /\ SameQueue(dst[d], r) /\ state \in ConeStates
     /\ src.facet \in Facet
     /\ state \in {"IDLE", "LOCK_SRC"} => NewFor(d, r, arrival, src.facet)
     /\ Object(d, y.dst)
     /\ Waits(r, state, mode, y) \/ \E b : Works(d, r, b, state, src, y)
     /\ y.state \in {"STREAMING", "DONE"} /\ state \in {"IDLE", "LOCK_SRC"} =>
          Ch(SrcCh[SrcOf[d]])!CanLockRd(t)
     /\ y.state \in {"IDLE", "LOCK_SRC"} => state \in {"IDLE", "LOCK_SRC"}

\* The cone of an engaged handler waits, or works on its packet.
LEMMA ConeRun ==
  ASSUME NEW t \in TH, NEW mode \in CallModes, Engaged(t, mode),
         NEW draw \in Draws(t, [s \in SourcesOf(t) |-> Now(t, mode, s).facet]),
         NEW d \in ConesOf(t)
  PROVE  ConeRuns(t, mode, d, After(t, mode, d, draw[d]))
<1> DEFINE src == Now(t, mode, SrcOf[d])
           r == Base(t, mode, d)
           state == Was(t, mode, d)
           y == After(t, mode, d, draw[d])
<1>1. /\ d \in Dst /\ SrcOf[d] \in SourcesOf(t)
      /\ EngagedSource(t, mode, SrcOf[d]) /\ EngagedCone(t, mode, d)
  BY ConesApart DEF Engaged
<1>2. /\ src.facet \in Facet /\ Home(src.facet) = SrcCh[SrcOf[d]]
      /\ src.facet.by \in Accepts[SrcOf[d]]
  BY <1>1 DEF EngagedSource, Reads
<1>3. draw[d].sizes \in Yield[d][src.facet.size]
  <2>1. draw[d] \in Draw(d, src.facet)
    BY <1>1 DEF Draws
  <2>2. src.facet # None
    BY <1>2, FacetAssumption
  <2> HIDE DEF src
  <2>3. QED
    BY <2>1, <2>2 DEF Draw
<1>4. /\ Object(d, r) /\ SameQueue(dst[d], r) /\ state \in ConeStates
      /\ state = "STREAMING" => r.pending # <<>>
      /\ state \in {"IDLE", "LOCK_SRC"} => NewFor(d, r, arrival, src.facet)
  BY <1>1 DEF EngagedCone, ConeStates
<1>5. y = ProcessLogicCone(t, d, mode, state, r, src, draw[d])
  BY DEF After, Base
<1> HIDE DEF src, r, state, y
<1>6. /\ Object(d, y.dst)
      /\ Waits(r, state, mode, y) \/ \E b : Works(d, r, b, state, src, y)
  BY <1>1, <1>2, <1>3, <1>4, <1>5, ConeResult
<1>7. y.state \in {"STREAMING", "DONE"} /\ state \in {"IDLE", "LOCK_SRC"} =>
        Ch(SrcCh[SrcOf[d]])!CanLockRd(t)
  BY <1>1, <1>4, <1>5, ConeSwitch
<1>8. y.state \in {"IDLE", "LOCK_SRC"} => state \in {"IDLE", "LOCK_SRC"}
  BY <1>1, <1>4, <1>5, ConeSwitch
<1>9. QED
  BY <1>2, <1>4, <1>6, <1>7, <1>8 DEF ConeRuns, src, r, state, y

\* A call leaves the facets of a destination in line.
LEMMA LineRun ==
  ASSUME IInv, NEW t \in TH, NEW mode, Engaged(t, mode),
         NEW d \in ConesOf(t), NEW y, ConeRuns(t, mode, d, y),
         InLine(d, dst[d], chSize)
  PROVE  InLine(d, y.dst, chSize)
<1> DEFINE r == Base(t, mode, d)
           state == Was(t, mode, d)
           src == Now(t, mode, SrcOf[d])
           q == y.dst
<1>1. /\ d \in Dst /\ Object(d, r) /\ SameQueue(dst[d], r) /\ Object(d, q)
      /\ state \in {"IDLE", "LOCK_SRC"} => NewFor(d, r, arrival, src.facet)
      /\ Waits(r, state, mode, y) \/ \E b : Works(d, r, b, state, src, y)
  BY ConesApart DEF ConeRuns
<1>2. /\ arrival \in [Facet -> Nat] /\ chSize \in [Facet -> Nat]
      /\ Conserved(d, dst[d], arrival, chSize) /\ Queued(d, dst[d], arrival)
      /\ src.facet \in Facet /\ Home(src.facet) = SrcCh[SrcOf[d]]
  <2>1. EngagedSource(t, mode, SrcOf[d])
    BY ConesApart DEF Engaged
  <2>2. QED
    BY <1>1, <2>1 DEF IInv, ChannelInv, LoadInv, EngagedSource, Reads
<1>3. /\ InLine(d, r, chSize) /\ Conserved(d, r, arrival, chSize) /\ Queued(d, r, arrival)
      /\ \A f : MadeBy(d, r, arrival, f) <=> MadeBy(d, dst[d], arrival, f)
  BY <1>1, <1>2, SameLine, SameKeeps
<1>a. \A f \in FacetsBy(d) : MadeBy(d, r, arrival, f) => f.of \in Facet /\ Home(f.of) = Home(src.facet)
  BY <1>1, <1>2, <1>3 DEF IInv, FreshInv, ChannelInv
<1> HIDE DEF r, state, src
<1>4. CASE Waits(r, state, mode, y)
  <2>1. SameQueue(r, q)
    BY <1>4 DEF Waits, SameLoad, SameQueue
  <2>2. QED
    BY <1>3, <2>1, SameLine
<1>5. ASSUME NEW b, Works(d, r, b, state, src, y)
      PROVE  InLine(d, q, chSize)
  <2>1. Object(d, b) /\ InLine(d, b, chSize) /\ Conserved(d, b, arrival, chSize)
    <3>1. CASE SameLoad(r, b)
      <4>1. SameQueue(r, b)
        BY <3>1 DEF SameLoad, SameQueue
      <4>2. QED
        BY <1>2, <1>3, <1>5, <4>1, SameLine, SameKeeps DEF Works
    <3>2. CASE Filled(d, r, b, src.facet) /\ NewFor(d, r, arrival, src.facet)
      <4>1. Object(d, b)
        BY <1>5 DEF Works
      <4>2. InLine(d, b, chSize)
        BY <1>1, <1>2, <1>3, <3>2, FillLine
      <4>3. Conserved(d, b, arrival, chSize)
        BY <1>1, <1>2, <1>3, <1>a, <3>2, FillKeeps
      <4>4. QED
        BY <4>1, <4>2, <4>3
    <3>3. QED
      BY <1>1, <1>5, <3>1, <3>2 DEF Works, state, r, src
  <2>2. CASE SameLoad(b, q)
    <3>1. SameQueue(b, q)
      BY <2>2 DEF SameLoad, SameQueue
    <3>2. QED
      BY <2>1, <3>1, SameLine
  <2>3. CASE BiteSent(d, b, q)
    BY <1>1, <1>2, <2>1, <2>3, BiteLine
  <2>4. QED
    BY <1>5, <2>2, <2>3 DEF Works
<1>6. QED
  BY <1>1, <1>4, <1>5

-----------------------------------------------------------------------------
\* What a call does to the channels that it reads.

\* How far the sources are read: FlushSRC goes up to all that has arrived.
Till(t, mode, after, s) ==
  IF AllDone(t, after) THEN chSize[Now(t, mode, s).facet]
                       ELSE ReadByCones(t, s, Now(t, mode, s), after)

\* The read offset and the end of a source lie between what was read before and what has
\* arrived.
Reach(t, mode, after, s) ==
  LET p == Now(t, mode, s).facet
      c == SrcCh[s]
      till == Till(t, mode, after, s)
      left == Left(t, mode, after, s)
  IN /\ p \in Facet /\ Home(p) = c
     /\ till \in Nat /\ offset[p] <= till /\ till <= chSize[p] /\ chSize[p] <= p.size
     /\ left.offset = IF Mode[s] = "PIPELINE" THEN till ELSE offset[p]
     /\ left.done = Ch(c)!SourceDone(t, p, till, AllDone(t, after))
     /\ left.done \in BOOLEAN
     /\ Ch(c)!ReadOffset(p, till) = till

\* Nothing is read that has not arrived.
ReadInv == \A f \in Facet : offset[f] <= chSize[f]

\* No source is read beyond what has arrived, and nothing is read twice.
LEMMA SourceReach ==
  ASSUME IInv, ReadInv, NEW t \in TH, NEW mode, Engaged(t, mode), NEW after,
         \A d \in ConesOf(t) : ConeGood(t, mode, d, after[d]),
         NEW s \in SourcesOf(t), ~Now(t, mode, s).done
  PROVE  Reach(t, mode, after, s)
<1> DEFINE src == Now(t, mode, s)
           p == src.facet
           c == SrcCh[s]
           offsets == {chSize[p]} \cup {after[d].dst.offset : d \in {e \in ConesOf(t) : SrcOf[e] = s}}
           new == ReadByCones(t, s, src, after)
           all == AllDone(t, after)
           till == IF all THEN chSize[p] ELSE new
           left == Left(t, mode, after, s)
<1>1. /\ p \in Facet /\ Home(p) = c /\ p \in FacetsOf(c)
      /\ p.size \in Nat /\ chSize[p] \in Nat /\ chSize[p] <= p.size
      /\ offset[p] \in Nat /\ offset[p] <= chSize[p]
  <2>1. EngagedSource(t, mode, s)
    BY DEF Engaged
  <2>2. p \in Facet /\ Home(p) = c
    BY <2>1 DEF EngagedSource, Reads
  <2> HIDE DEF p
  <2>3. QED
    BY <2>2, HomeType DEF IInv, ChannelInv, FacetsOf, ReadInv
<1>2. \A d \in ConesOf(t) : SrcOf[d] = s =>
        after[d].dst.offset \in Nat /\ offset[p] <= after[d].dst.offset
  <2> SUFFICES ASSUME NEW d \in ConesOf(t), SrcOf[d] = s
               PROVE  after[d].dst.offset \in Nat /\ offset[p] <= after[d].dst.offset
    OBVIOUS
  <2>1. EngagedCone(t, mode, d) /\ ConeGood(t, mode, d, after[d])
    BY DEF Engaged
  <2>2. offset[p] <= Base(t, mode, d).offset /\ Base(t, mode, d).offset \in Nat
    BY <2>1 DEF EngagedCone, Object
  <2>3. Base(t, mode, d).offset <= after[d].dst.offset /\ after[d].dst.offset \in Nat
    BY <2>1 DEF ConeGood, Object
  <2>4. QED
    BY <1>1, <2>2, <2>3
<1>3. new \in Nat /\ new <= chSize[p] /\ offset[p] <= new
  <2>1. offsets \in SUBSET Nat /\ offsets # {} /\ new = Min(offsets)
    BY <1>1, <1>2 DEF ReadByCones
  <2>2. \A k \in offsets : offset[p] <= k
    BY <1>1, <1>2
  <2>3. chSize[p] \in offsets
    OBVIOUS
  <2> HIDE DEF offsets, new
  <2>4. new \in offsets /\ \A k \in offsets : new <= k
    BY <2>1, LeastNumber
  <2>5. QED
    BY <2>1, <2>2, <2>3, <2>4
<1>4. left = SourceAfter(t, s, src, new, all)
  BY DEF Left
<1> HIDE DEF new, all, src
<1>5. till \in Nat /\ till <= chSize[p] /\ offset[p] <= till
  BY <1>1, <1>3
<1>6. Ch(c)!ReadOffset(p, till) = till
  BY <1>1, <1>5 DEF Ch!ReadOffset
<1>7. left.offset = IF Mode[s] = "PIPELINE" THEN till ELSE offset[p]
  BY <1>4, <1>6 DEF SourceAfter
<1>8. left.done = Ch(c)!SourceDone(t, p, till, all)
  BY <1>4 DEF SourceAfter
<1>9. left.done \in BOOLEAN
  <2>1. SourceGood(t, mode, after, s)
    BY RunSource
  <2>2. QED
    BY <2>1 DEF SourceGood
<1>10. till = Till(t, mode, after, s)
  BY DEF Till, new, all, src
<1>11. QED
  BY <1>1, <1>5, <1>6, <1>7, <1>8, <1>9, <1>10 DEF Reach, left, src, all

\* Whether the call takes the read lock of channel c.
Locks(t, mode, after, c) ==
  \E d \in ConesOf(t) : /\ SrcCh[SrcOf[d]] = c
                        /\ Was(t, mode, d) \in {"IDLE", "LOCK_SRC"}
                        /\ after[d].state \in {"STREAMING", "DONE"}

\* The readers of c when the cones of t have run, before they let go.
ReadersWith(t, mode, after, c) ==
  IF Locks(t, mode, after, c) THEN currentReader[c] \cup {t} ELSE currentReader[c]

\* The call reads nothing from channel c.
LeftAlone(t, mode, after, c) ==
  /\ content'[c] = content[c]
  /\ occupied'[c] = occupied[c]
  /\ currentReader'[c] = ReadersWith(t, mode, after, c)
  /\ \A f \in FacetsOf(c) : offset'[f] = offset[f]

\* The call updates source s.
ReadThere(t, mode, after, s) ==
  LET c == SrcCh[s]
      p == Now(t, mode, s).facet
      left == Left(t, mode, after, s)
      read == Ch(c)!Minus(occupied[c], left.offset - offset[p])
  IN /\ source'[s].done = left.done
     /\ \A f \in FacetsOf(c) : offset'[f] = IF f = p THEN left.offset ELSE offset[f]
     /\ occupied'[c] = IF left.done THEN Ch(c)!Minus(read, p.size - left.offset) ELSE read
     /\ content'[c] = IF left.done THEN content[c] \ {p} ELSE content[c]
     /\ currentReader'[c] = IF left.done THEN ReadersWith(t, mode, after, c) \ {t}
                                         ELSE ReadersWith(t, mode, after, c)

\* What a call does, channel by channel.
LEMMA RunChannels ==
  ASSUME IInv, NEW t \in TH, NEW mode, Engaged(t, mode), NEW after, Moves(t, mode, after)
  PROVE  /\ \A c \in Chan : (\A s \in SourcesOf(t) : SrcCh[s] # c) => LeftAlone(t, mode, after, c)
         /\ \A s \in SourcesOf(t) : Now(t, mode, s).done =>
              LeftAlone(t, mode, after, SrcCh[s]) /\ source'[s].done
         /\ \A s \in SourcesOf(t) : ~Now(t, mode, s).done => ReadThere(t, mode, after, s)
         /\ \A s \in SourcesOf(t) : source'[s].facet = Now(t, mode, s).facet
         /\ occupied' = [c \in Chan |-> occupied'[c]]
         /\ currentReader' = [c \in Chan |-> currentReader'[c]]
         /\ \A f \in Facet : offset'[f] = offset[f] \/ \E s \in Updated(t, mode) :
              f = Now(t, mode, s).facet /\ offset'[f] = Left(t, mode, after, s).offset
<1> DEFINE updated == Updated(t, mode)
           facet(s) == Now(t, mode, s).facet
           left == [s \in updated |-> Left(t, mode, after, s)]
           isUpdated(c) == c \in {SrcCh[s] : s \in SourcesOf(t)} /\ SourceOn(t, c) \in updated
           finished(c) == isUpdated(c) /\ left[SourceOn(t, c)].done
           locked == {SrcCh[SrcOf[d]] : d \in {e \in ConesOf(t) :
                        Was(t, mode, e) \in {"IDLE", "LOCK_SRC"}
                        /\ after[e].state \in {"STREAMING", "DONE"}}}
           readers(c) == IF c \in locked THEN currentReader[c] \cup {t} ELSE currentReader[c]
<1>1. /\ updated = {s \in SourcesOf(t) : ~Now(t, mode, s).done}
      /\ \A s \in SourcesOf(t) : /\ s \in Src /\ SrcCh[s] \in Chan /\ SourceOn(t, SrcCh[s]) = s
                                 /\ EngagedSource(t, mode, s)
  BY SourceOnIs DEF Engaged, Updated
<1>2. \A s \in SourcesOf(t) :
        /\ facet(s) \in Facet /\ Home(facet(s)) = SrcCh[s]
        /\ Now(t, mode, s) \in [facet : Facet, done : BOOLEAN]
  BY <1>1 DEF EngagedSource, Reads
<1>3. /\ source' = [s \in Src |->
           IF s \in updated THEN [Now(t, mode, s) EXCEPT !.done = left[s].done]
           ELSE IF s \in SourcesOf(t) THEN Now(t, mode, s) ELSE source[s]]
      /\ offset' = [f \in Facet |->
           IF \E s \in updated : facet(s) = f
           THEN left[CHOOSE s \in updated : facet(s) = f].offset ELSE offset[f]]
      /\ content' = [c \in Chan |->
           IF finished(c) THEN content[c] \ {facet(SourceOn(t, c))} ELSE content[c]]
      /\ currentReader' = [c \in Chan |-> IF finished(c) THEN readers(c) \ {t} ELSE readers(c)]
      /\ occupied' = [c \in Chan |->
          IF isUpdated(c)
          THEN LET f == facet(SourceOn(t, c))
                   read == Ch(c)!Minus(occupied[c], left[SourceOn(t, c)].offset - offset[f])
               IN IF finished(c) THEN Ch(c)!Minus(read, f.size - left[SourceOn(t, c)].offset)
                                 ELSE read
          ELSE occupied[c]]
  BY DEF Moves, RunSources
<1>4. \A c : readers(c) = ReadersWith(t, mode, after, c)
  BY DEF ReadersWith, Locks
<1> HIDE DEF readers, locked
<1>5. \A s \in updated : facet(s) \in Facet /\ left[s] = Left(t, mode, after, s) /\ s \in SourcesOf(t)
                         /\ SrcCh[s] \in Chan /\ Home(facet(s)) = SrcCh[s]
  BY <1>1, <1>2
<1> HIDE DEF updated, left, facet
<1>6. ASSUME NEW c \in Chan, ~isUpdated(c)
      PROVE  LeftAlone(t, mode, after, c)
  <2>1. \A s \in updated : SrcCh[s] # c
    BY <1>1, <1>6
  <2>2. \A f \in FacetsOf(c) : f \in Facet /\ ~\E s \in updated : facet(s) = f
    BY <1>5, <2>1 DEF FacetsOf
  <2>3. \A f \in FacetsOf(c) : offset'[f] = offset[f]
    BY <1>3, <2>2
  <2>4. ~finished(c)
    BY <1>6
  <2> HIDE DEF finished, isUpdated
  <2>5. QED
    BY <1>3, <1>4, <1>6, <2>3, <2>4 DEF LeftAlone
<1>7. \A c \in Chan : (\A s \in SourcesOf(t) : SrcCh[s] # c) => LeftAlone(t, mode, after, c)
  BY <1>6
<1>8. ASSUME NEW s \in SourcesOf(t), Now(t, mode, s).done
      PROVE  LeftAlone(t, mode, after, SrcCh[s]) /\ source'[s].done
  <2>1. s \notin updated /\ s \in Src
    BY <1>1, <1>8
  <2>2. ~isUpdated(SrcCh[s])
    BY <1>1, <2>1
  <2>3. source'[s] = Now(t, mode, s)
    BY <1>3, <2>1
  <2>4. QED
    BY <1>1, <1>6, <1>8, <2>2, <2>3
<1>9. ASSUME NEW s \in SourcesOf(t), ~Now(t, mode, s).done
      PROVE  ReadThere(t, mode, after, s) /\ source'[s].facet = facet(s)
  <2> DEFINE c == SrcCh[s]
             p == facet(s)
  <2>1. s \in updated /\ s \in Src /\ c \in Chan /\ SourceOn(t, c) = s /\ p \in Facet /\ Home(p) = c
    BY <1>1, <1>2, <1>9
  <2>2. isUpdated(c) /\ (finished(c) <=> left[s].done) /\ left[s] = Left(t, mode, after, s)
    BY <1>5, <2>1
  <2>3. source'[s] = [Now(t, mode, s) EXCEPT !.done = left[s].done]
    BY <1>3, <2>1
  <2>4. source'[s].done = left[s].done /\ source'[s].facet = facet(s)
    BY <1>2, <2>3 DEF facet
  <2>5. \A r \in updated : Home(facet(r)) = c => r = s
    BY <1>1, <1>5, <2>1, FlowAssumption
  <2>6. ASSUME NEW f \in FacetsOf(c)
        PROVE  offset'[f] = IF f = p THEN left[s].offset ELSE offset[f]
    <3>1. f \in Facet /\ Home(f) = c
      BY DEF FacetsOf
    <3>2. CASE f = p
      <4>1. (CHOOSE r \in updated : facet(r) = f) = s
        BY <2>1, <2>5, <3>1, <3>2
      <4>2. QED
        BY <1>3, <2>1, <3>1, <3>2, <4>1
    <3>3. CASE f # p
      <4>1. ~\E r \in updated : facet(r) = f
        BY <2>5, <3>1, <3>3
      <4>2. QED
        BY <1>3, <3>1, <3>3, <4>1
    <3>4. QED
      BY <3>2, <3>3
  <2> HIDE DEF finished, isUpdated
  <2>7. QED
    BY <1>3, <1>4, <2>1, <2>2, <2>4, <2>6 DEF ReadThere, facet
<1>10. \A s \in SourcesOf(t) : source'[s].facet = Now(t, mode, s).facet
  <2>1. ASSUME NEW s \in SourcesOf(t), Now(t, mode, s).done
        PROVE  source'[s].facet = Now(t, mode, s).facet
    <3>1. s \notin updated /\ s \in Src
      BY <1>1, <2>1
    <3>2. QED
      BY <1>3, <3>1
  <2>2. QED
    BY <1>9, <2>1 DEF facet
<1>11. ASSUME NEW f \in Facet
       PROVE  offset'[f] = offset[f] \/ \E s \in updated : f = facet(s) /\ offset'[f] = left[s].offset
  <2>1. CASE \E s \in updated : facet(s) = f
    <3>1. PICK r \in updated : r = CHOOSE s \in updated : facet(s) = f
      BY <2>1
    <3>2. facet(r) = f /\ offset'[f] = left[r].offset
      BY <1>3, <2>1, <3>1
    <3>3. QED
      BY <3>2
  <2>2. CASE ~\E s \in updated : facet(s) = f
    BY <1>3, <2>2
  <2>3. QED
    BY <2>1, <2>2
<1>12. /\ occupied' = [c \in Chan |-> occupied'[c]]
       /\ currentReader' = [c \in Chan |-> currentReader'[c]]
  BY <1>3
<1>13. \A f \in Facet : offset'[f] = offset[f] \/ \E s \in Updated(t, mode) :
              f = Now(t, mode, s).facet /\ offset'[f] = Left(t, mode, after, s).offset
  BY <1>5, <1>11 DEF updated, facet
<1>14. QED
  BY <1>7, <1>8, <1>9, <1>10, <1>12, <1>13

-----------------------------------------------------------------------------
\* What is known when a handler is called: shapes, lines and locks.

\* What is known of the channels: no count is negative, and what has arrived has some bytes.
ShapeInv ==
  /\ occupied \in [Chan -> Nat]
  /\ currentReader = [c \in Chan |-> currentReader[c]]
  /\ currentWriter = [c \in Chan |-> currentWriter[c]]
  /\ overflow = [c \in Chan |-> overflow[c]]
  /\ \A f \in Facet : arrival[f] # 0 <=> chSize[f] > 0
  /\ ReadInv

\* The facets of a destination are sent one after the other.
LineInv == \A d \in Dst : InLine(d, dst[d], chSize)

\* A cone that waits for the read lock has read nothing, and its source is not done; the
\* handler of a cone that works holds the lock until the source is done.
LockInv ==
  \A t \in TH : thState[t] # "IDLE" => \A d \in ConesOf(t) :
    LET s == SrcOf[d]
    IN /\ cone[d] \in {"IDLE", "LOCK_SRC"} => dst[d].offset = 0 /\ ~source[s].done
       /\ cone[d] \in {"STREAMING", "DONE"} /\ ~source[s].done =>
            t \in currentReader[SrcCh[s]]

\* The difference of two uint64 is one.
LEMMA MinusType ==
  ASSUME NEW c, NEW a \in Nat, NEW b \in Int, b < UInt
  PROVE  Ch(c)!Minus(a, b) \in Nat
<1>1. UInt \in Nat
  BY FlowAssumption
<1>2. QED
  BY <1>1 DEF Ch!Minus

\* A call of an engaged handler.
Calling(t, mode, after) ==
  /\ IInv /\ ShapeInv /\ LockInv
  /\ mode \in CallModes
  /\ Engaged(t, mode)
  /\ Takes(t, mode) <=> thState[t] = "IDLE"
  /\ Moves(t, mode, after)
  /\ \A d \in ConesOf(t) : ConeGood(t, mode, d, after[d]) /\ ConeRuns(t, mode, d, after[d])

\* A cone that waits after the call has read nothing of a source that is not done.
LEMMA WaitingCone ==
  ASSUME NEW t \in TH, NEW mode, NEW after, Calling(t, mode, after),
         NEW d \in ConesOf(t), after[d].state \in {"IDLE", "LOCK_SRC"}
  PROVE  /\ ~Now(t, mode, SrcOf[d]).done
         /\ after[d].dst.offset = 0
<1> DEFINE r == Base(t, mode, d)
           y == after[d]
           state == Was(t, mode, d)
<1>1. /\ state \in {"IDLE", "LOCK_SRC"} /\ Waits(r, state, mode, y)
  BY DEF Calling, ConeRuns, Works
<1>2. y.dst.offset = r.offset
  BY <1>1 DEF Waits, SameLoad
<1>3. d \in Dst /\ Object(d, dst[d]) /\ SrcOf[d] \in SourcesOf(t)
  BY ConesApart DEF Calling, IInv, ObjectInv
<1>4. CASE Takes(t, mode)
  <2>1. r.offset = 0
    BY <1>3, <1>4, ResetLoad DEF Base
  <2>2. ~Now(t, mode, SrcOf[d]).done
    BY <1>4 DEF Now, Has
  <2>3. QED
    BY <1>2, <2>1, <2>2
<1>5. CASE ~Takes(t, mode)
  <2>1. r = dst[d] /\ state = cone[d] /\ Now(t, mode, SrcOf[d]) = source[SrcOf[d]] /\ thState[t] # "IDLE"
    BY <1>5 DEF Base, Was, Now, Calling
  <2>2. dst[d].offset = 0 /\ ~source[SrcOf[d]].done
    BY <1>1, <2>1 DEF Calling, LockInv
  <2>3. QED
    BY <1>2, <2>1, <2>2
<1>6. QED
  BY <1>4, <1>5

\* The sources of such a cone stay where they are.
LEMMA WaitingSource ==
  ASSUME NEW t \in TH, NEW mode, NEW after, Calling(t, mode, after),
         NEW d \in ConesOf(t), after[d].state \in {"IDLE", "LOCK_SRC"}
  PROVE  LET s == SrcOf[d]
             p == Now(t, mode, s).facet
             left == Left(t, mode, after, s)
         IN offset[p] = 0 /\ left.offset = 0 /\ left.done = FALSE
<1> DEFINE s == SrcOf[d]
           src == Now(t, mode, s)
           p == src.facet
           c == SrcCh[s]
           till == Till(t, mode, after, s)
           left == Left(t, mode, after, s)
           offsets == {chSize[p]} \cup {after[e].dst.offset : e \in {e \in ConesOf(t) : SrcOf[e] = s}}
           all == AllDone(t, after)
<1>1. ~src.done /\ after[d].dst.offset = 0 /\ s \in SourcesOf(t)
  BY WaitingCone, ConesApart
<1>2. c \in Chan /\ SourceOn(t, c) = s /\ t \in ReadersOf(c) /\ s \in Src
  BY <1>1, SourceOnIs
<1>3. all = FALSE
  BY DEF AllDone
<1>4. Reach(t, mode, after, s)
  BY <1>1, SourceReach DEF Calling, ShapeInv
<1>5. p \in Facet /\ p \in FacetsOf(c) /\ p.size \in Nat \ {0} /\ chSize[p] \in Nat /\ offset[p] \in Nat
  <2>1. p \in Facet /\ Home(p) = c
    BY <1>4 DEF Reach
  <2> HIDE DEF p
  <2>2. QED
    BY <2>1, HomeType DEF Calling, IInv, ChannelInv, FacetsOf
<1>6. till = 0
  <2>1. till = Min(offsets)
    BY <1>3 DEF Till, ReadByCones
  <2>2. 0 \in offsets /\ offsets \in SUBSET Nat
    <3>1. \A e \in ConesOf(t) : after[e].dst.offset \in Nat
      BY DEF Calling, ConeRuns, Object
    <3>2. QED
      BY <1>1, <1>5, <3>1
  <2> HIDE DEF offsets, till
  <2>3. Min(offsets) \in Nat /\ Min(offsets) <= 0
    BY <2>2, LeastNumber
  <2>4. QED
    BY <2>1, <2>3
<1> HIDE DEF till, left, p, all
<1>7. offset[p] = 0 /\ left.offset = 0
  BY <1>4, <1>5, <1>6 DEF Reach, till, left, p
<1>8. left.done = Ch(c)!SourceDone(t, p, 0, all) /\ Ch(c)!ReadOffset(p, 0) = 0
  BY <1>4, <1>6 DEF Reach, till, left, p, all
<1>9. left.done = FALSE
  <2>1. Mode[s] \in {"SERIAL_AHEAD", "SERIAL_POST", "PIPELINE"}
    BY <1>2, FlowAssumption
  <2>2. CASE Mode[s] = "PIPELINE"
    <3>1. left.done = (0 = p.size)
      BY <1>2, <1>5, <1>8, <2>2 DEF Ch!SourceDone
    <3>2. (0 = p.size) = FALSE
      BY <1>5
    <3>3. QED
      BY <3>1, <3>2, Zenon
  <2>3. CASE Mode[s] = "SERIAL_AHEAD"
    <3>1. left.done = (0 > 0 \/ all)
      BY <1>2, <1>5, <1>8, <2>3 DEF Ch!SourceDone
    <3>2. (0 > 0) = FALSE
      OBVIOUS
    <3>3. QED
      BY <1>3, <3>1, <3>2, Zenon
  <2>4. CASE Mode[s] = "SERIAL_POST"
    <3>1. left.done = (0 >= p.size \/ all)
      BY <1>2, <1>5, <1>8, <2>4 DEF Ch!SourceDone
    <3>2. (0 >= p.size) = FALSE
      BY <1>5
    <3>3. QED
      BY <1>3, <3>1, <3>2, Zenon
  <2>5. QED
    BY <2>1, <2>2, <2>3, <2>4
<1>10. QED
  BY <1>7, <1>9 DEF left, p

\* What a call leaves of the sources and cones.
LEMMA CallLeaves ==
  ASSUME NEW t \in TH, NEW mode, NEW after, Calling(t, mode, after)
  PROVE  /\ \A d \in ConesOf(t) : cone'[d] = after[d].state /\ dst'[d] = after[d].dst
         /\ \A d \in Dst : d \notin ConesOf(t) => cone'[d] = cone[d] /\ dst'[d] = dst[d]
         /\ thState'[t] = "IDLE" <=> AllDone(t, after)
         /\ \A u \in TH : u # t => thState'[u] = thState[u]
         /\ \A s \in Src : s \notin SourcesOf(t) => source'[s] = source[s]
         /\ picked' = Claims(t, mode)
         /\ AllDone(t, after) /\ ~internalError' => \A s \in SourcesOf(t) : source'[s].done
<1>1. \A s \in SourcesOf(t) : ~Now(t, mode, s).done => SourceGood(t, mode, after, s)
  BY RunSource DEF Calling
<1>2. /\ picked' = Claims(t, mode)
      /\ \A s \in Src : s \notin SourcesOf(t) => source'[s] = source[s]
      /\ AllDone(t, after) /\ ~internalError' => \A s \in SourcesOf(t) : source'[s].done
  BY <1>1, SourcesMove DEF Calling, ChannelStep
<1>3. /\ dst' = [d \in Dst |-> IF d \in ConesOf(t) THEN after[d].dst ELSE dst[d]]
      /\ cone' = [d \in Dst |-> IF d \in ConesOf(t) THEN after[d].state ELSE cone[d]]
      /\ thState' = [thState EXCEPT ![t] = IF AllDone(t, after) THEN "IDLE"
                                           ELSE IF mode = "Resume" THEN @ ELSE "BUSY"]
      /\ thState \in [TH -> {"IDLE", "READY", "BUSY"}]
      /\ Takes(t, mode) <=> thState[t] = "IDLE"
  BY DEF Calling, Moves, RunCones, IInv, TypeInv
<1>4. ConesOf(t) \subseteq Dst
  BY ConesApart
<1>5. thState'[t] = "IDLE" <=> AllDone(t, after)
  BY <1>3 DEF Takes
<1>6. QED
  BY <1>2, <1>3, <1>4, <1>5

\* A call keeps the locks as LockInv says.
LEMMA LockCall ==
  ASSUME NEW t \in TH, NEW mode, NEW after, Calling(t, mode, after)
  PROVE  LockInv'
<1>0. /\ \A c \in Chan : (\A s \in SourcesOf(t) : SrcCh[s] # c) => LeftAlone(t, mode, after, c)
      /\ \A s \in SourcesOf(t) : Now(t, mode, s).done =>
           LeftAlone(t, mode, after, SrcCh[s]) /\ source'[s].done
      /\ \A s \in SourcesOf(t) : ~Now(t, mode, s).done => ReadThere(t, mode, after, s)
  BY RunChannels DEF Calling
<1>1. \A c \in Chan : currentReader[c] \ {t} \subseteq currentReader'[c]
  <2>1. \A c : currentReader[c] \subseteq ReadersWith(t, mode, after, c)
    BY DEF ReadersWith
  <2>2. \A c \in Chan : LeftAlone(t, mode, after, c) => currentReader[c] \subseteq currentReader'[c]
    BY <2>1 DEF LeftAlone
  <2>3. \A s \in SourcesOf(t) : ReadThere(t, mode, after, s) =>
          currentReader[SrcCh[s]] \ {t} \subseteq currentReader'[SrcCh[s]]
    BY <2>1 DEF ReadThere
  <2>4. QED
    BY <1>0, <2>2, <2>3
<1>2. ASSUME NEW u \in TH, u # t, thState'[u] # "IDLE", NEW d \in ConesOf(u)
      PROVE  LET s == SrcOf[d]
             IN /\ cone'[d] \in {"IDLE", "LOCK_SRC"} => dst'[d].offset = 0 /\ ~source'[s].done
                /\ cone'[d] \in {"STREAMING", "DONE"} /\ ~source'[s].done =>
                     u \in currentReader'[SrcCh[s]]
  <2>1. /\ d \in Dst /\ d \notin ConesOf(t) /\ SrcOf[d] \in SourcesOf(u)
        /\ SrcOf[d] \notin SourcesOf(t)
    BY <1>2, ConesApart
  <2>2. SrcOf[d] \in Src /\ SrcCh[SrcOf[d]] \in Chan
    BY <2>1, SourceOnIs
  <2>3. /\ cone'[d] = cone[d] /\ dst'[d] = dst[d] /\ source'[SrcOf[d]] = source[SrcOf[d]]
        /\ thState[u] # "IDLE"
    BY <1>2, <2>1, <2>2, CallLeaves
  <2>4. LockInv
    BY DEF Calling
  <2>5. QED
    BY <1>1, <1>2, <2>2, <2>3, <2>4 DEF LockInv
<1>3. ASSUME NEW d \in ConesOf(t), cone'[d] \in {"IDLE", "LOCK_SRC"}
      PROVE  dst'[d].offset = 0 /\ ~source'[SrcOf[d]].done
  <2>1. after[d].state \in {"IDLE", "LOCK_SRC"} /\ dst'[d] = after[d].dst /\ SrcOf[d] \in SourcesOf(t)
    BY <1>3, CallLeaves, ConesApart
  <2>2. ~Now(t, mode, SrcOf[d]).done /\ after[d].dst.offset = 0
    BY <2>1, WaitingCone
  <2>3. Left(t, mode, after, SrcOf[d]).done = FALSE
    BY <2>1, WaitingSource
  <2>4. QED
    BY <1>0, <2>1, <2>2, <2>3 DEF ReadThere
<1>4. ASSUME NEW d \in ConesOf(t), cone'[d] \in {"STREAMING", "DONE"}, ~source'[SrcOf[d]].done
      PROVE  t \in currentReader'[SrcCh[SrcOf[d]]]
  <2> DEFINE s == SrcOf[d]
             c == SrcCh[s]
  <2>1. after[d].state \in {"STREAMING", "DONE"} /\ s \in SourcesOf(t)
    BY <1>4, CallLeaves, ConesApart
  <2>2. ~Now(t, mode, s).done /\ ReadThere(t, mode, after, s)
    BY <1>0, <1>4, <2>1
  <2>3. currentReader'[c] = ReadersWith(t, mode, after, c)
    BY <1>4, <2>2 DEF ReadThere
  <2>4. Was(t, mode, d) \in ConeStates
    BY DEF Calling, ConeRuns
  <2>5. CASE Was(t, mode, d) \in {"IDLE", "LOCK_SRC"}
    BY <2>1, <2>3, <2>5 DEF ReadersWith, Locks
  <2>6. CASE Was(t, mode, d) \in {"STREAMING", "DONE"}
    <3>1. ~Takes(t, mode) /\ Was(t, mode, d) = cone[d]
      BY <2>6 DEF Was
    <3>2. Now(t, mode, s) = source[s] /\ thState[t] # "IDLE" /\ LockInv
      BY <3>1 DEF Now, Calling
    <3>3. t \in currentReader[c]
      BY <2>2, <2>6, <3>1, <3>2 DEF LockInv
    <3>4. QED
      BY <2>3, <3>3 DEF ReadersWith
  <2>7. QED
    BY <2>4, <2>5, <2>6 DEF ConeStates
<1>5. QED
  BY <1>2, <1>3, <1>4 DEF LockInv

\* A call leaves the counts of the channels numbers.
LEMMA ShapeCall ==
  ASSUME NEW t \in TH, NEW mode, NEW after, Calling(t, mode, after),
         UNCHANGED <<currentWriter, overflow>>
  PROVE  ShapeInv'
<1>0. /\ \A c \in Chan : (\A s \in SourcesOf(t) : SrcCh[s] # c) => LeftAlone(t, mode, after, c)
      /\ \A s \in SourcesOf(t) : Now(t, mode, s).done => LeftAlone(t, mode, after, SrcCh[s])
      /\ \A s \in SourcesOf(t) : ~Now(t, mode, s).done => ReadThere(t, mode, after, s)
      /\ occupied' = [c \in Chan |-> occupied'[c]]
      /\ currentReader' = [c \in Chan |-> currentReader'[c]]
      /\ \A f \in Facet : offset'[f] = offset[f] \/ \E s \in Updated(t, mode) :
           f = Now(t, mode, s).facet /\ offset'[f] = Left(t, mode, after, s).offset
  BY RunChannels DEF Calling
<1>1. /\ ShapeInv /\ UNCHANGED <<arrival, chSize>>
      /\ Updated(t, mode) = {s \in SourcesOf(t) : ~Now(t, mode, s).done}
      /\ offset \in [Facet -> Nat]
  BY DEF Calling, Moves, Engaged, Updated, IInv, ChannelInv
<1>2. ASSUME NEW s \in SourcesOf(t), ~Now(t, mode, s).done
      PROVE  LET p == Now(t, mode, s).facet
                 left == Left(t, mode, after, s)
             IN /\ p \in Facet /\ left.offset \in Nat /\ left.offset <= chSize[p]
                /\ chSize[p] <= p.size /\ p.size \in Nat /\ p.size < UInt /\ offset[p] \in Nat
                /\ chSize[p] \in Nat
  <2> DEFINE p == Now(t, mode, s).facet
             left == Left(t, mode, after, s)
             till == Till(t, mode, after, s)
  <2>1. Reach(t, mode, after, s)
    BY <1>1, <1>2, SourceReach DEF Calling, ShapeInv
  <2>2. /\ p \in Facet
        /\ till \in Nat /\ till <= chSize[p] /\ chSize[p] <= p.size
        /\ left.offset \in {till, offset[p]}
    BY <2>1 DEF Reach
  <2> HIDE DEF p, left, till
  <2>3. offset[p] \in Nat /\ offset[p] <= chSize[p] /\ chSize[p] \in Nat /\ p.size \in Nat /\ p.size < UInt
    BY <2>2, <1>1, FacetAssumption DEF ShapeInv, ReadInv, Calling, IInv, ChannelInv
  <2>4. QED
    BY <2>2, <2>3 DEF p, left
<1>3. ReadInv'
  <2>1. \A s \in Updated(t, mode) :
          Left(t, mode, after, s).offset <= chSize[Now(t, mode, s).facet]
    BY <1>1, <1>2
  <2>2. \A f \in Facet : offset'[f] = offset[f] \/ offset'[f] <= chSize[f]
    BY <1>0, <2>1
  <2>3. QED
    BY <1>1, <2>2 DEF ReadInv, ShapeInv
<1>4. ASSUME NEW c \in Chan
      PROVE  occupied'[c] \in Nat
  <2>1. occupied[c] \in Nat
    BY <1>1 DEF ShapeInv
  <2>2. CASE LeftAlone(t, mode, after, c)
    BY <2>1, <2>2 DEF LeftAlone
  <2>3. ASSUME NEW s \in SourcesOf(t), ~Now(t, mode, s).done, SrcCh[s] = c
        PROVE  occupied'[c] \in Nat
    <3> DEFINE p == Now(t, mode, s).facet
               left == Left(t, mode, after, s)
               read == Ch(c)!Minus(occupied[c], left.offset - offset[p])
    <3>1. occupied'[c] = IF left.done THEN Ch(c)!Minus(read, p.size - left.offset) ELSE read
      BY <1>0, <2>3 DEF ReadThere
    <3>2. /\ left.offset \in Nat /\ left.offset <= chSize[p]
          /\ chSize[p] <= p.size /\ p.size \in Nat /\ p.size < UInt /\ offset[p] \in Nat
          /\ chSize[p] \in Nat
      BY <1>2, <2>3
    <3> HIDE DEF left, p
    <3>3. UInt \in Nat
      BY FlowAssumption
    <3>4. /\ left.offset - offset[p] \in Int /\ left.offset - offset[p] < UInt
          /\ p.size - left.offset \in Int /\ p.size - left.offset < UInt
      BY <3>2, <3>3
    <3>5. read \in Nat
      BY <2>1, <3>4, MinusType
    <3> HIDE DEF read
    <3>6. Ch(c)!Minus(read, p.size - left.offset) \in Nat
      BY <3>4, <3>5, MinusType
    <3>7. QED
      BY <3>1, <3>5, <3>6
  <2>4. QED
    BY <1>0, <2>2, <2>3
<1>5. QED
  BY <1>0, <1>1, <1>3, <1>4 DEF ShapeInv

-----------------------------------------------------------------------------
\* What a call means to a channel.

\* What t reads from a channel, before and after a call.
LEMMA CallReading ==
  ASSUME NEW t \in TH, NEW mode, NEW after, Calling(t, mode, after), ~internalError',
         NEW c \in Chan
  PROVE  /\ \A u \in ReadersOf(c) : u # t => ReadingOn(u, c)' = ReadingOn(u, c)
         /\ \A s \in SourcesOf(t) : SrcCh[s] = c =>
              LET p == Now(t, mode, s).facet
              IN /\ ReadingOn(t, c) = IF Takes(t, mode) \/ Now(t, mode, s).done THEN None ELSE p
                 /\ ReadingOn(t, c)' = IF source'[s].done THEN None ELSE p
<1>1. ASSUME NEW u \in ReadersOf(c), u # t
      PROVE  ReadingOn(u, c)' = ReadingOn(u, c)
  <2>1. PICK s \in SourcesOf(u) : SrcCh[s] = c
    BY DEF ReadersOf
  <2>2. u \in TH /\ SourceOn(u, c) = s /\ s \in Src /\ s \notin SourcesOf(t)
    BY <1>1, <2>1, SourceOnIs, ConesApart DEF ReadersOf
  <2>3. thState'[u] = thState[u] /\ source'[s] = source[s]
    BY <1>1, <2>2, CallLeaves
  <2>4. QED
    BY <2>2, <2>3 DEF ReadingOn
<1>2. ASSUME NEW s \in SourcesOf(t), SrcCh[s] = c
      PROVE  LET p == Now(t, mode, s).facet
             IN /\ ReadingOn(t, c) = IF Takes(t, mode) \/ Now(t, mode, s).done THEN None ELSE p
                /\ ReadingOn(t, c)' = IF source'[s].done THEN None ELSE p
  <2>1. SourceOn(t, c) = s
    BY <1>2, SourceOnIs
  <2>2. ReadingOn(t, c) = IF thState[t] # "IDLE" /\ ~source[s].done THEN source[s].facet ELSE None
    BY <2>1 DEF ReadingOn
  <2>3. ReadingOn(t, c)' = IF thState'[t] # "IDLE" /\ ~source'[s].done THEN source'[s].facet ELSE None
    BY <2>1 DEF ReadingOn
  <2>4. source'[s].facet = Now(t, mode, s).facet
    BY RunChannels DEF Calling
  <2>5. thState'[t] = "IDLE" => source'[s].done
    BY CallLeaves
  <2>6. /\ Takes(t, mode) <=> thState[t] = "IDLE"
        /\ ~Takes(t, mode) => Now(t, mode, s) = source[s]
    BY DEF Calling, Now
  <2>7. QED
    BY <2>2, <2>3, <2>4, <2>5, <2>6
<1>3. QED
  BY <1>1, <1>2

\* What a call claims on channel c.
LEMMA CallClaims ==
  ASSUME NEW t \in TH, NEW mode, NEW after, Calling(t, mode, after), NEW c \in Chan
  PROVE  /\ (\A s \in SourcesOf(t) : SrcCh[s] # c) =>
              \A f \in FacetsOf(c) : f \in picked' <=> f \in picked
         /\ ~Takes(t, mode) => picked' = picked
         /\ \A s \in SourcesOf(t) : SrcCh[s] = c =>
              LET p == Now(t, mode, s).facet
              IN /\ p \in FacetsOf(c)
                 /\ \A f \in FacetsOf(c) : f \in picked' <=> f \in picked \/ f = p
                 /\ Takes(t, mode) => Ch(c)!PickUpFacet(t, p)
<1>1. picked' = Claims(t, mode)
  BY CallLeaves
<1>2. \A s \in SourcesOf(t) : LET p == Now(t, mode, s).facet
                              IN p \in Facet /\ Home(p) = SrcCh[s] /\ p \in Claims(t, mode)
  BY DEF Calling, Engaged, EngagedSource, Reads
<1>3. CASE ~Takes(t, mode)
  BY <1>1, <1>2, <1>3 DEF Claims, FacetsOf
<1>4. CASE Takes(t, mode)
  <2>1. \A s \in SourcesOf(t) : Now(t, mode, s).facet = PickUp(t, s)
    BY <1>4 DEF Now, Has
  <2>2. picked' = picked \cup {PickUp(t, s) : s \in SourcesOf(t)}
    BY <1>1, <1>4 DEF Claims
  <2>3. \A s \in SourcesOf(t) : PickUp(t, s) \in Facet /\ Home(PickUp(t, s)) = SrcCh[s]
    BY <1>2, <2>1
  <2>4. (\A s \in SourcesOf(t) : SrcCh[s] # c) =>
              \A f \in FacetsOf(c) : f \in picked' <=> f \in picked
    BY <2>2, <2>3 DEF FacetsOf
  <2>5. ASSUME NEW s \in SourcesOf(t), SrcCh[s] = c
        PROVE  LET p == Now(t, mode, s).facet
              IN /\ p \in FacetsOf(c)
                 /\ \A f \in FacetsOf(c) : f \in picked' <=> f \in picked \/ f = p
                 /\ Ch(c)!PickUpFacet(t, p)
    <3> DEFINE p == PickUp(t, s)
               found == {f \in content[c] : Ch(c)!PickUpFacet(t, f)}
    <3>1. p \in FacetsOf(c) /\ Now(t, mode, s).facet = p
      BY <2>1, <2>3, <2>5 DEF FacetsOf
    <3>2. \A r \in SourcesOf(t) : r # s => PickUp(t, r) \notin FacetsOf(c)
      BY <2>3, <2>5, FlowAssumption DEF FacetsOf
    <3>3. \A f \in FacetsOf(c) : f \in picked' <=> f \in picked \/ f = p
      BY <2>2, <3>2
    <3>4. p # None
      BY <2>3, HomeType
    <3>5. p \in found
      BY <2>5, <3>4 DEF PickUp
    <3>6. QED
      BY <3>1, <3>3, <3>5
  <2>6. QED
    BY <1>4, <2>4, <2>5
<1>5. QED
  BY <1>3, <1>4

\* Nothing but what the readers of channel c do changes in a call.
LEMMA CallQuiet ==
  ASSUME NEW t \in TH, NEW mode, NEW after, Calling(t, mode, after),
         UNCHANGED <<elaborating, currentWriter, overflow>>, NEW c \in Chan,
         content'[c] = content[c], occupied'[c] = occupied[c],
         currentReader'[c] = currentReader[c],
         \A f \in FacetsOf(c) : offset'[f] = offset[f],
         \A f \in FacetsOf(c) : f \in picked' <=> f \in picked,
         \A u \in ReadersOf(c) : ReadingOn(u, c)' = ReadingOn(u, c)
  PROVE  UNCHANGED Ch(c)!vars
<1>1. UNCHANGED <<arrival, arrived, chSize>>
  BY DEF Calling, Moves
<1>2. Quiet(c)
  BY <1>1 DEF Quiet
<1>3. QED
  BY <1>2, QuietStutters

\* A channel that the call does not read, or not any more, rests.
LEMMA CallElsewhere ==
  ASSUME NEW t \in TH, NEW mode, NEW after, Calling(t, mode, after), ~internalError',
         UNCHANGED <<elaborating, currentWriter, overflow>>, NEW c \in Chan,
         \A s \in SourcesOf(t) : SrcCh[s] = c => Now(t, mode, s).done
  PROVE  UNCHANGED Ch(c)!vars
<1>1. LeftAlone(t, mode, after, c)
  BY RunChannels DEF Calling
<1>2. ~Locks(t, mode, after, c)
  <2> SUFFICES ASSUME NEW d \in ConesOf(t), SrcCh[SrcOf[d]] = c,
                      Was(t, mode, d) \in {"IDLE", "LOCK_SRC"}
               PROVE  FALSE
    BY DEF Locks
  <2>1. Now(t, mode, SrcOf[d]).done
    BY ConesApart
  <2>2. ~Takes(t, mode)
    BY <2>1 DEF Now, Has
  <2>3. source[SrcOf[d]].done /\ cone[d] \in {"IDLE", "LOCK_SRC"} /\ thState[t] # "IDLE" /\ LockInv
    BY <2>1, <2>2 DEF Now, Was, Calling
  <2>4. QED
    BY <2>3 DEF LockInv
<1>3. currentReader'[c] = currentReader[c]
  BY <1>1, <1>2 DEF LeftAlone, ReadersWith
<1>4. CASE \A s \in SourcesOf(t) : SrcCh[s] # c
  <2>1. t \notin ReadersOf(c)
    BY <1>4 DEF ReadersOf
  <2>2. \A u \in ReadersOf(c) : ReadingOn(u, c)' = ReadingOn(u, c)
    BY <2>1, CallReading
  <2>3. \A f \in FacetsOf(c) : f \in picked' <=> f \in picked
    BY <1>4, CallClaims
  <2>4. QED
    BY <1>1, <1>3, <2>2, <2>3, CallQuiet DEF LeftAlone
<1>5. ASSUME NEW s \in SourcesOf(t), SrcCh[s] = c
      PROVE  UNCHANGED Ch(c)!vars
  <2>1. Now(t, mode, s).done /\ ~Takes(t, mode)
    BY <1>5 DEF Now, Has
  <2>2. source'[s].done
    BY <2>1, RunChannels DEF Calling
  <2>3. ReadingOn(t, c) = None /\ ReadingOn(t, c)' = None
    BY <1>5, <2>1, <2>2, CallReading
  <2>4. \A u \in ReadersOf(c) : ReadingOn(u, c)' = ReadingOn(u, c)
    BY <2>3, CallReading
  <2>5. picked' = picked
    BY <2>1, CallClaims
  <2>6. QED
    BY <1>1, <1>3, <2>4, <2>5, CallQuiet DEF LeftAlone
<1>6. QED
  BY <1>4, <1>5

\* A handler whose cones wait for the read lock claims its packet, or rests.
LEMMA CallWaits ==
  ASSUME NEW t \in TH, NEW mode, NEW after, Calling(t, mode, after), ~internalError',
         UNCHANGED <<elaborating, currentWriter, overflow>>, ~elaborating,
         NEW s \in SourcesOf(t), ~Now(t, mode, s).done,
         \A d \in ConesOf(t) : SrcOf[d] = s => after[d].state \in {"IDLE", "LOCK_SRC"}
  PROVE  LET c == SrcCh[s] IN UNCHANGED Ch(c)!vars \/ Ch(c)!Next
<1> DEFINE c == SrcCh[s]
           p == Now(t, mode, s).facet
           left == Left(t, mode, after, s)
<1>0. /\ c \in Chan /\ t \in ReadersOf(c) /\ occupied[c] \in Nat
      /\ UNCHANGED <<arrival, arrived, chSize>>
  BY SourceOnIs DEF Calling, ShapeInv, Moves
<1>1. ReadThere(t, mode, after, s)
  BY RunChannels DEF Calling
<1>2. PICK d \in ConesOf(t) : SrcOf[d] = s
  BY ConesApart
<1>3. offset[p] = 0 /\ left.offset = 0 /\ left.done = FALSE
  BY <1>2, WaitingSource
<1>4. ~Locks(t, mode, after, c)
  <2>1. \A e \in ConesOf(t) : SrcCh[SrcOf[e]] = c => SrcOf[e] = s
    BY ConesApart, FlowAssumption
  <2>2. QED
    BY <2>1 DEF Locks
<1>5. /\ content'[c] = content[c]
      /\ currentReader'[c] = currentReader[c]
      /\ \A f \in FacetsOf(c) : offset'[f] = offset[f]
      /\ occupied'[c] = Ch(c)!Minus(occupied[c], 0)
      /\ ~source'[s].done
  <2>1. left.offset - offset[p] = 0
    BY <1>3
  <2>2. QED
    BY <1>1, <1>3, <1>4, <2>1 DEF ReadThere, ReadersWith
<1>6. occupied'[c] = occupied[c]
  BY <1>0, <1>5 DEF Ch!Minus
<1>7. /\ \A u \in ReadersOf(c) : u # t => ReadingOn(u, c)' = ReadingOn(u, c)
      /\ ReadingOn(t, c) = IF Takes(t, mode) THEN None ELSE p
      /\ ReadingOn(t, c)' = p
  BY <1>0, <1>5, CallReading
<1>8. CASE ~Takes(t, mode)
  <2>1. picked' = picked
    BY <1>0, <1>8, CallClaims
  <2>2. \A u \in ReadersOf(c) : ReadingOn(u, c)' = ReadingOn(u, c)
    BY <1>7, <1>8
  <2>3. QED
    BY <1>0, <1>5, <1>6, <2>1, <2>2, CallQuiet
<1>9. CASE Takes(t, mode)
  <2>1. /\ p \in FacetsOf(c) /\ Ch(c)!PickUpFacet(t, p)
        /\ \A f \in FacetsOf(c) : f \in picked' <=> f \in picked \/ f = p
    BY <1>0, <1>9, CallClaims
  <2>2. \A d2 \in WritersOf(c) : WritingOf(d2)' = WritingOf(d2)
    <3>1. \A d2 \in WritersOf(c) : d2 \in Dst
      BY DEF WritersOf
    <3>2. QED
      BY <1>0, <3>1, QuietWriting
  <2> DEFINE reading == [u \in ReadersOf(c) |-> ReadingOn(u, c)]
  <2>3. [u \in ReadersOf(c) |-> ReadingOn(u, c)'] = [reading EXCEPT ![t] = p]
    BY <1>0, <1>7
  <2>4. picked' \cap FacetsOf(c) = (picked \cap FacetsOf(c)) \cup {p}
    BY <2>1
  <2>5. reading[t] = None
    BY <1>0, <1>7, <1>9
  <2> HIDE DEF reading
  <2>6. Ch(c)!Claim(t, p)
    BY <1>0, <1>5, <1>6, <2>1, <2>2, <2>3, <2>4, <2>5 DEF Ch!Claim, reading
  <2>7. QED
    BY <1>0, <2>1, <2>6 DEF Ch!Next, Ch!ReaderNext
<1>10. QED
  BY <1>8, <1>9

-----------------------------------------------------------------------------
\* Every call of a handler is a step of each channel, or none of its business.

\* A handler with a cone that works holds the read lock, and updates its source.
LEMMA CallUpdates ==
  ASSUME NEW t \in TH, NEW mode, NEW after, Calling(t, mode, after), ~internalError',
         UNCHANGED <<elaborating, currentWriter, overflow>>, ~elaborating,
         NEW d \in ConesOf(t), ~Now(t, mode, SrcOf[d]).done,
         after[d].state \in {"STREAMING", "DONE"}
  PROVE  LET c == SrcCh[SrcOf[d]] IN Ch(c)!Next
<1> DEFINE s == SrcOf[d]
           c == SrcCh[s]
           p == Now(t, mode, s).facet
           left == Left(t, mode, after, s)
           till == Till(t, mode, after, s)
           all == AllDone(t, after)
           reading == [u \in ReadersOf(c) |-> ReadingOn(u, c)]
<1>0. /\ s \in SourcesOf(t) /\ c \in Chan /\ t \in ReadersOf(c) /\ SourceOn(t, c) = s
      /\ UNCHANGED <<arrival, arrived, chSize>>
  BY SourceOnIs, ConesApart DEF Calling, Moves
<1>1. ReadThere(t, mode, after, s) /\ Reach(t, mode, after, s)
  BY <1>0, RunChannels, SourceReach DEF Calling, ShapeInv
<1>2. /\ p \in FacetsOf(c)
      /\ \A f \in FacetsOf(c) : f \in picked' <=> f \in picked \/ f = p
      /\ Takes(t, mode) => Ch(c)!PickUpFacet(t, p)
  BY <1>0, CallClaims
<1>3. /\ \A u \in ReadersOf(c) : u # t => ReadingOn(u, c)' = ReadingOn(u, c)
      /\ ReadingOn(t, c) = IF Takes(t, mode) THEN None ELSE p
      /\ ReadingOn(t, c)' = IF left.done THEN None ELSE p
  BY <1>0, <1>1, CallReading DEF ReadThere
<1>4. \A e \in WritersOf(c) : WritingOf(e)' = WritingOf(e)
  <2>1. \A e \in WritersOf(c) : e \in Dst
    BY DEF WritersOf
  <2>2. QED
    BY <1>0, <2>1, QuietWriting
<1>5. Was(t, mode, d) \in ConeStates
  BY DEF Calling, ConeRuns
<1>6. /\ Was(t, mode, d) \in {"IDLE", "LOCK_SRC"} => Locks(t, mode, after, c) /\ Ch(c)!CanLockRd(t)
      /\ Was(t, mode, d) \in {"STREAMING", "DONE"} => t \in currentReader[c]
  <2>1. CASE Was(t, mode, d) \in {"IDLE", "LOCK_SRC"}
    BY <2>1 DEF Locks, Calling, ConeRuns
  <2>2. CASE Was(t, mode, d) \in {"STREAMING", "DONE"}
    <3>1. ~Takes(t, mode) /\ Was(t, mode, d) = cone[d]
      BY <2>2 DEF Was
    <3>2. Now(t, mode, s) = source[s] /\ thState[t] # "IDLE" /\ LockInv
      BY <3>1 DEF Now, Calling
    <3>3. t \in currentReader[c]
      BY <2>2, <3>1, <3>2 DEF LockInv
    <3>4. QED
      BY <2>2, <3>3
  <2>3. QED
    BY <2>1, <2>2
<1>7. /\ Ch(c)!CanLockRd(t)
      /\ ReadersWith(t, mode, after, c) \ {t} = currentReader[c] \ {t}
      /\ ReadersWith(t, mode, after, c) = currentReader[c] \cup {t}
  <2>1. t \in currentReader[c] => Ch(c)!CanLockRd(t)
    BY DEF Ch!CanLockRd
  <2>2. QED
    BY <1>5, <1>6, <2>1 DEF ConeStates, ReadersWith
<1>8. /\ till \in Nat /\ offset[p] <= till /\ till <= p.size /\ offset[p] \in Nat /\ p.size \in Nat
      /\ left.offset = IF Mode[s] = "PIPELINE" THEN Ch(c)!ReadOffset(p, till) ELSE offset[p]
      /\ left.done = Ch(c)!SourceDone(t, p, till, all)
      /\ all \in BOOLEAN
  <2>1. p \in Facet
    BY <1>2 DEF FacetsOf
  <2>2. offset[p] \in Nat /\ p.size \in Nat /\ chSize[p] \in Nat
    <3> HIDE DEF p
    <3>1. QED
      BY <2>1, HomeType DEF Calling, IInv, ChannelInv
  <2>3. all \in BOOLEAN
    BY DEF AllDone
  <2>4. QED
    BY <1>1, <2>2, <2>3 DEF Reach
<1>9. CASE left.done
  <2>1. [u \in ReadersOf(c) |-> ReadingOn(u, c)'] = [reading EXCEPT ![t] = None]
    BY <1>0, <1>3, <1>9
  <2>2. currentReader'[c] = currentReader[c] \ {t} /\ content'[c] = content[c] \ {p}
    BY <1>1, <1>7, <1>9 DEF ReadThere
  <2>3. occupied'[c] = Ch(c)!Minus(Ch(c)!Minus(occupied[c], left.offset - offset[p]), p.size - left.offset)
    BY <1>1, <1>9 DEF ReadThere
  <2>4. [f \in FacetsOf(c) |-> offset'[f]] = [[f \in FacetsOf(c) |-> offset[f]] EXCEPT ![p] = left.offset]
    BY <1>1, <1>2 DEF ReadThere
  <2>5. picked' \cap FacetsOf(c) = (picked \cap FacetsOf(c)) \cup {p}
    BY <1>2
  <2>6. reading[t] = p \/ (reading[t] = None /\ Ch(c)!PickUpFacet(t, p))
    BY <1>0, <1>2, <1>3
  <2>7. Ch(c)!SourceDone(t, p, till, all)
    BY <1>8, <1>9
  <2> HIDE DEF reading, left, till, all, p
  <2>8. Ch(c)!Update(t, p, till, all)
    BY <1>0, <1>2, <1>4, <1>7, <1>8, <2>1, <2>2, <2>3, <2>4, <2>5, <2>6, <2>7
       DEF Ch!Update, Ch!CurrentFacet, reading
  <2>9. till \in offset[p] .. p.size
    BY <1>8
  <2>10. QED
    BY <1>0, <1>2, <1>8, <2>8, <2>9 DEF Ch!Next, Ch!ReaderNext
<1>10. CASE ~left.done
  <2>1. [u \in ReadersOf(c) |-> ReadingOn(u, c)'] = [reading EXCEPT ![t] = p]
    BY <1>0, <1>3, <1>10
  <2>2. currentReader'[c] = currentReader[c] \cup {t} /\ content'[c] = content[c]
    BY <1>1, <1>7, <1>10 DEF ReadThere
  <2>3. occupied'[c] = Ch(c)!Minus(occupied[c], left.offset - offset[p])
    BY <1>1, <1>10 DEF ReadThere
  <2>4. [f \in FacetsOf(c) |-> offset'[f]] = [[f \in FacetsOf(c) |-> offset[f]] EXCEPT ![p] = left.offset]
    BY <1>1, <1>2 DEF ReadThere
  <2>5. picked' \cap FacetsOf(c) = (picked \cap FacetsOf(c)) \cup {p}
    BY <1>2
  <2>6. reading[t] = p \/ (reading[t] = None /\ Ch(c)!PickUpFacet(t, p))
    BY <1>0, <1>2, <1>3
  <2>7. ~Ch(c)!SourceDone(t, p, till, all)
    BY <1>8, <1>10
  <2> HIDE DEF reading, left, till, all, p
  <2>8. Ch(c)!Update(t, p, till, all)
    BY <1>0, <1>2, <1>4, <1>7, <1>8, <2>1, <2>2, <2>3, <2>4, <2>5, <2>6, <2>7
       DEF Ch!Update, Ch!CurrentFacet, reading
  <2>9. till \in offset[p] .. p.size
    BY <1>8
  <2>10. QED
    BY <1>0, <1>2, <1>8, <2>8, <2>9 DEF Ch!Next, Ch!ReaderNext
<1>11. QED
  BY <1>9, <1>10

\* Every channel takes a step of its own, or rests, in a call that is not an error.
LEMMA CallChannels ==
  ASSUME NEW t \in TH, NEW mode, NEW after, Calling(t, mode, after), ~internalError',
         UNCHANGED <<elaborating, currentWriter, overflow>>, ~elaborating, NEW c \in Chan
  PROVE  UNCHANGED Ch(c)!vars \/ Ch(c)!Next
<1>1. CASE \A s \in SourcesOf(t) : SrcCh[s] = c => Now(t, mode, s).done
  BY <1>1, CallElsewhere
<1>2. ASSUME NEW s \in SourcesOf(t), SrcCh[s] = c, ~Now(t, mode, s).done
      PROVE  UNCHANGED Ch(c)!vars \/ Ch(c)!Next
  <2>1. CASE \A d \in ConesOf(t) : SrcOf[d] = s => after[d].state \in {"IDLE", "LOCK_SRC"}
    BY <1>2, <2>1, CallWaits
  <2>2. ASSUME NEW d \in ConesOf(t), SrcOf[d] = s, after[d].state \notin {"IDLE", "LOCK_SRC"}
        PROVE  Ch(c)!Next
    <3>1. after[d].state \in {"STREAMING", "DONE"}
      BY <2>2 DEF Calling, ConeGood, ConeStates
    <3>2. QED
      BY <1>2, <2>2, <3>1, CallUpdates
  <2>3. QED
    BY <2>1, <2>2
<1>3. QED
  BY <1>1, <1>2

-----------------------------------------------------------------------------
\* The steps that are no calls of handlers.

\* A step that changes nothing of the channels and of what is read.
LEMMA RestChannels ==
  ASSUME UNCHANGED chanVars, elaborating' = elaborating, NEW c \in Chan, SameReading(c)
  PROVE  UNCHANGED Ch(c)!vars
<1>1. Quiet(c)
  BY DEF Quiet, chanVars, SameReading
<1>2. QED
  BY <1>1, QuietStutters

\* Handlers whose states stay, and with them the sources of those that are not idle, read on.
LEMMA ReadingStays ==
  ASSUME NEW c \in Chan, thState' = thState,
         \A t \in TH : thState[t] # "IDLE" => \A s \in SourcesOf(t) : source'[s] = source[s]
  PROVE  SameReading(c)
<1> SUFFICES ASSUME NEW t \in ReadersOf(c)
             PROVE  ReadingOn(t, c)' = ReadingOn(t, c)
  BY DEF SameReading
<1>1. PICK s \in SourcesOf(t) : SrcCh[s] = c
  BY DEF ReadersOf
<1>2. t \in TH /\ SourceOn(t, c) = s
  BY <1>1, SourceOnIs DEF ReadersOf
<1>3. QED
  BY <1>2 DEF ReadingOn

\* The start of the simulation is a start for every channel.
LEMMA StartChannels ==
  ASSUME Start, NEW c \in Chan
  PROVE  Ch(c)!Start
<1>1. /\ elaborating /\ elaborating' = FALSE
      /\ UNCHANGED chanVars /\ UNCHANGED thVars
  BY DEF Start
<1>2. SameReading(c)
  BY <1>1, ReadingStays DEF thVars
<1>3. \A d \in WritersOf(c) : WritingOf(d)' = WritingOf(d)
  BY <1>1, QuietWriting DEF chanVars, WritersOf
<1>4. QED
  BY <1>1, <1>2, <1>3 DEF Ch!Start, chanVars, SameReading

\* Asking the sources of an idle handler that is not ready moves no channel.
LEMMA PollChannels ==
  ASSUME NEW t \in TH, thState[t] = "IDLE", Poll(t), thState' = thState,
         UNCHANGED chanVars, elaborating' = elaborating, TypeInv, NEW c \in Chan
  PROVE  UNCHANGED Ch(c)!vars
<1>1. \A s \in Src : s \notin SourcesOf(t) => source'[s] = source[s]
  BY AskedSome DEF Poll
<1>2. \A u \in TH : thState[u] # "IDLE" => \A s \in SourcesOf(u) : source'[s] = source[s]
  <2> SUFFICES ASSUME NEW u \in TH, thState[u] # "IDLE", NEW s \in SourcesOf(u)
               PROVE  source'[s] = source[s]
    OBVIOUS
  <2>1. s \in Src /\ u # t /\ s \notin SourcesOf(t)
    BY SourceOnIs, ConesApart
  <2>2. QED
    BY <1>1, <2>1
<1>3. QED
  BY <1>2, ReadingStays, RestChannels

\* IsReady of a handler that is ready claims a packet on every channel it reads.
LEMMA ReadyChannels ==
  ASSUME IInv, NEW t \in TH, IsReady(t), ~elaborating, NEW c \in Chan
  PROVE  UNCHANGED Ch(c)!vars \/ Ch(c)!Next
<1>0. /\ TypeInv /\ elaborating' = elaborating
      /\ UNCHANGED <<content, arrival, arrived, occupied, currentReader, currentWriter,
                     chSize, offset, overflow>>
  BY DEF IInv, IsReady, designVars
<1>1. CASE thState[t] # "IDLE"
  <2>1. UNCHANGED <<thState, source, picked>>
    BY <1>1 DEF IsReady
  <2>2. QED
    BY <1>0, <2>1, ReadingStays, RestChannels DEF chanVars
<1>2. CASE thState[t] = "IDLE" /\ Missing(t) # {}
  BY <1>0, <1>2, PollChannels DEF IsReady, chanVars
<1>3. CASE thState[t] = "IDLE" /\ Missing(t) = {}
  <2>1. /\ Poll(t) /\ thState' = [thState EXCEPT ![t] = "READY"]
        /\ picked' = picked \cup {PickUp(t, s) : s \in SourcesOf(t)}
    BY <1>3 DEF IsReady, ClaimAll
  <2>2. Asked(t) = SourcesOf(t) /\ \A s \in SourcesOf(t) : PickUp(t, s) # None
    BY <1>3, AskedAll
  <2>3. /\ \A s \in SourcesOf(t) : s \in Src /\ source'[s] = [facet |-> PickUp(t, s), done |-> FALSE]
        /\ \A s \in Src : s \notin SourcesOf(t) => source'[s] = source[s]
        /\ thState'[t] = "READY" /\ \A u \in TH : u # t => thState'[u] = thState[u]
    BY <1>0, <2>1, <2>2, SourceOnIs DEF Poll, Has, TypeInv
  <2>4. \A s \in SourcesOf(t) : LET p == PickUp(t, s) IN p \in Facet /\ Home(p) = SrcCh[s]
    BY <2>2, PickUpFacts DEF IInv, Reads
  <2>5. \A u \in ReadersOf(c) : u # t => ReadingOn(u, c)' = ReadingOn(u, c)
    <3> SUFFICES ASSUME NEW u \in ReadersOf(c), u # t
                 PROVE  ReadingOn(u, c)' = ReadingOn(u, c)
      OBVIOUS
    <3>1. PICK s \in SourcesOf(u) : SrcCh[s] = c
      BY DEF ReadersOf
    <3>2. u \in TH /\ SourceOn(u, c) = s /\ s \in Src /\ s \notin SourcesOf(t)
      BY <3>1, SourceOnIs, ConesApart DEF ReadersOf
    <3>3. QED
      BY <2>3, <3>2 DEF ReadingOn
  <2>6. CASE \A s \in SourcesOf(t) : SrcCh[s] # c
    <3>1. \A u \in ReadersOf(c) : ReadingOn(u, c)' = ReadingOn(u, c)
      BY <2>5, <2>6 DEF ReadersOf
    <3>2. \A f \in FacetsOf(c) : f \in picked' <=> f \in picked
      BY <2>1, <2>4, <2>6 DEF FacetsOf
    <3>3. Quiet(c)
      BY <1>0, <3>1, <3>2 DEF Quiet
    <3>4. QED
      BY <3>3, QuietStutters
  <2>7. ASSUME NEW s \in SourcesOf(t), SrcCh[s] = c
        PROVE  Ch(c)!Next
    <3> DEFINE p == PickUp(t, s)
               reading == [u \in ReadersOf(c) |-> ReadingOn(u, c)]
               found == {f \in content[c] : Ch(c)!PickUpFacet(t, f)}
    <3>1. t \in ReadersOf(c) /\ SourceOn(t, c) = s /\ p \in FacetsOf(c) /\ p # None
      BY <2>2, <2>4, <2>7, SourceOnIs DEF FacetsOf
    <3>2. p \in found
      BY <2>7, <3>1 DEF PickUp
    <3>3. ReadingOn(t, c) = None /\ ReadingOn(t, c)' = p
      <4>1. ReadingOn(t, c) = None
        BY <1>3 DEF ReadingOn
      <4>2. ReadingOn(t, c)' = IF thState'[t] # "IDLE" /\ ~source'[s].done THEN source'[s].facet ELSE None
        BY <3>1 DEF ReadingOn
      <4>3. source'[s] = [facet |-> p, done |-> FALSE]
        BY <2>3
      <4>5. thState'[t] # "IDLE"
        BY <2>3
      <4>6. ~source'[s].done /\ source'[s].facet = p
        BY <4>3
      <4>4. QED
        BY <4>1, <4>2, <4>5, <4>6
    <3>4. [u \in ReadersOf(c) |-> ReadingOn(u, c)'] = [reading EXCEPT ![t] = p]
      BY <2>5, <3>1, <3>3
    <3>5. reading[t] = None
      BY <3>1, <3>3
    <3>6. picked' \cap FacetsOf(c) = (picked \cap FacetsOf(c)) \cup {p}
      <4>1. \A r \in SourcesOf(t) : r # s => PickUp(t, r) \notin FacetsOf(c)
        BY <2>4, <2>7, FlowAssumption DEF FacetsOf
      <4>2. QED
        BY <2>1, <3>1, <4>1
    <3>7. \A d \in WritersOf(c) : WritingOf(d)' = WritingOf(d)
      BY <1>0, QuietWriting DEF WritersOf
    <3> HIDE DEF reading, p
    <3>8. Ch(c)!Claim(t, p)
      BY <1>0, <3>2, <3>4, <3>5, <3>6, <3>7 DEF Ch!Claim, reading
    <3>9. QED
      BY <3>1, <3>8 DEF Ch!Next, Ch!ReaderNext
  <2>8. QED
    BY <2>6, <2>7
<1>4. QED
  BY <1>1, <1>2, <1>3

\* The bite at the top of a pipeline is of the facet that its destination is writing.
LEMMA TopIsNext ==
  ASSUME IInv, ShapeInv, LineInv, NEW d \in Dst, TopBite(d, dst[d]) # NoBite
  PROVE  LET top == TopBite(d, dst[d])
             h == top.facet
             c == DstCh[d]
         IN /\ h \in FacetsBy(d) /\ h \in FacetsOf(c) /\ c \in Chan
            /\ top.size \in 1 .. h.size - chSize[h] /\ top.size \in 1 .. h.size
            /\ top.last <=> chSize[h] + top.size = h.size
            /\ Stages[d] \in Places(d, dst[d], h)
            /\ Begun(d) \subseteq {h}
            /\ \/ WritingOf(d) = h
               \/ WritingOf(d) = None /\ arrival[h] = 0
<1> DEFINE top == TopBite(d, dst[d])
           h == top.facet
           c == DstCh[d]
<1>1. /\ h \in FacetsBy(d) /\ top.size \in Nat \ {0}
      /\ Stages[d] \in Places(d, dst[d], h)
      /\ chSize[h] + top.size <= h.size
      /\ top.last <=> chSize[h] + top.size = h.size
      /\ {f \in Facet : f.by = d /\ 0 < chSize[f] /\ chSize[f] < f.size} \subseteq {h}
  <2>1. /\ Object(d, dst[d]) /\ Conserved(d, dst[d], arrival, chSize)
        /\ arrival \in [Facet -> Nat] /\ chSize \in [Facet -> Nat]
        /\ InLine(d, dst[d], chSize)
        /\ \A f \in FacetsBy(d) : arrival[f] # 0 <=> chSize[f] > 0
    BY DEF IInv, ObjectInv, LoadInv, ChannelInv, LineInv, ShapeInv, FacetsBy
  <2>2. QED
    BY <2>1, TopOfLine
<1>2. Begun(d) \subseteq {h}
  BY <1>1 DEF Begun
<1> HIDE DEF h, top
<1>3. /\ h \in Facet /\ h.by = d /\ chSize[h] \in Nat /\ h.size \in Nat
      /\ arrival[h] # 0 <=> chSize[h] > 0
  BY <1>1, HomeType DEF FacetsBy, IInv, ChannelInv, ShapeInv
<1>4. h \in FacetsOf(c) /\ c \in Chan
  BY <1>3, FlowAssumption DEF FacetsOf, Home
<1>5. top.size \in 1 .. h.size - chSize[h] /\ top.size \in 1 .. h.size
  BY <1>1, <1>3
<1>6. CASE chSize[h] > 0
  <2>1. h \in Begun(d)
    BY <1>1, <1>3, <1>6 DEF Begun
  <2>2. Begun(d) = {h}
    BY <1>2, <2>1
  <2>3. WritingOf(d) = h
    BY <2>2, WritingIs DEF OneOf
  <2>4. QED
    BY <1>1, <1>2, <1>4, <1>5, <2>3 DEF h, top
<1>7. CASE ~(chSize[h] > 0)
  <2>1. h \notin Begun(d) /\ arrival[h] = 0
    BY <1>3, <1>7 DEF Begun
  <2>2. Begun(d) = {}
    BY <1>2, <2>1
  <2>3. WritingOf(d) = None
    BY <2>2, WritingIs DEF OneOf
  <2>4. QED
    BY <1>1, <1>2, <1>4, <1>5, <2>1, <2>3 DEF h, top
<1>8. QED
  BY <1>6, <1>7

\* A pipeline that is halted halts at its channel, and no other channel moves.
LEMMA HaltChannels ==
  ASSUME IInv, ShapeInv, LineInv, NEW d \in Dst, Halt(d), UNCHANGED <<thVars, elaborating>>,
         ~elaborating, NEW c \in Chan
  PROVE  UNCHANGED Ch(c)!vars \/ Ch(c)!Next
<1> DEFINE top == TopBite(d, dst[d])
           h == top.facet
           e == DstCh[d]
           t == HandlerOf(d)
<1>1. /\ top # NoBite
      /\ ~(Ch(e)!CanLockWr(t) /\ Ch(e)!SpaceAvailable(top.size))
      /\ currentWriter' = [currentWriter EXCEPT ![e] =
                            IF Ch(e)!CanLockWr(t) THEN @ \cup {t} ELSE @]
      /\ UNCHANGED <<content, arrival, arrived, occupied, currentReader, chSize, offset,
                    picked, overflow>>
      /\ currentWriter = [b \in Chan |-> currentWriter[b]]
  BY DEF Halt, ShapeInv
<1>2. SameReading(c)
  BY ReadingStays DEF thVars
<1>3. CASE c # e \/ ~Ch(e)!CanLockWr(t)
  <2>1. currentWriter'[c] = currentWriter[c]
    BY <1>1, <1>3
  <2>2. Quiet(c)
    BY <1>1, <1>2, <2>1 DEF Quiet, SameReading
  <2>3. QED
    BY <2>2, QuietStutters
<1>4. CASE c = e /\ Ch(e)!CanLockWr(t)
  <2>1. /\ h \in FacetsOf(c)
        /\ top.size \in 1 .. h.size - chSize[h] /\ top.size \in 1 .. h.size
        /\ WritingOf(d) = h \/ (WritingOf(d) = None /\ arrival[h] = 0)
    BY <1>1, <1>4, TopIsNext
  <2>2. d \in WritersOf(c) /\ currentWriter'[c] = currentWriter[c] \cup {t}
    BY <1>1, <1>4 DEF WritersOf
  <2>3. \A w \in WritersOf(c) : WritingOf(w)' = WritingOf(w)
    BY <1>1, QuietWriting DEF WritersOf
  <2> HIDE DEF top, h, t
  <2>4. Ch(c)!TopBite(d, h, top.size)
    BY <2>1, <2>2 DEF Ch!TopBite
  <2>5. Ch(c)!CanLockWr(t) /\ ~Ch(c)!SpaceAvailable(top.size)
    BY <1>1, <1>4
  <2>6. Ch(c)!Halt(d, h, top.size)
    BY <1>1, <1>2, <2>2, <2>3, <2>4, <2>5 DEF Ch!Halt, SameReading, t
  <2>7. QED
    BY <2>1, <2>2, <2>6 DEF Ch!Next, Ch!WriterNext
<1>5. QED
  BY <1>3, <1>4

-----------------------------------------------------------------------------
\* Writes to a channel.

\* What Write does, by its parts.
LEMMA WriteFacts ==
  ASSUME IInv, ShapeInv, LineInv, NEW d \in Dst, Write(d)
  PROVE  LET top == TopBite(d, dst[d])
             h == top.facet
             c == DstCh[d]
         IN /\ top # NoBite
            /\ h \in Facet /\ Home(h) = c /\ c \in Chan /\ h.by = d
            /\ h \in content[c] => UNCHANGED <<content, arrival, arrived>> /\ arrival[h] # 0
            /\ h \notin content[c] => PushBack(c, h)
            /\ \A f \in Facet : chSize'[f] = IF f = h THEN chSize[h] + top.size ELSE chSize[f]
            /\ \A b \in Chan : occupied'[b] = IF b = c THEN occupied[c] + top.size ELSE occupied[b]
            /\ occupied' = [b \in Chan |-> occupied'[b]]
            /\ currentWriter' = [b \in Chan |-> currentWriter'[b]]
            /\ \A b \in Chan : b # c => currentWriter'[b] = currentWriter[b]
            /\ currentWriter'[c] = IF top.last THEN currentWriter[c] \ {HandlerOf(d)}
                                               ELSE currentWriter[c] \cup {HandlerOf(d)}
            /\ UNCHANGED <<currentReader, offset, picked, overflow>>
            /\ dst' = [dst EXCEPT ![d] = Shift(d, Polled(d, dst[d]))]
<1> DEFINE top == TopBite(d, dst[d])
           h == top.facet
           c == DstCh[d]
<1>1. /\ top # NoBite
      /\ IF h \in content[c] THEN UNCHANGED <<content, arrival, arrived>> ELSE PushBack(c, h)
      /\ chSize' = [chSize EXCEPT ![h] = @ + top.size]
      /\ occupied' = [occupied EXCEPT ![c] = @ + top.size]
      /\ currentWriter' = [currentWriter EXCEPT ![c] = IF top.last THEN @ \ {HandlerOf(d)}
                                                       ELSE @ \cup {HandlerOf(d)}]
      /\ UNCHANGED <<currentReader, offset, picked, overflow>>
      /\ dst' = [dst EXCEPT ![d] = Shift(d, Polled(d, dst[d]))]
  BY DEF Write, LockAfter
<1>2. h \in FacetsBy(d) /\ h \in FacetsOf(c) /\ c \in Chan
  BY <1>1, TopIsNext
<1>3. h \in Facet /\ Home(h) = c /\ h.by = d
  BY <1>2 DEF FacetsBy, FacetsOf
<1> HIDE DEF top, h
<1>4. /\ chSize = [f \in Facet |-> chSize[f]] /\ occupied = [b \in Chan |-> occupied[b]]
      /\ currentWriter = [b \in Chan |-> currentWriter[b]]
      /\ h \in content[c] => arrival[h] # 0
  BY <1>2 DEF IInv, ChannelInv, ShapeInv
<1>5. QED
  BY <1>1, <1>2, <1>3, <1>4 DEF top, h

\* A write of one bite is a step of the channel.
LEMMA WriterSteps ==
  ASSUME NEW c, NEW d \in WritersOf(c), NEW f \in FacetsOf(c), NEW bite \in 1 .. f.size,
         Ch(c)!Write(d, f, bite)
  PROVE  Ch(c)!Next
<1>1. Ch(c)!WriterNext(d)
  BY DEF Ch!WriterNext
<1>2. QED
  BY <1>1 DEF Ch!Next

\* A written bite is a write for its channel, and no other channel moves.
LEMMA WriteChannels ==
  ASSUME IInv, ShapeInv, LineInv, NEW d \in Dst, Write(d), UNCHANGED <<thVars, elaborating>>,
         ~elaborating, NEW b \in Chan
  PROVE  UNCHANGED Ch(b)!vars \/ Ch(b)!Next
<1> DEFINE top == TopBite(d, dst[d])
           h == top.facet
           c == DstCh[d]
           t == HandlerOf(d)
<1>1. /\ top # NoBite
      /\ h \in Facet /\ Home(h) = c /\ c \in Chan /\ h.by = d
      /\ h \in content[c] => UNCHANGED <<content, arrival, arrived>>
      /\ h \notin content[c] => PushBack(c, h)
      /\ \A f \in Facet : chSize'[f] = IF f = h THEN chSize[h] + top.size ELSE chSize[f]
      /\ \A e \in Chan : occupied'[e] = IF e = c THEN occupied[c] + top.size ELSE occupied[e]
      /\ \A e \in Chan : e # c => currentWriter'[e] = currentWriter[e]
      /\ currentWriter'[c] = IF top.last THEN currentWriter[c] \ {t} ELSE currentWriter[c] \cup {t}
      /\ UNCHANGED <<currentReader, offset, picked, overflow>>
  BY WriteFacts
<1>2. /\ h \in FacetsOf(c)
      /\ top.size \in 1 .. h.size - chSize[h] /\ top.size \in 1 .. h.size
      /\ top.last <=> chSize[h] + top.size = h.size
      /\ Begun(d) \subseteq {h}
      /\ WritingOf(d) = h \/ (WritingOf(d) = None /\ arrival[h] = 0)
  BY <1>1, TopIsNext
<1>3. SameReading(b)
  BY ReadingStays DEF thVars
<1>4. /\ Ch(c)!CanLockWr(t) /\ Ch(c)!SpaceAvailable(top.size)
  BY DEF Write
<1>5. /\ content = [e \in Chan |-> content[e]] /\ arrived = [e \in Chan |-> arrived[e]]
      /\ arrival = [f \in Facet |-> arrival[f]]
      /\ chSize[h] \in Nat /\ h.size \in Nat /\ top.size \in Nat \ {0}
  BY <1>1, <1>2, HomeType DEF IInv, ChannelInv
<1> HIDE DEF top, h, t
<1>6. /\ \A e \in Chan : e # c => content'[e] = content[e] /\ arrived'[e] = arrived[e]
      /\ \A f \in Facet : f # h => arrival'[f] = arrival[f]
      /\ h \notin content[c] => /\ content'[c] = content[c] \cup {h}
                                /\ arrived'[c] = arrived[c] + 1
                                /\ arrival'[h] = arrived[c] + 1
  BY <1>1, <1>5 DEF PushBack
<1>7. CASE b # c
  <2>1. \A f \in FacetsOf(b) : f # h /\ f \in Facet
    BY <1>1, <1>7 DEF FacetsOf
  <2>2. Quiet(b)
    BY <1>1, <1>3, <1>6, <1>7, <2>1 DEF Quiet, SameReading
  <2>3. QED
    BY <2>2, QuietStutters
<1>8. CASE b = c
  <2>1. d \in WritersOf(c) /\ HandlerOf(d) = t
    BY DEF WritersOf, t
  <2>2. \A w \in WritersOf(c) : w # d => WritingOf(w)' = WritingOf(w)
    <3>1. \A w \in WritersOf(c) : w # d => w \in Dst /\ \A f \in FacetsBy(w) : f # h /\ f \in Facet
      BY <1>1 DEF WritersOf, FacetsBy
    <3>2. QED
      BY <1>1, <3>1, QuietWriting
  <2>3. WritingOf(d)' = IF chSize[h] + top.size = h.size THEN None ELSE h
    <3>1. Begun(d)' = {f \in Facet : f.by = d /\ 0 < chSize'[f] /\ chSize'[f] < f.size}
      BY DEF Begun
    <3>2. \A f \in Facet : f # h => f \notin Begun(d)'
      BY <1>1, <1>2, <3>1 DEF Begun
    <3>3. h \in Begun(d)' <=> chSize[h] + top.size # h.size
      <4>1. chSize'[h] = chSize[h] + top.size
        BY <1>1
      <4>2. 0 < chSize[h] + top.size /\ chSize[h] + top.size <= h.size
        BY <1>2, <1>5
      <4>3. chSize[h] + top.size < h.size <=> chSize[h] + top.size # h.size
        BY <1>5, <4>2
      <4>4. QED
        BY <1>1, <3>1, <4>1, <4>2, <4>3
    <3>4. Begun(d)' \subseteq {h}
      BY <3>1, <3>2
    <3>5. Begun(d)' = IF chSize[h] + top.size = h.size THEN {} ELSE {h}
      BY <3>3, <3>4
    <3>6. QED
      BY <3>5, WritingIs DEF OneOf
  <2> DEFINE writing == [w \in WritersOf(c) |-> WritingOf(w)]
             sizes == [f \in FacetsOf(c) |-> chSize[f]]
             arrivals == [f \in FacetsOf(c) |-> arrival[f]]
  <2>4. [w \in WritersOf(c) |-> WritingOf(w)'] =
          IF chSize[h] + top.size = h.size THEN [writing EXCEPT ![d] = None]
                                           ELSE [writing EXCEPT ![d] = h]
    BY <2>1, <2>2, <2>3
  <2>5. [f \in FacetsOf(c) |-> chSize'[f]] = [sizes EXCEPT ![h] = @ + top.size]
    BY <1>1, <1>2 DEF FacetsOf
  <2>6. h \notin content[c] => [f \in FacetsOf(c) |-> arrival'[f]] = [arrivals EXCEPT ![h] = arrived[c] + 1]
    BY <1>2, <1>6 DEF FacetsOf
  <2>7. writing[d] = h \/ (writing[d] = None /\ arrivals[h] = 0)
    BY <1>2, <2>1
  <2>8. sizes[h] = chSize[h] /\ top.size \in 1 .. h.size - sizes[h]
    BY <1>2
  <2> HIDE DEF writing, sizes, arrivals
  <2>9. PICK f \in FacetsOf(c), n \in 1 .. h.size : f = h /\ n = top.size
    BY <1>2
  <2>10. Ch(c)!TopBite(d, f, n)
    BY <1>2, <2>1, <2>7, <2>8, <2>9 DEF Ch!TopBite, writing, sizes, arrivals
  <2>11. IF f \in content[c]
         THEN /\ content'[c] = content[c] /\ arrived'[c] = arrived[c]
              /\ [g \in FacetsOf(c) |-> arrival'[g]] = arrivals
         ELSE Ch(c)!PushBack(f)
    BY <1>1, <1>6, <2>6, <2>9 DEF Ch!PushBack, arrivals
  <2>12. currentWriter'[c] = IF sizes[f] + n = f.size THEN currentWriter[c] \ {t}
                                                       ELSE currentWriter[c] \cup {t}
    BY <1>1, <1>2, <2>8, <2>9
  <2>13. /\ occupied'[c] = occupied[c] + n
         /\ currentReader'[c] = currentReader[c] /\ offset' = offset /\ picked' = picked
         /\ overflow' = overflow
    BY <1>1, <2>9
  <2>14. /\ Ch(c)!CanLockWr(t) /\ Ch(c)!SpaceAvailable(n)
         /\ [w \in WritersOf(c) |-> WritingOf(w)'] =
              IF sizes[f] + n = f.size THEN [writing EXCEPT ![d] = None]
                                       ELSE [writing EXCEPT ![d] = f]
         /\ [g \in FacetsOf(c) |-> chSize'[g]] = [sizes EXCEPT ![f] = @ + n]
    BY <1>4, <2>4, <2>5, <2>8, <2>9
  <2>15. Ch(c)!Write(d, f, n)
    BY <1>3, <1>8, <2>1, <2>10, <2>11, <2>12, <2>13, <2>14
       DEF Ch!Write, SameReading, writing, sizes, arrivals, t
  <2>16. Ch(c)!Next
    BY <2>1, <2>9, <2>15, WriterSteps
  <2>17. QED
    BY <1>8, <2>16
<1>9. QED
  BY <1>7, <1>8

-----------------------------------------------------------------------------
\* The steps that keep MeetInv.

\* What is known of the channels beside IInv.
MeetInv == ShapeInv /\ LineInv /\ LockInv

\* Handlers, cones, sources and offsets that stay keep the locks.
LEMMA LockRest ==
  ASSUME LockInv, UNCHANGED <<thState, cone, source, currentReader>>,
         \A d \in Dst : dst'[d].offset = dst[d].offset
  PROVE  LockInv'
<1>1. \A t \in TH : ConesOf(t) \subseteq Dst
  BY ConesApart
<1>2. QED
  BY <1>1 DEF LockInv

\* An idle handler that asks its sources takes no lock and gives none back.
LEMMA LockPoll ==
  ASSUME IInv, LockInv, NEW t \in TH, Poll(t),
         UNCHANGED <<arrival, arrived, chSize, currentReader>>,
         \A u \in TH : u # t => thState'[u] = thState[u],
         thState'[t] # "IDLE" => Missing(t) = {}
  PROVE  LockInv'
<1>1. /\ \A d \in ConesOf(t) : dst'[d].offset = 0 /\ d \in Dst /\ cone'[d] = "IDLE"
      /\ \A d \in ConesOf(t) : SrcOf[d] \in SourcesOf(t)
  BY PollQueue, ConesApart DEF Poll
<1>2. OthersRest(t)
  BY PollOthers DEF IInv
<1>3. ASSUME NEW u \in TH, u # t, thState'[u] # "IDLE", NEW d \in ConesOf(u)
      PROVE  LET s == SrcOf[d]
             IN /\ cone'[d] \in {"IDLE", "LOCK_SRC"} => dst'[d].offset = 0 /\ ~source'[s].done
                /\ cone'[d] \in {"STREAMING", "DONE"} /\ ~source'[s].done =>
                     u \in currentReader'[SrcCh[s]]
  <2>1. /\ d \in Dst /\ d \notin ConesOf(t) /\ SrcOf[d] \in SourcesOf(u)
        /\ SrcOf[d] \notin SourcesOf(t)
    BY <1>3, ConesApart
  <2>2. SrcOf[d] \in Src
    BY <2>1, SourceOnIs
  <2>3. /\ cone'[d] = cone[d] /\ dst'[d] = dst[d] /\ source'[SrcOf[d]] = source[SrcOf[d]]
        /\ thState[u] # "IDLE" /\ currentReader' = currentReader
    BY <1>2, <1>3, <2>1, <2>2 DEF OthersRest
  <2>4. QED
    BY <1>3, <2>3 DEF LockInv
<1>4. ASSUME thState'[t] # "IDLE", NEW d \in ConesOf(t)
      PROVE  ~source'[SrcOf[d]].done
  <2>1. SrcOf[d] \in Asked(t) /\ SrcOf[d] \in Src
    BY <1>1, <1>4, AskedAll, SourceOnIs
  <2>2. source'[SrcOf[d]] = Has(t, SrcOf[d])
    BY <2>1 DEF Poll
  <2>3. QED
    BY <2>2 DEF Has
<1>5. QED
  BY <1>1, <1>3, <1>4 DEF LockInv

\* Counts that stay keep their shape.
LEMMA ShapeRest ==
  ASSUME ShapeInv,
         UNCHANGED <<arrival, occupied, currentReader, currentWriter, chSize, offset, overflow>>
  PROVE  ShapeInv'
BY DEF ShapeInv, ReadInv

\* Pipelines that keep their queues keep their lines.
LEMMA LineRest ==
  ASSUME LineInv, \A d \in Dst : \A f \in FacetsBy(d) : chSize'[f] = chSize[f],
         \A d \in Dst : SameQueue(dst[d], dst'[d])
  PROVE  LineInv'
<1> SUFFICES ASSUME NEW d \in Dst
             PROVE  InLine(d, dst'[d], chSize')
  BY DEF LineInv
<1>1. SameQueue(dst[d], dst'[d]) /\ InLine(d, dst[d], chSize)
  BY DEF LineInv
<1> DEFINE q == dst'[d]
           size == chSize'
<1>2. SameQueue(dst[d], q) /\ \A f \in FacetsBy(d) : size[f] = chSize[f]
  BY <1>1
<1> HIDE DEF q, size
<1>3. InLine(d, q, size)
  BY <1>1, <1>2, SameLine
<1>4. QED
  BY <1>3 DEF q, size

\* At the beginning all is empty.
LEMMA MeetInit == Init => MeetInv
<1> SUFFICES ASSUME Init
             PROVE  MeetInv
  OBVIOUS
<1>1. ShapeInv
  BY DEF Init, ShapeInv, ReadInv
<1>2. LockInv
  BY DEF Init, LockInv
<1>3. ASSUME NEW d \in Dst
      PROVE  InLine(d, dst[d], chSize)
  <2> DEFINE r == NewDestination(d)
  <2>1. dst[d] = r /\ chSize = [f \in Facet |-> 0]
    BY DEF Init
  <2>2. r.pending = <<>> /\ r.bite = NoBite /\ r.unit = [i \in 1 .. Stages[d] |-> NoBite]
    BY DEF NewDestination
  <2> HIDE DEF r
  <2>3. \A i \in 0 .. Stages[d] : BiteAt(r, i) = NoBite
    BY <2>2, DestinationAssumption DEF BiteAt
  <2>4. \A f : Places(d, r, f) = {}
    BY <2>3 DEF Places
  <2>5. \A f \in FacetsBy(d) : ~(chSize[f] > 0)
    BY <2>1 DEF FacetsBy
  <2>6. InLine(d, r, chSize)
    BY <2>4, <2>5 DEF InLine, Clear
  <2>7. QED
    BY <2>1, <2>6
<1>4. QED
  BY <1>1, <1>2, <1>3 DEF MeetInv, LineInv

\* A write at the back door brings a packet of a source in one piece.
LEMMA MeetBackDoor ==
  ASSUME IInv, MeetInv, NEW f \in Seed, BackDoorWrite(f)
  PROVE  MeetInv'
<1>0. /\ f \in Facet /\ f.by \in Src /\ Home(f) \in Chan /\ f.size \in Nat \ {0}
      /\ chSize \in [Facet -> Nat] /\ arrival \in [Facet -> Nat] /\ arrived \in [Chan -> Nat]
      /\ offset \in [Facet -> Nat]
      /\ ShapeInv /\ LineInv /\ LockInv
  BY HomeType DEF Seed, IInv, ChannelInv, MeetInv
<1>1. /\ arrival' = [arrival EXCEPT ![f] = arrived[Home(f)] + 1]
      /\ chSize' = [chSize EXCEPT ![f] = f.size]
      /\ occupied' = [occupied EXCEPT ![Home(f)] = @ + f.size]
      /\ arrival[f] = 0
      /\ UNCHANGED <<currentReader, currentWriter, offset, thState, source, cone, dst>>
  BY DEF BackDoorWrite, PushBack, thVars
<1>2. overflow' = [c \in Chan |-> overflow'[c]]
  BY <1>0 DEF BackDoorWrite, ShapeInv
<1>3. ShapeInv'
  <2>1. occupied' \in [Chan -> Nat]
    BY <1>0, <1>1 DEF ShapeInv
  <2>2. \A g \in Facet : arrival'[g] # 0 <=> chSize'[g] > 0
    BY <1>0, <1>1 DEF ShapeInv
  <2>3. ReadInv'
    <3>1. chSize[f] = 0
      BY <1>0, <1>1 DEF ShapeInv
    <3>2. offset[f] <= f.size
      BY <1>0, <3>1 DEF ShapeInv, ReadInv
    <3>3. QED
      BY <1>0, <1>1, <3>2 DEF ShapeInv, ReadInv
  <2>4. QED
    BY <1>0, <1>1, <1>2, <2>1, <2>2, <2>3 DEF ShapeInv
<1>4. LineInv'
  <2>1. \A d \in Dst : \A g \in FacetsBy(d) : g # f /\ g \in Facet
    BY <1>0, FlowAssumption DEF FacetsBy
  <2>2. \A d \in Dst : \A g \in FacetsBy(d) : chSize'[g] = chSize[g]
    BY <1>0, <1>1, <2>1
  <2>3. \A d \in Dst : SameQueue(dst[d], dst'[d])
    BY <1>1 DEF SameQueue
  <2>4. QED
    BY <1>0, <2>2, <2>3, LineRest
<1>5. LockInv'
  BY <1>0, <1>1, LockRest
<1>6. QED
  BY <1>3, <1>4, <1>5 DEF MeetInv

\* A step that moves no channel, handler or cone, and no queue.
LEMMA MeetRest ==
  ASSUME MeetInv, UNCHANGED <<arrival, occupied, currentReader, currentWriter, chSize, offset,
                              overflow, thState, source, cone>>,
         \A d \in Dst : SameQueue(dst[d], dst'[d]) /\ dst'[d].offset = dst[d].offset
  PROVE  MeetInv'
BY ShapeRest, LineRest, LockRest DEF MeetInv

\* Asking the sources.
LEMMA MeetPoll ==
  ASSUME IInv, MeetInv, NEW t \in TH, Poll(t),
         UNCHANGED <<arrival, arrived, occupied, currentReader, currentWriter, chSize, offset,
                     overflow>>,
         \A u \in TH : u # t => thState'[u] = thState[u],
         thState'[t] # "IDLE" => Missing(t) = {}
  PROVE  MeetInv'
<1>1. /\ \A d \in ConesOf(t) : dst'[d] = ResetOffset(dst[d])
      /\ \A d \in Dst : d \notin ConesOf(t) => dst'[d] = dst[d]
      /\ ObjectInv
  BY PollQueue DEF IInv
<1>2. \A d \in Dst : SameQueue(dst[d], ResetOffset(dst[d])) /\ SameQueue(dst[d], dst[d])
  BY <1>1, ResetLoad DEF ObjectInv, SameQueue
<1>3. \A d \in Dst : SameQueue(dst[d], dst'[d])
  BY <1>1, <1>2
<1>4. ShapeInv' /\ LockInv'
  BY ShapeRest, LockPoll DEF MeetInv
<1>5. LineInv'
  BY <1>3, LineRest DEF MeetInv
<1>6. QED
  BY <1>4, <1>5 DEF MeetInv

-----------------------------------------------------------------------------
\* Pipelines and calls keep MeetInv.

\* A step of one pipeline that shifts, and moves at most the bite at its top.
LEMMA LineShift ==
  ASSUME IInv, LineInv, NEW d \in Dst,
         dst' = [dst EXCEPT ![d] = Shift(d, Polled(d, dst[d]))],
         chSize' \in [Facet -> Nat],
         \A f \in Facet : chSize'[f] = chSize[f] \/ (f.by = d /\ Stages[d] \in Places(d, dst[d], f))
  PROVE  /\ LineInv'
         /\ \A e \in Dst : dst'[e].offset = dst[e].offset
<1> DEFINE r == dst[d]
           q == Shift(d, Polled(d, r))
<1>0. /\ dst = [e \in Dst |-> dst[e]]
      /\ \A e \in Dst : Object(e, dst[e])
      /\ chSize \in [Facet -> Nat]
  BY DEF IInv, ObjectInv, ChannelInv
<1>1. /\ Object(d, r) /\ Object(d, Polled(d, r)) /\ SameLoad(r, Polled(d, r))
  BY <1>0, PolledLoad
<1>2. Object(d, q) /\ Shifted(d, r, q)
  BY <1>1, ShiftLoad DEF Shifted, SameLoad
<1>3. dst'[d] = q /\ \A e \in Dst : e # d => dst'[e] = dst[e]
  BY <1>0
<1>4. InLine(d, dst'[d], chSize')
  <2> DEFINE size == chSize'
  <2>1. /\ size \in [Facet -> Nat] /\ InLine(d, r, chSize)
        /\ \A f \in FacetsBy(d) : size[f] = chSize[f] \/ Stages[d] \in Places(d, r, f)
    BY DEF LineInv, FacetsBy
  <2> HIDE DEF size, q, r
  <2>2. InLine(d, q, size)
    BY <1>0, <1>1, <1>2, <2>1, ShiftLine
  <2>3. QED
    BY <1>3, <2>2 DEF size
<1>5. ASSUME NEW e \in Dst, e # d
      PROVE  InLine(e, dst'[e], chSize')
  <2> DEFINE size == chSize'
             u == dst'[e]
  <2>1. \A f \in FacetsBy(e) : size[f] = chSize[f]
    BY <1>5 DEF FacetsBy
  <2>2. SameQueue(dst[e], u) /\ InLine(e, dst[e], chSize)
    BY <1>3, <1>5 DEF SameQueue, LineInv
  <2> HIDE DEF size, u
  <2>3. InLine(e, u, size)
    BY <2>1, <2>2, SameLine
  <2>4. QED
    BY <2>3 DEF size, u
<1>6. LineInv'
  BY <1>4, <1>5 DEF LineInv
<1>7. \A e \in Dst : dst'[e].offset = dst[e].offset
  BY <1>2, <1>3 DEF Shifted
<1>8. QED
  BY <1>6, <1>7

\* A pipeline that is polled or left alone.
LEMMA PolledSame ==
  ASSUME IInv, NEW d \in Dst,
         dst' = [dst EXCEPT ![d] = dst[d]] \/ dst' = [dst EXCEPT ![d] = Polled(d, dst[d])]
  PROVE  \A e \in Dst : SameQueue(dst[e], dst'[e]) /\ dst'[e].offset = dst[e].offset
<1>1. dst = [e \in Dst |-> dst[e]] /\ Object(d, dst[d])
  BY DEF IInv, ObjectInv
<1>2. SameLoad(dst[d], Polled(d, dst[d]))
  BY <1>1, PolledLoad
<1>3. \A e \in Dst : dst'[e] = dst[e] \/ (e = d /\ dst'[e] = Polled(d, dst[d]))
  BY <1>1
<1>4. QED
  BY <1>2, <1>3 DEF SameQueue, SameLoad

\* UpdatePipeline.
LEMMA MeetPipe ==
  ASSUME IInv, MeetInv, NEW d \in Dst, UpdatePipeline(d)
  PROVE  MeetInv'
<1>0. /\ UNCHANGED <<thState, source, cone>>
      /\ chSize \in [Facet -> Nat] /\ arrival \in [Facet -> Nat] /\ arrived \in [Chan -> Nat]
      /\ offset \in [Facet -> Nat]
      /\ ShapeInv /\ LineInv /\ LockInv
  BY DEF UpdatePipeline, thVars, IInv, ChannelInv, MeetInv
<1>1. CASE Advance(d)
  <2>1. UNCHANGED <<arrival, occupied, currentReader, currentWriter, chSize, offset, overflow>>
    BY <1>1 DEF Advance, chanVars
  <2>2. CASE ~Due(dst[d])
    <3>1. dst' = [dst EXCEPT ![d] = dst[d]]
      BY <1>1, <2>2 DEF Advance
    <3>2. QED
      BY <1>0, <2>1, <3>1, PolledSame, MeetRest
  <2>3. CASE Due(dst[d])
    <3>1. dst' = [dst EXCEPT ![d] = Shift(d, Polled(d, dst[d]))]
      BY <1>1, <2>3 DEF Advance
    <3>2. LineInv' /\ \A e \in Dst : dst'[e].offset = dst[e].offset
      BY <1>0, <2>1, <3>1, LineShift
    <3>3. QED
      BY <1>0, <2>1, <3>2, ShapeRest, LockRest DEF MeetInv
  <2>4. QED
    BY <2>2, <2>3
<1>2. CASE Halt(d)
  <2>1. /\ UNCHANGED <<arrival, occupied, currentReader, chSize, offset, overflow>>
        /\ dst' = [dst EXCEPT ![d] = Polled(d, dst[d])]
        /\ currentWriter' = [c \in Chan |-> currentWriter'[c]]
    BY <1>0, <1>2 DEF Halt, ShapeInv
  <2>2. \A e \in Dst : SameQueue(dst[e], dst'[e]) /\ dst'[e].offset = dst[e].offset
    BY <2>1, PolledSame
  <2>3. LineInv' /\ LockInv'
    BY <1>0, <2>1, <2>2, LineRest, LockRest
  <2>4. ShapeInv'
    BY <1>0, <2>1 DEF ShapeInv, ReadInv
  <2>5. QED
    BY <2>3, <2>4 DEF MeetInv
<1>3. CASE Write(d)
  <2> DEFINE top == TopBite(d, dst[d])
             h == top.facet
             c == DstCh[d]
  <2>1. /\ h \in Facet /\ Home(h) = c /\ c \in Chan /\ h.by = d
        /\ h \in content[c] => UNCHANGED <<content, arrival, arrived>> /\ arrival[h] # 0
        /\ h \notin content[c] => PushBack(c, h)
        /\ \A f \in Facet : chSize'[f] = IF f = h THEN chSize[h] + top.size ELSE chSize[f]
        /\ \A b \in Chan : occupied'[b] = IF b = c THEN occupied[c] + top.size ELSE occupied[b]
        /\ occupied' = [b \in Chan |-> occupied'[b]]
        /\ currentWriter' = [b \in Chan |-> currentWriter'[b]]
        /\ UNCHANGED <<currentReader, offset, overflow>>
        /\ dst' = [dst EXCEPT ![d] = Shift(d, Polled(d, dst[d]))]
        /\ chSize' = [chSize EXCEPT ![h] = @ + top.size]
    BY <1>0, <1>3, WriteFacts DEF Write
  <2>2. top.size \in Nat \ {0} /\ Stages[d] \in Places(d, dst[d], h)
    <3>1. TopBite(d, dst[d]) # NoBite
      BY <1>3 DEF Write
    <3>2. top.size \in 1 .. h.size /\ Stages[d] \in Places(d, dst[d], h)
      BY <1>0, <3>1, TopIsNext
    <3>3. h.size \in Nat
      BY <2>1, HomeType
    <3>4. QED
      BY <3>2, <3>3
  <2> HIDE DEF h, top
  <2>3. chSize' \in [Facet -> Nat]
    BY <1>0, <2>1, <2>2
  <2>4. LineInv' /\ \A e \in Dst : dst'[e].offset = dst[e].offset
    BY <1>0, <2>1, <2>2, <2>3, LineShift
  <2>5. LockInv'
    BY <1>0, <2>1, <2>4, LockRest
  <2>6. ShapeInv'
    <3>1. \A f \in Facet : arrival'[f] # 0 <=> chSize'[f] > 0
      <4>1. chSize'[h] > 0
        BY <1>0, <2>1, <2>2
      <4>2. arrival'[h] # 0 /\ \A f \in Facet : f # h => arrival'[f] = arrival[f]
        BY <1>0, <2>1 DEF PushBack
      <4>3. QED
        BY <1>0, <2>1, <4>1, <4>2 DEF ShapeInv
    <3>2. occupied' \in [Chan -> Nat]
      <4>1. \A b \in Chan : occupied'[b] \in Nat
        BY <1>0, <2>1, <2>2 DEF ShapeInv
      <4>2. QED
        BY <2>1, <4>1
    <3>3. ReadInv'
      <4>1. \A f \in Facet : offset[f] <= chSize[f] /\ chSize'[f] >= chSize[f]
        BY <1>0, <2>1, <2>2 DEF ShapeInv, ReadInv
      <4>2. QED
        BY <1>0, <2>1, <2>3, <4>1 DEF ReadInv
    <3>4. QED
      BY <1>0, <2>1, <3>1, <3>2, <3>3 DEF ShapeInv
  <2>7. QED
    BY <2>4, <2>5, <2>6 DEF MeetInv
<1>4. QED
  BY <1>1, <1>2, <1>3 DEF UpdatePipeline

\* The calls of Execute, Prepare and Resume are calls of an engaged handler.
LEMMA RunIsCall ==
  ASSUME IInv, MeetInv, NEW t \in TH, NEW mode \in CallModes, ~internalError,
         thState[t] = "IDLE" => mode # "Resume" /\ Missing(t) = {},
         NEW next, Run(t, mode, next)
  PROVE  /\ \E after : Calling(t, mode, after)
         /\ UNCHANGED <<elaborating, currentWriter, overflow>>
<1>1. PICK draw \in Draws(t, [s \in SourcesOf(t) |-> Now(t, mode, s).facet]) :
        LET after == [d \in ConesOf(t) |-> After(t, mode, d, draw[d])]
        IN /\ RunCones(t, mode, after)
           /\ RunSources(t, mode, after)
           /\ UNCHANGED <<arrival, arrived, currentWriter, chSize, overflow, elaborating>>
  BY DEF Run, designVars
<1> DEFINE after == [d \in ConesOf(t) |-> After(t, mode, d, draw[d])]
<1>2. \A d \in ConesOf(t) : after[d] = After(t, mode, d, draw[d])
  OBVIOUS
<1>3. Moves(t, mode, after)
  BY <1>1 DEF Moves
<1> HIDE DEF after
<1>4. (Takes(t, mode) <=> thState[t] = "IDLE") /\ Engaged(t, mode)
  BY BusyEngaged, TakingEngaged DEF Takes
<1>5. \A d \in ConesOf(t) : ConeGood(t, mode, d, after[d]) /\ ConeRuns(t, mode, d, after[d])
  BY <1>2, <1>4, RunCone, ConeRun
<1>6. Calling(t, mode, after)
  BY <1>3, <1>4, <1>5 DEF Calling, MeetInv
<1>7. QED
  BY <1>1, <1>6

\* What a call does to the destinations keeps them in line.
LEMMA MeetCall ==
  ASSUME LineInv, NEW t \in TH, NEW mode, NEW after, Calling(t, mode, after),
         UNCHANGED <<currentWriter, overflow>>
  PROVE  MeetInv'
<1>1. ShapeInv' /\ LockInv'
  BY ShapeCall, LockCall
<1>2. ASSUME NEW d \in Dst
      PROVE  InLine(d, dst'[d], chSize)
  <2>1. CASE d \in ConesOf(t)
    <3>1. InLine(d, dst[d], chSize) /\ ConeRuns(t, mode, d, after[d]) /\ IInv /\ Engaged(t, mode)
      BY <2>1 DEF LineInv, Calling
    <3>2. InLine(d, after[d].dst, chSize)
      BY <2>1, <3>1, LineRun
    <3>3. dst'[d] = after[d].dst
      BY <2>1, CallLeaves
    <3>4. QED
      BY <3>2, <3>3
  <2>2. CASE d \notin ConesOf(t)
    <3>1. dst'[d] = dst[d]
      BY <2>2, CallLeaves
    <3>2. QED
      BY <3>1 DEF LineInv
  <2>3. QED
    BY <2>1, <2>2
<1>3. chSize' = chSize
  BY DEF Calling, Moves
<1>4. QED
  BY <1>1, <1>2, <1>3 DEF MeetInv, LineInv

-----------------------------------------------------------------------------
\* The refinement.

\* Every step of a handler keeps the channels in shape.
LEMMA MeetHandler ==
  ASSUME IInv, AgendaInv, MeetInv, NEW t \in TH, HandlerNext(t)
  PROVE  MeetInv'
<1>1. ASSUME Starve(t)
      PROVE  MeetInv'
  <2>1. Poll(t) /\ UNCHANGED chanVars /\ thState' = thState /\ thState[t] = "IDLE"
    BY <1>1 DEF Starve
  <2>2. QED
    BY <2>1, MeetPoll DEF chanVars
<1>2. ASSUME NEW mode \in CallModes, NEW next, Run(t, mode, next), ~internalError,
             thState[t] = "IDLE" => mode # "Resume" /\ Missing(t) = {}
      PROVE  MeetInv'
  <2>1. /\ \E after : Calling(t, mode, after)
        /\ UNCHANGED <<elaborating, currentWriter, overflow>>
    BY <1>2, RunIsCall
  <2>2. QED
    BY <2>1, MeetCall DEF MeetInv
<1>3. CASE Execute(t)
  BY <1>1, <1>2, <1>3 DEF Execute, Called, Runs, CallModes
<1>4. CASE Prepare(t)
  BY <1>1, <1>2, <1>4 DEF Prepare, Called, Runs, CallModes
<1>5. CASE Resume(t)
  <2>1. thState[t] # "IDLE"
    BY <1>5 DEF Resume, Called, Job, AgendaInv
  <2>2. QED
    BY <1>2, <1>5, <2>1 DEF Resume, Called, CallModes
<1>6. CASE IsReady(t)
  <2>1. CASE thState[t] = "IDLE"
    <3>1. /\ Poll(t)
          /\ UNCHANGED <<arrival, arrived, occupied, currentReader, currentWriter, chSize, offset,
                         overflow>>
          /\ IF Missing(t) = {} THEN thState' = [thState EXCEPT ![t] = "READY"]
                                ELSE thState' = thState
          /\ thState \in [TH -> {"IDLE", "READY", "BUSY"}]
      BY <1>6, <2>1 DEF IsReady, IInv, TypeInv
    <3>2. /\ \A u \in TH : u # t => thState'[u] = thState[u]
          /\ thState'[t] # "IDLE" => Missing(t) = {}
      BY <2>1, <3>1
    <3>3. QED
      BY <3>1, <3>2, MeetPoll
  <2>2. CASE thState[t] # "IDLE"
    <3>1. UNCHANGED <<arrival, occupied, currentReader, currentWriter, chSize, offset,
                      overflow, thState, source, cone, dst>>
      BY <1>6, <2>2 DEF IsReady
    <3>2. QED
      BY <3>1, MeetRest DEF SameQueue
  <2>3. QED
    BY <2>1, <2>2
<1>7. QED
  BY <1>3, <1>4, <1>5, <1>6 DEF HandlerNext

\* Every step keeps the channels in shape.
LEMMA MeetNext == IInv /\ AgendaInv /\ MeetInv /\ [Next]_vars => MeetInv'
<1> SUFFICES ASSUME IInv, AgendaInv, MeetInv, [Next]_vars
             PROVE  MeetInv'
  OBVIOUS
<1>1. ASSUME UNCHANGED <<chanVars, thVars, dst>>
      PROVE  MeetInv'
  BY <1>1, MeetRest DEF chanVars, thVars, SameQueue
<1>2. ASSUME NEW f \in Seed, BackDoorWrite(f)
      PROVE  MeetInv'
  BY <1>2, MeetBackDoor
<1>3. CASE Start \/ UNCHANGED vars
  BY <1>1, <1>3 DEF Start, vars
<1>4. ASSUME NEW g \in Group, GroupNext(g)
      PROVE  MeetInv'
  BY <1>1, <1>4 DEF GroupNext, PrepareOthers, Turn, SelectTH, Dispatch
<1>5. CASE Tick
  <2>1. /\ UNCHANGED <<chanVars, thVars>>
        /\ \A d \in Dst : dst'[d] = Elapse(d, dst[d]) /\ Object(d, dst[d])
    BY <1>5 DEF Tick, IInv, ObjectInv
  <2>2. \A d \in Dst : SameLoad(dst[d], dst'[d])
    BY <2>1, ElapseLoad
  <2>3. QED
    BY <2>1, <2>2, MeetRest DEF chanVars, thVars, SameLoad, SameQueue
<1>6. ASSUME NEW d \in Dst, UpdatePipeline(d)
      PROVE  MeetInv'
  BY <1>6, MeetPipe
<1>7. ASSUME NEW t \in TH, HandlerNext(t)
      PROVE  MeetInv'
  BY <1>7, MeetHandler
<1>8. QED
  BY <1>2, <1>3, <1>4, <1>5, <1>6, <1>7 DEF Next

\* A step of a handler that is no error, channel by channel.
LEMMA HandlerChannels ==
  ASSUME IInv, AgendaInv, MeetInv, NEW t \in TH, HandlerNext(t), ~internalError', NEW c \in Chan
  PROVE  UNCHANGED Ch(c)!vars \/ Ch(c)!Next
<1>0. TypeInv /\ ~elaborating
  BY DEF IInv, AgendaInv, HandlerNext, Execute, Prepare, Resume, IsReady, Called
<1>1. ASSUME Starve(t)
      PROVE  UNCHANGED Ch(c)!vars
  BY <1>0, <1>1, PollChannels DEF Starve, designVars
<1>2. ASSUME NEW mode \in CallModes, NEW next, Run(t, mode, next), ~internalError,
             thState[t] = "IDLE" => mode # "Resume" /\ Missing(t) = {}
      PROVE  UNCHANGED Ch(c)!vars \/ Ch(c)!Next
  <2>1. /\ \E after : Calling(t, mode, after)
        /\ UNCHANGED <<elaborating, currentWriter, overflow>>
    BY <1>2, RunIsCall
  <2>2. QED
    BY <1>0, <2>1, CallChannels
<1>3. CASE Execute(t)
  BY <1>1, <1>2, <1>3 DEF Execute, Called, Runs, CallModes
<1>4. CASE Prepare(t)
  BY <1>1, <1>2, <1>4 DEF Prepare, Called, Runs, CallModes
<1>5. CASE Resume(t)
  <2>1. thState[t] # "IDLE"
    BY <1>5 DEF Resume, Called, Job, AgendaInv
  <2>2. QED
    BY <1>2, <1>5, <2>1 DEF Resume, Called, CallModes
<1>6. CASE IsReady(t)
  BY <1>0, <1>6, ReadyChannels
<1>7. QED
  BY <1>3, <1>4, <1>5, <1>6 DEF HandlerNext

\* In every step that is no error each channel takes a step of its own or rests.
LEMMA StepChannels ==
  ASSUME IInv, AgendaInv, MeetInv, [Next]_vars, ~internalError', NEW c \in Chan
  PROVE  UNCHANGED Ch(c)!vars \/ Ch(c)!Next
<1>0. ShapeInv /\ LineInv /\ Functions
  BY DEF MeetInv, ShapeInv, IInv, ChannelInv, Functions
<1>1. ASSUME UNCHANGED <<chanVars, thVars, elaborating>>
      PROVE  UNCHANGED Ch(c)!vars
  BY <1>1, ReadingStays, RestChannels DEF thVars
<1>2. ASSUME NEW f \in Seed, BackDoorWrite(f)
      PROVE  UNCHANGED Ch(c)!vars \/ Ch(c)!Next
  BY <1>0, <1>2, BackDoorChannel
<1>3. CASE Start
  <2>1. Ch(c)!Start
    BY <1>3, StartChannels
  <2>2. QED
    BY <2>1 DEF Ch!Next
<1>4. CASE Tick \/ UNCHANGED vars
  BY <1>1, <1>4 DEF Tick, vars, designVars
<1>5. ASSUME NEW g \in Group, GroupNext(g)
      PROVE  UNCHANGED Ch(c)!vars \/ Ch(c)!Next
  BY <1>1, <1>5 DEF GroupNext, PrepareOthers, Turn, SelectTH, Dispatch, designVars
<1>6. ASSUME NEW d \in Dst, UpdatePipeline(d)
      PROVE  UNCHANGED Ch(c)!vars \/ Ch(c)!Next
  <2>1. UNCHANGED <<thVars, elaborating>> /\ ~elaborating
    BY <1>6 DEF UpdatePipeline, designVars, Called, AgendaInv
  <2>2. CASE Advance(d)
    BY <1>1, <2>1, <2>2 DEF Advance
  <2>3. CASE Halt(d)
    BY <1>0, <2>1, <2>3, HaltChannels
  <2>4. CASE Write(d)
    BY <1>0, <2>1, <2>4, WriteChannels
  <2>5. QED
    BY <1>6, <2>2, <2>3, <2>4 DEF UpdatePipeline
<1>7. ASSUME NEW t \in TH, HandlerNext(t)
      PROVE  UNCHANGED Ch(c)!vars \/ Ch(c)!Next
  BY <1>7, HandlerChannels
<1>8. QED
  BY <1>2, <1>3, <1>4, <1>5, <1>6, <1>7 DEF Next

\* The channels of any design behave as Channel.tla says, in the midst of handlers that lock
\* them, pipelines that write to them and groups that take turns, until a handler stops with
\* an error (Execute, IsReady, UpdatePipeline, CChannel).
THEOREM ChannelsImplemented == Spec /\ []NoInternalError => ImplementsChannel
<1>1. Init => IInv /\ AgendaInv /\ PreparedInv /\ MeetInv
  BY InitHolds, PreparedInit, MeetInit
<1>2. IInv /\ AgendaInv /\ PreparedInv /\ MeetInv /\ [Next]_vars
        => (IInv /\ AgendaInv /\ PreparedInv /\ MeetInv)'
  BY NextHolds, AgendaNext, PreparedNext, MeetNext DEF IInv
<1>3. Init => \A c \in Chan : Ch(c)!Init
  BY InitChannel
<1>4. IInv /\ AgendaInv /\ MeetInv /\ [Next]_vars /\ NoInternalError'
        => \A c \in Chan : UNCHANGED Ch(c)!vars \/ Ch(c)!Next
  BY StepChannels DEF NoInternalError
<1>5. QED
  BY <1>1, <1>2, <1>3, <1>4, PTL DEF Spec, ImplementsChannel
=============================================================================
