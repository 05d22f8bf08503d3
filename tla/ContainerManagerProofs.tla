----------------------- MODULE ContainerManagerProofs -----------------------
(***************************************************************************)
(* Proofs about ContainerManager, for any services, images, targets and    *)
(* bounds: types, the truth of currentState, and what calculateSteps makes *)
(* of it.                                                                  *)
(***************************************************************************)
EXTENDS ContainerManager, FiniteSetTheorems, WellFoundedInduction, TLAPS

LEMMA LeastNumber ==
  ASSUME NEW S \in SUBSET Nat, S # {}
  PROVE  \E least \in S : \A n \in S : least <= n
<1>1. PICK x \in S : \A y \in S : ~(<<y, x>> \in OpToRel(<, Nat))
  BY NatLessThanWellFounded, WFMin
<1>2. \A y \in S : ~(y < x)
  BY <1>1 DEF OpToRel
<1>. QED
  BY <1>2

\* The recursion of FlattenSeq has a solution.
Flattens(f, seqs, m) ==
  f = [i \in 1 .. m |-> IF i = 1 THEN seqs[i] ELSE f[i - 1] \o seqs[i]]

LEMMA Flattenable == ASSUME NEW seqs PROVE \A m \in Nat : \E f : Flattens(f, seqs, m)
<1> DEFINE Bad == {m \in Nat : ~ \E f : Flattens(f, seqs, m)}
<1> SUFFICES ASSUME Bad # {} PROVE FALSE
  OBVIOUS
<1>1. PICK m \in Bad : \A n \in Bad : m <= n
  BY LeastNumber
<1>2. CASE m = 0
  <2> DEFINE f == [n \in 1 .. 0 |-> 0]
  <2>1. Flattens(f, seqs, 0)
    BY DEF Flattens
  <2>. QED
    BY <2>1, <1>2
<1>3. CASE m # 0
  <2>1. m \in Nat /\ m - 1 \in Nat /\ m - 1 \notin Bad
    BY <1>1, <1>3
  <2>2. PICK f : Flattens(f, seqs, m - 1)
    BY <2>1
  <2> DEFINE end == IF m = 1 THEN seqs[m] ELSE f[m - 1] \o seqs[m]
             g == [n \in 1 .. m |-> IF n = m THEN end ELSE f[n]]
  <2>3. ASSUME NEW n \in 1 .. m
        PROVE  g[n] = IF n = 1 THEN seqs[n] ELSE g[n - 1] \o seqs[n]
    <3>1. CASE n = m
      BY <3>1, <2>1
    <3>2. CASE n # m
      <4>1. n \in 1 .. m - 1 /\ (n # 1 => n - 1 \in 1 .. m - 1 /\ n - 1 # m)
        BY <3>2, <2>1
      <4>2. f[n] = IF n = 1 THEN seqs[n] ELSE f[n - 1] \o seqs[n]
        BY <4>1, <2>2 DEF Flattens
      <4>3. g[n] = f[n] /\ (n # 1 => g[n - 1] = f[n - 1])
        BY <4>1, <3>2, <2>1
      <4>. QED
        BY <4>2, <4>3
    <3>. QED
      BY <3>1, <3>2
  <2>4. Flattens(g, seqs, m)
    BY <2>3 DEF Flattens
  <2>. QED
    BY <2>4, <1>1
<1>. QED
  BY <1>2, <1>3

LEMMA FlattenSeqBy ==
  ASSUME NEW seqs, Len(seqs) \in Nat, Len(seqs) # 0
  PROVE  \E f : Flattens(f, seqs, Len(seqs)) /\ FlattenSeq(seqs) = f[Len(seqs)]
<1>1. \E f : Flattens(f, seqs, Len(seqs))
  BY Flattenable
<1>. QED
  BY <1>1 DEF FlattenSeq, Flattens

LEMMA Concatenation ==
  ASSUME NEW S, NEW a \in Seq(S), NEW b \in Seq(S)
  PROVE  /\ a \o b \in Seq(S) /\ Len(a) \in Nat
         /\ \A k \in 1 .. Len(a \o b) :
              \/ k \in 1 .. Len(a) /\ (a \o b)[k] = a[k]
              \/ k - Len(a) \in 1 .. Len(b) /\ (a \o b)[k] = b[k - Len(a)]
         /\ a \o b = <<>> => a = <<>> /\ b = <<>>
<1>1. /\ a \o b \in Seq(S) /\ Len(a) \in Nat /\ Len(b) \in Nat
      /\ Len(a \o b) = Len(a) + Len(b)
  OBVIOUS
<1>2. ASSUME NEW k \in 1 .. Len(a \o b)
      PROVE  \/ k \in 1 .. Len(a) /\ (a \o b)[k] = a[k]
             \/ k - Len(a) \in 1 .. Len(b) /\ (a \o b)[k] = b[k - Len(a)]
  <2>1. CASE k <= Len(a)
    BY <1>1, <2>1
  <2>2. CASE k > Len(a)
    <3>1. k - Len(a) \in 1 .. Len(b)
      BY <1>1, <2>2
    <3>. QED
      BY <1>1, <2>2, <3>1
  <2>. QED
    BY <2>1, <2>2, <1>1
<1>3. ASSUME a \o b = <<>> PROVE a = <<>> /\ b = <<>>
  <2>1. Len(a) = 0 /\ Len(b) = 0
    BY <1>1, <1>3
  <2>. QED
    BY <2>1
<1>. QED
  BY <1>1, <1>2, <1>3

\* What a flattened sequence of sequences holds, and when it is empty.
LEMMA FlattenSeqHolds ==
  ASSUME NEW S, NEW seqs \in Seq(Seq(S))
  PROVE  /\ FlattenSeq(seqs) \in Seq(S)
         /\ \A k \in 1 .. Len(FlattenSeq(seqs)) :
              \E i \in 1 .. Len(seqs) : \E j \in 1 .. Len(seqs[i]) :
                FlattenSeq(seqs)[k] = seqs[i][j]
         /\ FlattenSeq(seqs) = <<>> => \A i \in 1 .. Len(seqs) : seqs[i] = <<>>
<1>0. Len(seqs) \in Nat /\ \A i \in 1 .. Len(seqs) : seqs[i] \in Seq(S)
  OBVIOUS
<1>1. CASE Len(seqs) = 0
  <2>1. FlattenSeq(seqs) = seqs /\ seqs \in Seq(S)
    BY <1>1 DEF FlattenSeq
  <2>. QED
    BY <2>1, <1>1
<1>2. CASE Len(seqs) # 0
  <2>1. PICK f : Flattens(f, seqs, Len(seqs)) /\ FlattenSeq(seqs) = f[Len(seqs)]
    BY <1>0, <1>2, FlattenSeqBy
  <2> DEFINE Holds(n) ==
               /\ f[n] \in Seq(S)
               /\ \A k \in 1 .. Len(f[n]) :
                    \E i \in 1 .. n : \E j \in 1 .. Len(seqs[i]) : f[n][k] = seqs[i][j]
               /\ f[n] = <<>> => \A i \in 1 .. n : seqs[i] = <<>>
             Bad == {n \in 1 .. Len(seqs) : ~Holds(n)}
  <2>2. ASSUME NEW n \in 1 .. Len(seqs), n = 1 PROVE Holds(n)
    <3>1. f[n] = seqs[n]
      BY <2>1, <2>2 DEF Flattens
    <3>. QED
      BY <3>1, <1>0, <2>2
  <2>3. ASSUME NEW n \in 1 .. Len(seqs), n > 1, Holds(n - 1) PROVE Holds(n)
    <3>1. f[n] = f[n - 1] \o seqs[n]
      <4>1. n # 1
        BY <2>3
      <4>. QED
        BY <2>1, <4>1 DEF Flattens
    <3>2. /\ f[n - 1] \in Seq(S) /\ seqs[n] \in Seq(S)
          /\ n - 1 \in Nat /\ 1 .. n - 1 \subseteq 1 .. n
      BY <1>0, <2>3
    <3> DEFINE a == f[n - 1]
               b == seqs[n]
    <3>3. /\ f[n] \in Seq(S) /\ Len(a) \in Nat
          /\ \A k \in 1 .. Len(f[n]) :
               \/ k \in 1 .. Len(a) /\ f[n][k] = a[k]
               \/ k - Len(a) \in 1 .. Len(b) /\ f[n][k] = b[k - Len(a)]
          /\ f[n] = <<>> => a = <<>> /\ b = <<>>
      <4>1. f[n] = a \o b /\ a \in Seq(S) /\ b \in Seq(S)
        BY <3>1, <3>2
      <4> HIDE DEF a, b, Holds
      <4>2. /\ a \o b \in Seq(S) /\ Len(a) \in Nat
            /\ \A k \in 1 .. Len(a \o b) :
                 \/ k \in 1 .. Len(a) /\ (a \o b)[k] = a[k]
                 \/ k - Len(a) \in 1 .. Len(b) /\ (a \o b)[k] = b[k - Len(a)]
            /\ a \o b = <<>> => a = <<>> /\ b = <<>>
        BY <4>1, Concatenation
      <4>. QED
        BY <4>1, <4>2, Zenon
    <3>4. ASSUME NEW k \in 1 .. Len(f[n])
          PROVE  \E i \in 1 .. n : \E j \in 1 .. Len(seqs[i]) : f[n][k] = seqs[i][j]
      <4>1. CASE k \in 1 .. Len(a) /\ f[n][k] = a[k]
        BY <4>1, <2>3, <3>2
      <4>2. CASE k - Len(a) \in 1 .. Len(b) /\ f[n][k] = b[k - Len(a)]
        <5>1. n \in 1 .. n
          BY <2>3
        <5>. QED
          BY <4>2, <5>1
      <4>. QED
        BY <4>1, <4>2, <3>3
    <3>5. ASSUME f[n] = <<>>, NEW i \in 1 .. n PROVE seqs[i] = <<>>
      <4>1. i = n \/ i \in 1 .. n - 1
        BY <3>2
      <4>. QED
        BY <4>1, <3>3, <3>5, <2>3
    <3>. QED
      BY <3>3, <3>4, <3>5
  <2>4. Bad = {}
    <3> SUFFICES ASSUME Bad # {} PROVE FALSE
      OBVIOUS
    <3>1. Bad \in SUBSET Nat
      BY <1>0
    <3>2. PICK n \in Bad : \A m \in Bad : n <= m
      <4> HIDE DEF Bad
      <4>. QED
        BY <3>1, LeastNumber
    <3> HIDE DEF Holds
    <3>3. n \in 1 .. Len(seqs) /\ ~Holds(n) /\ (n > 1 => n - 1 \in 1 .. Len(seqs) /\ n - 1 \notin Bad)
      BY <1>0, <3>2
    <3>. QED
      BY <3>3, <2>2, <2>3
  <2>5. Holds(Len(seqs))
    <3>1. Len(seqs) \in 1 .. Len(seqs)
      BY <1>0, <1>2
    <3> HIDE DEF Holds
    <3>. QED
      BY <3>1, <2>4
  <2>. QED
    BY <2>1, <2>5
<1>. QED
  BY <1>1, <1>2
-----------------------------------------------------------------------------
\* The enumeration of a finite set.
LEMMA SetToSeqLists ==
  ASSUME NEW S, IsFiniteSet(S)
  PROVE  /\ SetToSeq(S) \in Seq(S) /\ Len(SetToSeq(S)) = Cardinality(S)
         /\ Cardinality(S) \in Nat
         /\ \A x \in S : \E i \in 1 .. Cardinality(S) : SetToSeq(S)[i] = x
<1>1. Cardinality(S) \in Nat /\ ExistsBijection(1 .. Cardinality(S), S)
  BY FS_CardinalityType
<1> DEFINE n == Cardinality(S)
<1>2. \E f \in [1 .. n -> S] : IsInjective(f)
  BY <1>1 DEF ExistsBijection, Bijection, Injection
<1>3. SetToSeq(S) \in [1 .. n -> S] /\ IsInjective(SetToSeq(S))
  BY <1>2 DEF SetToSeq
<1>4. \A x \in S : \E i \in 1 .. n : SetToSeq(S)[i] = x
  <2>1. IsFiniteSet(1 .. n) /\ Cardinality(1 .. n) = n
    BY <1>1, FS_Interval
  <2>2. SetToSeq(S) \in Injection(1 .. n, S)
    BY <1>3 DEF Injection
  <2>3. SetToSeq(S) \in Surjection(1 .. n, S)
    BY <2>1, <2>2, FS_Injection
  <2>. QED
    BY <2>3 DEF Surjection
<1>5. SetToSeq(S) \in Seq(S) /\ Len(SetToSeq(S)) = n
  BY <1>1, <1>3
<1>. QED
  BY <1>1, <1>4, <1>5
-----------------------------------------------------------------------------
(***************************************************************************)
(* The inductive invariant                                                 *)
(***************************************************************************)
\* A container that exists has an id and an image.
EngineTyped ==
  /\ docker \in [Services -> [id: Ids \cup {0}, image: Images \cup {"none"},
                              status: Statuses]]
  /\ \A s \in Services :
       docker[s].status # "none" => docker[s].id \in Ids /\ docker[s].image \in Images
  /\ images \subseteq Images

CurrentTyped == current \in Seq(Entry) /\ known \in BOOLEAN /\ (current # <<>> => known)

Ops == {"stop", "pause", "unpause", "remove", "recreate", "download", "start"}
Planned ==
  {st \in [op: Ops, svc: Services, id: Ids \cup {0}, image: Images \cup {"none"},
           state: States \cup {"absent"}] :
     st.op \in {"download", "start"} => st.image \in Images /\ st.state \in States}

\* A container that is recreated takes its image from the service kept.
PlanTyped ==
  /\ plan \in Seq(Planned)
  /\ reply \in [r: Answers \cup {"none"}, id: Ids \cup {0}]
  /\ plan = <<>> => reply = NoReply
  /\ plan # <<>> /\ reply.r = "ok" =>
       /\ Head(plan).op = "start" => reply.id \in Ids
       /\ Head(plan).op = "recreate" =>
            Head(plan).image \in Images /\ Head(plan).state \in States

SyncTyped == sync \in [pc: {"idle", "listed", "building"}, rest: SUBSET Entry]

RetryTyped == retry \in [Images -> [count: 0 .. MaxRetries, due: BOOLEAN]]

HealthTyped ==
  /\ health \in [pc: {"idle", "stop", "remove", "start", "started"},
                 entry: [svc: Services \cup {"none"}, id: Ids \cup {0},
                         image: Images \cup {"none"}, state: States, down: BOOLEAN],
                 shared: BOOLEAN, id: Ids \cup {0}]
  /\ health.pc # "idle" => health.entry \in Entry
  /\ health.pc = "started" => health.id \in Ids

TypeInv == /\ EngineTyped /\ CurrentTyped /\ PlanTyped /\ SyncTyped /\ RetryTyped
           /\ HealthTyped /\ target \in [Services -> Target]

\* The container of service s, if id is its id, has this image.
Claim(s, id, image) ==
  docker[s].status # "none" /\ docker[s].id = id => docker[s].image = image

\* Whoever will put an entry into currentState holds a true one: the entries
\* themselves, the rebuild, the start that was answered, the liveness restart.
CurrentTrue == \A e \in ToSet(current) : Claim(e.svc, e.id, e.image)
SyncTrue == \A e \in sync.rest : Claim(e.svc, e.id, e.image)
ReplyTrue == plan # <<>> /\ Head(plan).op = "start" /\ reply.r = "ok" =>
               Claim(Head(plan).svc, reply.id, Head(plan).image)
HealthTrue ==
  /\ health.pc # "idle" => Claim(health.entry.svc, health.entry.id, health.entry.image)
  /\ health.pc = "started" => Claim(health.entry.svc, health.id, health.entry.image)

Truth == CurrentTrue /\ SyncTrue /\ ReplyTrue /\ HealthTrue

ManagerInv == TypeInv /\ Truth
-----------------------------------------------------------------------------
(***************************************************************************)
(* The helpers of currentState                                             *)
(***************************************************************************)
LEMMA ElementsOf ==
  ASSUME NEW S, NEW seq \in Seq(S)
  PROVE  /\ ToSet(seq) \subseteq S /\ seq \in Seq(ToSet(seq))
         /\ \A x \in S : Append(seq, x) \in Seq(S) /\ Append(seq, x) # <<>>
                          /\ ToSet(Append(seq, x)) = ToSet(seq) \cup {x}
<1>1. DOMAIN seq = 1 .. Len(seq) /\ \A i \in 1 .. Len(seq) : seq[i] \in S
  OBVIOUS
<1>2. ToSet(seq) \subseteq S
  BY <1>1 DEF ToSet
<1>3. \A i \in 1 .. Len(seq) : seq[i] \in ToSet(seq)
  BY <1>1 DEF ToSet
<1>4. seq \in Seq(ToSet(seq))
  BY <1>3, <1>1
<1>5. ASSUME NEW x \in S
      PROVE  /\ Append(seq, x) \in Seq(S) /\ Append(seq, x) # <<>>
             /\ ToSet(Append(seq, x)) = ToSet(seq) \cup {x}
  <2>1. /\ Append(seq, x) \in Seq(S) /\ Len(Append(seq, x)) = Len(seq) + 1
        /\ Append(seq, x)[Len(seq) + 1] = x
        /\ \A i \in 1 .. Len(seq) : Append(seq, x)[i] = seq[i]
    OBVIOUS
  <2>2. Append(seq, x) # <<>> /\ DOMAIN Append(seq, x) = 1 .. Len(seq) + 1
    BY <2>1
  <2>3. ToSet(Append(seq, x)) = ToSet(seq) \cup {x}
    <3>1. ASSUME NEW i \in 1 .. Len(seq) + 1 PROVE Append(seq, x)[i] \in ToSet(seq) \cup {x}
      <4>1. i = Len(seq) + 1 \/ i \in 1 .. Len(seq)
        OBVIOUS
      <4>. QED
        BY <4>1, <2>1, <1>3
    <3>2. \A i \in 1 .. Len(seq) : seq[i] \in ToSet(Append(seq, x))
      <4>1. \A i \in 1 .. Len(seq) : i \in 1 .. Len(seq) + 1
        OBVIOUS
      <4>. QED
        BY <4>1, <2>1, <2>2 DEF ToSet
    <3>3. x \in ToSet(Append(seq, x))
      <4>1. Len(seq) + 1 \in 1 .. Len(seq) + 1
        OBVIOUS
      <4>. QED
        BY <4>1, <2>1, <2>2 DEF ToSet
    <3>. QED
      BY <1>1, <2>2, <3>1, <3>2, <3>3 DEF ToSet
  <2>. QED
    BY <2>1, <2>2, <2>3
<1>. QED
  BY <1>2, <1>4, <1>5

LEMMA FirstIs ==
  ASSUME CurrentTyped, NEW s, Has(s)
  PROVE  /\ First(s) \in 1 .. Len(current) /\ current[First(s)].svc = s
         /\ current[First(s)] \in Entry /\ current[First(s)] \in ToSet(current)
<1> DEFINE Where == {i \in 1 .. Len(current) : current[i].svc = s}
<1>1. DOMAIN current = 1 .. Len(current) /\ Len(current) \in Nat
  BY DEF CurrentTyped
<1>2. Where # {} /\ Where \in SUBSET Nat
  BY <1>1 DEF Has
<1>3. PICK i \in Where : \A j \in Where : i <= j
  <2> HIDE DEF Where
  <2>. QED
    BY <1>2, LeastNumber
<1>4. i \in DOMAIN current /\ current[i].svc = s /\ \A j \in 1 .. (i - 1) : current[j].svc # s
  BY <1>1, <1>3
<1>5. First(s) \in DOMAIN current /\ current[First(s)].svc = s
  BY <1>4 DEF First
<1>. QED
  BY <1>1, <1>5 DEF CurrentTyped, ToSet

LEMMA LatestIs ==
  ASSUME CurrentTyped, NEW s, Has(s)
  PROVE  Latest(s) \in Entry /\ Latest(s) \in ToSet(current) /\ Latest(s).svc = s
<1> DEFINE Behind == {Len(current) - i : i \in {j \in 1 .. Len(current) : current[j].svc = s}}
<1>1. DOMAIN current = 1 .. Len(current) /\ Len(current) \in Nat
  BY DEF CurrentTyped
<1>2. Behind # {} /\ Behind \in SUBSET Nat
  BY <1>1 DEF Has
<1>3. PICK b \in Behind : \A c \in Behind : b <= c
  <2> HIDE DEF Behind
  <2>. QED
    BY <1>2, LeastNumber
<1>4. PICK i \in 1 .. Len(current) : current[i].svc = s /\ b = Len(current) - i
  BY <1>3
<1>5. ASSUME NEW j \in DOMAIN current, current[j].svc = s PROVE j <= i
  <2>1. Len(current) - j \in Behind
    BY <1>1, <1>5
  <2>2. b <= Len(current) - j
    BY <2>1, <1>3
  <2>. QED
    BY <2>2, <1>4, <1>1
<1>6. \E k \in DOMAIN current : /\ current[k].svc = s
                                /\ \A j \in DOMAIN current : current[j].svc = s => j <= k
  BY <1>1, <1>4, <1>5
<1>7. PICK k \in DOMAIN current : current[k].svc = s /\ Latest(s) = current[k]
  BY <1>6 DEF Latest
<1>. QED
  BY <1>1, <1>7 DEF CurrentTyped, ToSet

LEMMA WithoutIs ==
  ASSUME CurrentTyped, NEW s
  PROVE  Without(s) \in Seq(Entry) /\ ToSet(Without(s)) \subseteq ToSet(current)
<1> DEFINE here == ToSet(current)
           parts == [i \in DOMAIN current |->
                       IF current[i].svc = s THEN <<>> ELSE <<current[i]>>]
<1>1. /\ DOMAIN current = 1 .. Len(current) /\ Len(current) \in Nat
      /\ here \subseteq Entry /\ \A i \in DOMAIN current : current[i] \in here
  BY ElementsOf DEF CurrentTyped, ToSet
<1> HIDE DEF here
<1>2. \A i \in DOMAIN current : parts[i] \in Seq(here)
  BY <1>1
<1>3. parts \in Seq(Seq(here))
  BY <1>1, <1>2
<1> HIDE DEF parts
<1>4. FlattenSeq(parts) \in Seq(here)
  BY <1>3, FlattenSeqHolds
<1>5. Without(s) \in Seq(here)
  BY <1>4 DEF Without, parts
<1>. QED
  BY <1>1, <1>5, ElementsOf DEF here

LEMMA ListingIs ==
  ASSUME EngineTyped
  PROVE  /\ IsFiniteSet(Listing) /\ Listing \subseteq Entry
         /\ SetToSeq(Listing) \in Seq(Entry) /\ ToSet(SetToSeq(Listing)) \subseteq Listing
         /\ (SetToSeq(Listing) # <<>> => Listing # {})
<1>1. ASSUME NEW s \in Services, docker[s].status # "none" PROVE Seen(s) \in Entry
  BY <1>1 DEF EngineTyped, Seen, Entry, States
<1>2. Listing \subseteq Entry
  BY <1>1 DEF Listing
<1>3. IsFiniteSet(Listing)
  <2> DEFINE there == {x \in Services : docker[x].status # "none"}
  <2>1. IsFiniteSet(there)
    BY ServicesAssumption, FS_Subset
  <2> DEFINE see == [s \in there |-> Seen(s)]
  <2>2. see \in Surjection(there, Listing)
    BY DEF Surjection, Listing
  <2>. QED
    BY <2>1, <2>2, FS_Surjection
<1>4. SetToSeq(Listing) \in Seq(Listing) /\ Len(SetToSeq(Listing)) = Cardinality(Listing)
  BY <1>3, SetToSeqLists
<1>5. ToSet(SetToSeq(Listing)) \subseteq Listing
  BY <1>4, ElementsOf
<1>6. SetToSeq(Listing) \in Seq(Entry)
  BY <1>2, <1>4
<1>7. Listing = {} => SetToSeq(Listing) = <<>>
  BY <1>4
<1>. QED
  BY <1>2, <1>3, <1>5, <1>6, <1>7

LEMMA NewIdIs ==
  ASSUME NEW s, FreeIds(s) # {}
  PROVE  NewId(s) \in FreeIds(s) /\ NewId(s) \in Ids
<1>1. FreeIds(s) \in SUBSET Nat /\ FreeIds(s) \subseteq Ids
  BY DEF FreeIds, Ids
<1>2. \E n \in FreeIds(s) : \A m \in FreeIds(s) : n <= m
  BY <1>1, LeastNumber
<1>. QED
  BY <1>1, <1>2 DEF NewId

\* The steps that are left, and those that follow one that is replaced.
LEMMA StepsLeft ==
  ASSUME PlanTyped, plan # <<>>
  PROVE  /\ Head(plan) \in Planned /\ Head(plan).svc \in Services
         /\ Head(plan).op \in Ops /\ Tail(plan) \in Seq(Planned)
         /\ \A st \in Planned : /\ <<st>> \o Tail(plan) \in Seq(Planned)
                                /\ <<st>> \o Tail(plan) # <<>>
                                /\ Head(<<st>> \o Tail(plan)) = st
<1>1. Head(plan) \in Planned /\ Tail(plan) \in Seq(Planned)
  BY DEF PlanTyped
<1>2. ASSUME NEW st \in Planned
      PROVE  /\ <<st>> \o Tail(plan) \in Seq(Planned) /\ <<st>> \o Tail(plan) # <<>>
             /\ Head(<<st>> \o Tail(plan)) = st
  <2>1. /\ <<st>> \in Seq(Planned) /\ <<st>>[1] = st
        /\ Len(<<st>>) = 1
    OBVIOUS
  <2>2. /\ <<st>> \o Tail(plan) \in Seq(Planned)
        /\ Len(<<st>> \o Tail(plan)) = 1 + Len(Tail(plan)) /\ Len(Tail(plan)) \in Nat
        /\ (<<st>> \o Tail(plan))[1] = <<st>>[1]
    BY <1>1, <2>1
  <2>. QED
    BY <2>1, <2>2
<1>. QED
  BY <1>1, <1>2 DEF Planned
-----------------------------------------------------------------------------
(***************************************************************************)
(* The engine's calls                                                      *)
(***************************************************************************)
\* A container keeps its id and its image until it is gone.
Kept(x) == docker'[x].status # "none" => /\ docker[x].status # "none"
                                         /\ docker'[x].id = docker[x].id
                                         /\ docker'[x].image = docker[x].image

LEMMA BoxPut ==
  ASSUME EngineTyped, NEW s \in Services, images' \subseteq Images,
         NEW box \in [id: Ids \cup {0}, image: Images \cup {"none"}, status: Statuses],
         box.status # "none" => box.id \in Ids /\ box.image \in Images,
         docker' = [docker EXCEPT ![s] = box]
  PROVE  /\ EngineTyped' /\ docker'[s] = box
         /\ \A x \in Services \ {s} : docker'[x] = docker[x] /\ Kept(x)
BY DEF EngineTyped, Kept

LEMMA StatusSet ==
  ASSUME EngineTyped, NEW s \in Services, NEW status \in Statuses \ {"none"},
         docker[s].status # "none", images' = images,
         docker' = [docker EXCEPT ![s].status = status]
  PROVE  EngineTyped' /\ \A x \in Services : Kept(x)
<1> DEFINE box == [id |-> docker[s].id, image |-> docker[s].image, status |-> status]
<1>1. /\ docker[s] \in [id: Ids \cup {0}, image: Images \cup {"none"}, status: Statuses]
      /\ docker[s].id \in Ids /\ docker[s].image \in Images /\ images \subseteq Images
  BY DEF EngineTyped
<1>2. [docker[s] EXCEPT !.status = status] = box
  BY <1>1
<1>3. docker' = [docker EXCEPT ![s] = box]
  BY <1>2
<1>4. /\ box \in [id: Ids \cup {0}, image: Images \cup {"none"}, status: Statuses]
      /\ box.id = docker[s].id /\ box.image = docker[s].image
  BY <1>1
<1> HIDE DEF box
<1>5. EngineTyped' /\ docker'[s] = box /\ \A x \in Services \ {s} : Kept(x)
  BY <1>1, <1>3, <1>4, BoxPut
<1>6. Kept(s)
  BY <1>5, <1>4 DEF Kept
<1>. QED
  BY <1>5, <1>6

LEMMA NothingPut ==
  ASSUME EngineTyped, docker' = docker, images' \subseteq Images
  PROVE  EngineTyped' /\ \A x \in Services : Kept(x)
BY DEF EngineTyped, Kept

LEMMA CallKeeps ==
  ASSUME EngineTyped, NEW s \in Services, NEW id, NEW r,
         \/ StopContainer(s, id, r) \/ PauseContainer(s, id, r)
         \/ UnpauseContainer(s, id, r) \/ RemoveContainer(s, id, r)
         \/ Dies(s) \/ Revives(s)
  PROVE  EngineTyped' /\ \A x \in Services : Kept(x)
<1>1. images' = images /\ images' \subseteq Images
  BY DEF EngineTyped, StopContainer, PauseContainer, UnpauseContainer, RemoveContainer,
     Dies, Revives
<1>2. \/ docker' = docker
      \/ docker' = [docker EXCEPT ![s] = NoContainer]
      \/ \E status \in Statuses \ {"none"} :
           docker[s].status # "none" /\ docker' = [docker EXCEPT ![s].status = status]
  <2>1. {"exited", "paused", "running", "crashed"} \subseteq Statuses \ {"none"}
    BY DEF Statuses
  <2>2. CASE StopContainer(s, id, r)
    BY <2>1, <2>2 DEF StopContainer, Exists
  <2>3. CASE PauseContainer(s, id, r)
    BY <2>1, <2>3 DEF PauseContainer, Exists
  <2>4. CASE UnpauseContainer(s, id, r)
    BY <2>1, <2>4 DEF UnpauseContainer, Exists
  <2>5. CASE RemoveContainer(s, id, r)
    BY <2>5 DEF RemoveContainer
  <2>6. CASE Dies(s)
    BY <2>1, <2>6 DEF Dies
  <2>7. CASE Revives(s)
    BY <2>1, <2>7 DEF Revives
  <2>. QED
    BY <2>2, <2>3, <2>4, <2>5, <2>6, <2>7
<1>3. CASE docker' = [docker EXCEPT ![s] = NoContainer]
  <2>1. /\ NoContainer \in [id: Ids \cup {0}, image: Images \cup {"none"}, status: Statuses]
        /\ NoContainer.status = "none"
    BY DEF NoContainer, Statuses
  <2>2. EngineTyped' /\ docker'[s] = NoContainer /\ \A x \in Services \ {s} : Kept(x)
    BY <1>1, <1>3, <2>1, BoxPut
  <2>. QED
    BY <2>1, <2>2 DEF Kept
<1>. QED
  BY <1>1, <1>2, <1>3, StatusSet, NothingPut

\* A start creates one container, of the image asked for, under a new id.
LEMMA StartKeeps ==
  ASSUME EngineTyped, NEW s \in Services, NEW image \in Images, NEW n \in Ids, NEW r,
         StartContainer(s, n, image, r) \/ StartFails(s, n, image, r)
  PROVE  /\ EngineTyped'
         /\ \A x \in Services : Kept(x) \/ (x = s /\ docker'[s].id = n)
         /\ r = "ok" => docker'[s].image = image
<1>1. images' \subseteq Images
  BY DEF EngineTyped, StartContainer, StartFails, engine
<1>2. CASE r # "ok" /\ docker' = docker
  BY <1>1, <1>2, NothingPut
<1>3. ASSUME NEW status \in {"running", "created"},
             docker' = [docker EXCEPT ![s] = [id |-> n, image |-> image, status |-> status]]
      PROVE  /\ EngineTyped' /\ docker'[s].id = n /\ docker'[s].image = image
             /\ \A x \in Services \ {s} : Kept(x)
  <2> DEFINE box == [id |-> n, image |-> image, status |-> status]
  <2>1. /\ box \in [id: Ids \cup {0}, image: Images \cup {"none"}, status: Statuses]
        /\ box.id = n /\ box.image = image
    BY DEF Statuses
  <2>2. docker' = [docker EXCEPT ![s] = box]
    BY <1>3
  <2> HIDE DEF box
  <2>3. EngineTyped' /\ docker'[s] = box /\ \A x \in Services \ {s} : Kept(x)
    BY <1>1, <2>1, <2>2, BoxPut
  <2>. QED
    BY <2>1, <2>3
<1>4. \/ r # "ok" /\ docker' = docker
      \/ \E status \in {"running", "created"} :
           docker' = [docker EXCEPT ![s] = [id |-> n, image |-> image, status |-> status]]
  BY DEF StartContainer, StartFails, engine
<1>. QED
  BY <1>2, <1>3, <1>4
-----------------------------------------------------------------------------
(***************************************************************************)
(* What the handlers make of currentState                                  *)
(***************************************************************************)
\* Two entries about the same container.
Alike(d, e) == d.svc = e.svc /\ d.id = e.id /\ d.image = e.image

LEMMA UpdateKeeps ==
  ASSUME CurrentTyped, HealthTyped, NEW s, NEW state \in States,
         UpdateServiceState(s, state), known' = known
  PROVE  /\ CurrentTyped' /\ HealthTyped'
         /\ \A d \in ToSet(current') : \E e \in ToSet(current) : Alike(d, e)
         /\ health'.pc = health.pc /\ health'.id = health.id
         /\ Alike(health'.entry, health.entry)
<1>1. CurrentTyped' /\ \A d \in ToSet(current') : \E e \in ToSet(current) : Alike(d, e)
  <2>1. CASE current' = current
    BY <2>1 DEF CurrentTyped, Alike
  <2>2. CASE current' = [current EXCEPT ![First(s)].state = state]
    <3>1. DOMAIN current = 1 .. Len(current) /\ Len(current) \in Nat
      BY DEF CurrentTyped
    <3>2. DOMAIN current' = 1 .. Len(current)
      BY <3>1, <2>2
    <3>3. ASSUME NEW i \in 1 .. Len(current)
          PROVE  current'[i] \in Entry /\ Alike(current'[i], current[i])
      <4>1. current[i] \in Entry
        BY <3>1 DEF CurrentTyped
      <4>2. current'[i] = current[i] \/ current'[i] = [current[i] EXCEPT !.state = state]
        BY <2>2, <3>1
      <4>3. CASE current'[i] = [current[i] EXCEPT !.state = state]
        BY <4>1, <4>3 DEF Entry, Alike
      <4>. QED
        BY <4>1, <4>2, <4>3 DEF Alike
    <3>4. current' \in Seq(Entry)
      <4>1. current' = [i \in 1 .. Len(current) |-> current'[i]]
        BY <2>2, <3>1
      <4>. QED
        BY <3>1, <3>3, <4>1
    <3>5. current' # <<>> => current # <<>>
      BY <2>2
    <3>6. \A d \in ToSet(current') : \E e \in ToSet(current) : Alike(d, e)
      BY <3>1, <3>2, <3>3 DEF ToSet
    <3>. QED
      BY <3>4, <3>5, <3>6 DEF CurrentTyped
  <2>. QED
    BY <2>1, <2>2 DEF UpdateServiceState
<1>2. /\ HealthTyped' /\ health'.pc = health.pc /\ health'.id = health.id
      /\ Alike(health'.entry, health.entry)
  <2>1. CASE health' = health
    BY <2>1 DEF HealthTyped, Alike
  <2>2. CASE health' = [health EXCEPT !.entry.state = state]
    <3> DEFINE entry == [health.entry EXCEPT !.state = state]
    <3>1. health' = [health EXCEPT !.entry = entry]
      BY <2>2
    <3>2. health.entry \in [svc: Services \cup {"none"}, id: Ids \cup {0},
                            image: Images \cup {"none"}, state: States, down: BOOLEAN]
      BY DEF HealthTyped
    <3>3. /\ entry \in [svc: Services \cup {"none"}, id: Ids \cup {0},
                        image: Images \cup {"none"}, state: States, down: BOOLEAN]
          /\ Alike(entry, health.entry)
          /\ health.entry \in Entry => entry \in Entry
      BY <3>2 DEF Alike, Entry
    <3> HIDE DEF entry
    <3>. QED
      BY <3>1, <3>3 DEF HealthTyped
  <2>. QED
    BY <2>1, <2>2 DEF UpdateServiceState
<1>. QED
  BY <1>1, <1>2

LEMMA RemoveKeeps ==
  ASSUME CurrentTyped, NEW s, RemoveService(s)
  PROVE  CurrentTyped' /\ ToSet(current') \subseteq ToSet(current)
<1>1. Without(s) \in Seq(Entry) /\ ToSet(Without(s)) \subseteq ToSet(current)
  BY WithoutIs
<1>2. Without(s) # <<>> => current # <<>>
  <2>1. SUFFICES ASSUME current = <<>> PROVE Without(s) = <<>>
    OBVIOUS
  <2>2. ToSet(current) = {}
    BY <2>1 DEF ToSet
  <2>3. Without(s) \in Seq({})
    BY <1>1, <2>2, ElementsOf
  <2>. QED
    BY <2>3
<1>3. current' = Without(s) /\ known' = (known /\ Without(s) # <<>>)
  BY DEF RemoveService
<1>4. known' \in BOOLEAN
  BY <1>3
<1>5. current' # <<>> => known'
  BY <1>2, <1>3 DEF CurrentTyped
<1>. QED
  BY <1>1, <1>3, <1>4, <1>5 DEF CurrentTyped

LEMMA AddKeeps ==
  ASSUME NEW base \in Seq(Entry), NEW st, NEW id \in Ids, st.svc \in Services,
         st.image \in Images, st.state \in States, AddService(base, st, id)
  PROVE  /\ CurrentTyped'
         /\ \A d \in ToSet(current') :
              d \in ToSet(base) \/ (d.svc = st.svc /\ d.id = id /\ d.image = st.image)
<1> DEFINE e == [svc |-> st.svc, id |-> id, image |-> st.image, state |-> st.state,
                 down |-> FALSE]
<1>1. e \in Entry /\ e.svc = st.svc /\ e.id = id /\ e.image = st.image
  BY DEF Entry
<1>2. current' = Append(base, e) /\ known' = TRUE
  BY DEF AddService
<1> HIDE DEF e
<1>3. current' \in Seq(Entry) /\ ToSet(current') = ToSet(base) \cup {e}
  BY <1>1, <1>2, ElementsOf
<1>. QED
  BY <1>1, <1>2, <1>3 DEF CurrentTyped
-----------------------------------------------------------------------------
(***************************************************************************)
(* What calculateSteps plans                                               *)
(***************************************************************************)
\* A step that would stop or freeze a service meant to run is there for another
\* image or a dead container.
Sparing(s) ==
  {st \in Planned :
     /\ st.svc = s
     /\ st.op \in {"stop", "pause"} /\ target[s].state = "running" =>
          Has(s) /\ st.id = Latest(s).id /\ (Latest(s).image # target[s].image \/ Latest(s).down)}

LEMMA AStep ==
  ASSUME NEW op \in Ops, NEW s \in Services, NEW id \in Ids \cup {0}, NEW t \in Target,
         op \in {"download", "start"} => t \in [image: Images, state: States]
  PROVE  Step(op, s, id, t) \in Planned /\ Step(op, s, id, t).svc = s
         /\ Step(op, s, id, t).op = op /\ Step(op, s, id, t).id = id
BY DEF Step, Planned, Target, Absent

LEMMA ShortSequences ==
  ASSUME NEW S, NEW a \in Seq(S), NEW b \in Seq(S), NEW x \in S
  PROVE  /\ <<>> \in Seq(S) /\ <<x>> \in Seq(S) /\ <<x>> # <<>> /\ a \o b \in Seq(S)
         /\ a \o b = <<>> => a = <<>> /\ b = <<>>
<1>1. <<x>> # <<>>
  <2>1. Len(<<x>>) = 1 /\ Len(<<>>) = 0
    OBVIOUS
  <2>. QED
    BY <2>1
<1>2. <<x>> \in Seq(S) /\ <<>> \in Seq(S)
  OBVIOUS
<1>. QED
  BY <1>1, <1>2, Concatenation

LEMMA AbsentIs == Absent \in Target /\ Absent.state = "absent"
BY DEF Absent, Target

LEMMA TransitionHolds ==
  ASSUME NEW s \in Services, NEW e \in Entry, e.svc = s,
         target[s].state \in States, e.state # target[s].state
  PROVE  /\ Transition(e, target[s].state) # <<>>
         /\ Transition(e, target[s].state) \in Seq(Sparing(s))
<1> DEFINE on(op) == <<Step(op, e.svc, e.id, Absent)>>
           state == target[s].state
<1>1. e.id \in Ids \cup {0} /\ e.state \in States /\ Absent \in Target
  BY AbsentIs DEF Entry
<1>2. ASSUME NEW op \in {"stop", "pause", "unpause", "recreate"},
             op \in {"stop", "pause"} => state # "running"
      PROVE  on(op) \in Seq(Sparing(s)) /\ on(op) # <<>>
  <2>1. /\ Step(op, e.svc, e.id, Absent) \in Planned
        /\ Step(op, e.svc, e.id, Absent).svc = s /\ Step(op, e.svc, e.id, Absent).op = op
    BY <1>1, AStep DEF Ops
  <2>2. Step(op, e.svc, e.id, Absent) \in Sparing(s)
    BY <1>2, <2>1 DEF Sparing
  <2>. QED
    BY <2>2, ShortSequences
<1>3. ASSUME NEW op \in {"unpause", "recreate"}, NEW next \in {"stop", "pause"},
             state # "running"
      PROVE  on(op) \o on(next) \in Seq(Sparing(s)) /\ on(op) \o on(next) # <<>>
  <2>1. on(op) \in Seq(Sparing(s)) /\ on(op) # <<>> /\ on(next) \in Seq(Sparing(s))
    BY <1>2, <1>3
  <2> HIDE DEF on
  <2>. QED
    BY <2>1, Concatenation
<1>4. /\ e.state = "running" /\ state = "stopped" => Transition(e, state) = on("stop")
      /\ e.state = "running" /\ state = "paused" => Transition(e, state) = on("pause")
      /\ e.state = "stopped" /\ state = "running" => Transition(e, state) = on("recreate")
      /\ e.state = "paused" /\ state = "running" => Transition(e, state) = on("unpause")
      /\ e.state = "paused" /\ state = "stopped" =>
           Transition(e, state) = on("unpause") \o on("stop")
      /\ e.state = "stopped" /\ state = "paused" =>
           Transition(e, state) = on("recreate") \o on("pause")
  BY DEF Transition
<1>5. \/ e.state = "running" /\ state \in {"stopped", "paused"}
      \/ e.state = "stopped" /\ state \in {"running", "paused"}
      \/ e.state = "paused" /\ state \in {"running", "stopped"}
  BY <1>1 DEF States
<1> HIDE DEF on
<1>. QED
  BY <1>2, <1>3, <1>4, <1>5

LEMMA StepsForHolds ==
  ASSUME TypeInv, NEW s \in Services
  PROVE  StepsFor(s) \in Seq(Planned) /\ StepsFor(s) \in Seq(Sparing(s))
<1> DEFINE t == target[s]
           e == Latest(s)
<1>1. t \in Target /\ Sparing(s) \subseteq Planned
  BY DEF TypeInv, Sparing
<1>2. SUFFICES StepsFor(s) \in Seq(Sparing(s))
  BY <1>1
<1>3. Has(s) => e \in Entry /\ e.svc = s /\ e.id \in Ids \cup {0} /\ e.state \in States
  BY LatestIs DEF TypeInv, Entry
<1>4. t # Absent => t \in [image: Images, state: States] /\ t.state \in States
  BY <1>1 DEF Target
<1>5. ASSUME t # Absent
      PROVE  Fetch(s, t) \in Seq(Sparing(s)) /\ Launch(s, t) \in Seq(Sparing(s))
  <2>1. ASSUME NEW op \in {"download", "start"}
        PROVE  <<Step(op, s, 0, t)>> \in Seq(Sparing(s))
    <3>1. /\ Step(op, s, 0, t) \in Planned /\ Step(op, s, 0, t).svc = s
          /\ Step(op, s, 0, t).op = op
      BY <1>1, <1>4, <1>5, AStep DEF Ops
    <3>2. Step(op, s, 0, t) \in Sparing(s)
      BY <3>1 DEF Sparing
    <3>. QED
      BY <3>2, ShortSequences
  <2>. QED
    BY <2>1 DEF Fetch, Launch
<1>6. ASSUME Has(s), t.state = "running" => e.image # t.image \/ e.down
      PROVE  StopRemove(s, e.id) \in Seq(Sparing(s))
  <2>1. ASSUME NEW op \in {"stop", "remove"}
        PROVE  Step(op, s, e.id, Absent) \in Sparing(s)
    <3>1. /\ Step(op, s, e.id, Absent) \in Planned /\ Step(op, s, e.id, Absent).svc = s
          /\ Step(op, s, e.id, Absent).op = op /\ Step(op, s, e.id, Absent).id = e.id
      BY <1>3, <1>6, AbsentIs, AStep DEF Ops
    <3> HIDE DEF e
    <3>. QED
      BY <3>1, <1>6 DEF Sparing, e
  <2>2. Step("stop", s, e.id, Absent) \in Sparing(s) /\ Step("remove", s, e.id, Absent) \in Sparing(s)
    BY <2>1
  <2>. QED
    BY <2>2 DEF StopRemove
<1>7. CASE t = Absent
  <2>1. t.state # "running"
    BY <1>7, AbsentIs
  <2>2. StepsFor(s) = IF Has(s) THEN StopRemove(s, e.id) ELSE <<>>
    BY <1>7 DEF StepsFor
  <2>. QED
    BY <2>1, <2>2, <1>6
<1>8. CASE t # Absent /\ ~Has(s)
  <2>1. StepsFor(s) = StepsToAdd(s, t)
    BY <1>8 DEF StepsFor
  <2>. QED
    BY <2>1, <1>5, <1>8, Concatenation DEF StepsToAdd
<1>9. CASE t # Absent /\ Has(s)
  <2>1. StepsFor(s) = StepsToUpdate(e, t)
    BY <1>9 DEF StepsFor
  <2>2. CASE e.state # t.state
    <3>1. StepsFor(s) = Transition(e, t.state)
      BY <2>1, <2>2 DEF StepsToUpdate
    <3>. QED
      BY <3>1, <2>2, <1>3, <1>4, <1>9, TransitionHolds
  <2>3. CASE e.state = t.state /\ ~NeedsUpdate(e, t)
    BY <2>1, <2>3 DEF StepsToUpdate
  <2>4. CASE e.state = t.state /\ NeedsUpdate(e, t)
    <3>1. StepsFor(s) = (IF e.image # t.image THEN Fetch(s, t) ELSE <<>>)
                          \o StopRemove(s, e.id) \o Launch(s, t)
      BY <2>1, <2>4, <1>3, <1>9 DEF StepsToUpdate
    <3>2. StopRemove(s, e.id) \in Seq(Sparing(s))
      BY <1>6, <1>9, <2>4 DEF NeedsUpdate
    <3>3. (IF e.image # t.image THEN Fetch(s, t) ELSE <<>>) \in Seq(Sparing(s))
      BY <1>5, <1>9
    <3>4. Launch(s, t) \in Seq(Sparing(s))
      BY <1>5, <1>9
    <3> HIDE DEF e, t
    <3>. QED
      BY <3>1, <3>2, <3>3, <3>4, Concatenation
  <2>. QED
    BY <2>2, <2>3, <2>4
<1>. QED
  BY <1>7, <1>8, <1>9

\* Each step of a plan is one that its service calls for, or removes the app.
LEMMA RemoveAppHolds ==
  ASSUME TypeInv
  PROVE  RemoveApp \in Seq(Planned) /\ (RemoveApp = <<>> => current = <<>>)
<1> DEFINE parts == [i \in DOMAIN current |-> StopRemove(current[i].svc, current[i].id)]
<1>1. /\ DOMAIN current = 1 .. Len(current) /\ Len(current) \in Nat
      /\ \A i \in 1 .. Len(current) : current[i] \in Entry
  BY DEF TypeInv, CurrentTyped
<1>2. ASSUME NEW i \in 1 .. Len(current) PROVE parts[i] \in Seq(Planned) /\ parts[i] # <<>>
  <2> DEFINE s == current[i].svc
             id == current[i].id
  <2>1. s \in Services /\ id \in Ids \cup {0}
    BY <1>1 DEF Entry
  <2>2. parts[i] = StopRemove(s, id)
    BY <1>1
  <2> HIDE DEF s, id, parts
  <2>3. /\ Step("stop", s, id, Absent) \in Planned /\ Step("remove", s, id, Absent) \in Planned
    BY <2>1, AbsentIs, AStep DEF Ops
  <2>4. StopRemove(s, id) \in Seq(Planned) /\ Len(StopRemove(s, id)) = 2
    BY <2>3 DEF StopRemove
  <2>5. StopRemove(s, id) # <<>>
    BY <2>4
  <2>. QED
    BY <2>2, <2>4, <2>5
<1>3. /\ parts \in Seq(Seq(Planned)) /\ Len(parts) = Len(current)
  <2>1. parts \in [1 .. Len(current) -> Seq(Planned)]
    BY <1>1, <1>2
  <2>. QED
    BY <2>1, <1>1
<1>4. RemoveApp = FlattenSeq(parts)
  BY DEF RemoveApp
<1> HIDE DEF parts
<1>5. RemoveApp = <<>> => Len(current) = 0
  <2>1. RemoveApp = <<>> => \A i \in 1 .. Len(parts) : parts[i] = <<>>
    BY <1>3, <1>4, FlattenSeqHolds
  <2>. QED
    BY <1>1, <1>2, <1>3, <2>1
<1>. QED
  BY <1>1, <1>3, <1>4, <1>5, FlattenSeqHolds DEF TypeInv, CurrentTyped

LEMMA CalculateStepsHolds ==
  ASSUME TypeInv, NEW u \in Services, target[u] # Absent
  PROVE  /\ CalculateSteps \in Seq(Planned)
         /\ \A k \in 1 .. Len(CalculateSteps) :
              \E s \in Services : CalculateSteps[k] \in Sparing(s)
         /\ CalculateSteps = <<>> => \A s \in Services : StepsFor(s) = <<>>
<1> DEFINE n == Cardinality(Services)
           parts == [i \in 1 .. n |-> StepsFor(SetToSeq(Services)[i])]
<1>1. /\ n \in Nat /\ SetToSeq(Services) \in Seq(Services) /\ Len(SetToSeq(Services)) = n
      /\ \A s \in Services : \E i \in 1 .. n : SetToSeq(Services)[i] = s
  BY ServicesAssumption, SetToSeqLists
<1>2. \A i \in 1 .. n : SetToSeq(Services)[i] \in Services
  BY <1>1
<1>3. \A i \in 1 .. n : parts[i] = StepsFor(SetToSeq(Services)[i])
  OBVIOUS
<1>4. \A i \in 1 .. n : parts[i] \in Seq(Planned) /\ \E s \in Services : parts[i] \in Seq(Sparing(s))
  BY <1>2, StepsForHolds
<1>5. /\ parts \in Seq(Seq(Planned)) /\ Len(parts) = n
  <2>1. parts \in [1 .. n -> Seq(Planned)]
    BY <1>4
  <2> HIDE DEF parts, n
  <2>. QED
    BY <1>1, <2>1
<1>6. CalculateSteps = FlattenSeq(parts)
  BY DEF CalculateSteps
<1> HIDE DEF parts, n
<1>7. /\ CalculateSteps \in Seq(Planned)
      /\ \A k \in 1 .. Len(CalculateSteps) :
           \E i \in 1 .. Len(parts) : \E j \in 1 .. Len(parts[i]) : CalculateSteps[k] = parts[i][j]
      /\ CalculateSteps = <<>> => \A i \in 1 .. Len(parts) : parts[i] = <<>>
  <2>1. /\ FlattenSeq(parts) \in Seq(Planned)
        /\ \A k \in 1 .. Len(FlattenSeq(parts)) :
             \E i \in 1 .. Len(parts) : \E j \in 1 .. Len(parts[i]) :
               FlattenSeq(parts)[k] = parts[i][j]
        /\ FlattenSeq(parts) = <<>> => \A i \in 1 .. Len(parts) : parts[i] = <<>>
    BY <1>5, FlattenSeqHolds
  <2>. QED
    BY <1>6, <2>1, Zenon
<1>8. ASSUME NEW k \in 1 .. Len(CalculateSteps)
      PROVE  \E s \in Services : CalculateSteps[k] \in Sparing(s)
  <2>1. PICK i \in 1 .. n : \E j \in 1 .. Len(parts[i]) : CalculateSteps[k] = parts[i][j]
    BY <1>5, <1>7
  <2>2. PICK s \in Services : parts[i] \in Seq(Sparing(s))
    BY <1>4
  <2>3. \A j \in 1 .. Len(parts[i]) : parts[i][j] \in Sparing(s)
    BY <2>2
  <2>. QED
    BY <2>1, <2>3
<1>9. ASSUME CalculateSteps = <<>>, NEW s \in Services PROVE StepsFor(s) = <<>>
  <2>1. PICK i \in 1 .. n : SetToSeq(Services)[i] = s
    BY <1>1
  <2>2. parts[i] = <<>>
    BY <1>5, <1>7, <1>9
  <2>. QED
    BY <1>3, <2>1, <2>2
<1>. QED
  BY <1>7, <1>8, <1>9

LEMMA PlansTyped == ASSUME TypeInv PROVE CalculateSteps \in Seq(Planned)
<1>1. CASE \A s \in Services : target[s] = Absent
  BY <1>1, RemoveAppHolds DEF CalculateSteps
<1>2. CASE ~ \A s \in Services : target[s] = Absent
  BY <1>2, CalculateStepsHolds
<1>. QED
  BY <1>1, <1>2

\* What currentState says of a container that exists is true of it.
LEMMA TruthImplies == ASSUME Truth PROVE EntriesTruthful
BY DEF Truth, CurrentTrue, EntriesTruthful, Claim

LEMMA ImpliesSparesHealthy == ASSUME TypeInv, EntriesTruthful PROVE SparesHealthy
<1>. SUFFICES ASSUME NEW s \in Services, NEW i \in DOMAIN CalculateSteps,
                     AsTargeted(s), ~Latest(s).down,
                     CalculateSteps[i].svc = s, CalculateSteps[i].id = docker[s].id,
                     CalculateSteps[i].op \in {"stop", "pause"}
              PROVE  FALSE
  BY DEF SparesHealthy
<1>1. target[s].state = "running" /\ target[s] # Absent
  BY AbsentIs DEF AsTargeted
<1>2. i \in 1 .. Len(CalculateSteps)
  BY PlansTyped
<1>3. PICK x \in Services : CalculateSteps[i] \in Sparing(x)
  BY <1>1, <1>2, CalculateStepsHolds
<1>4. docker[s].id = Latest(s).id /\ Latest(s).image # target[s].image
  BY <1>1, <1>3 DEF Sparing
<1>5. Has(s)
  BY <1>1, <1>3 DEF Sparing
<1>6. Latest(s) \in ToSet(current) /\ Latest(s).svc = s
  BY <1>5, LatestIs DEF TypeInv
<1>7. docker[s].image = Latest(s).image
  BY <1>4, <1>6 DEF EntriesTruthful, AsTargeted
<1>. QED
  BY <1>4, <1>7 DEF AsTargeted

\* A service nothing is planned for is as its target says.
LEMMA NothingToUpdate ==
  ASSUME TypeInv, NEW s \in Services, target[s] # Absent, Has(s), StepsFor(s) = <<>>
  PROVE  /\ Latest(s).state = target[s].state
         /\ Latest(s).image = target[s].image /\ ~Latest(s).down
<1> DEFINE t == target[s]
           e == Latest(s)
<1>1. e \in Entry /\ e.svc = s /\ e.down \in BOOLEAN /\ e.id \in Ids \cup {0}
  BY LatestIs DEF TypeInv, Entry
<1>2. t \in Target /\ t.state \in States /\ t \in [image: Images, state: States]
  BY DEF TypeInv, Target
<1>3. StepsToUpdate(e, t) = <<>>
  BY DEF StepsFor
<1>4. e.state = t.state
  <2>1. SUFFICES ASSUME e.state # t.state PROVE FALSE
    OBVIOUS
  <2>2. Transition(e, t.state) = <<>>
    BY <1>3, <2>1 DEF StepsToUpdate
  <2>. QED
    BY <1>1, <1>2, <2>1, <2>2, TransitionHolds
<1>5. ~NeedsUpdate(e, t)
  <2>1. SUFFICES ASSUME NeedsUpdate(e, t) PROVE FALSE
    OBVIOUS
  <2>2. (IF e.image # t.image THEN Fetch(s, t) ELSE <<>>) \o StopRemove(s, e.id) \o Launch(s, t)
          = <<>>
    BY <1>1, <1>3, <1>4, <2>1 DEF StepsToUpdate
  <2>3. /\ Step("download", s, 0, t) \in Planned /\ Step("start", s, 0, t) \in Planned
        /\ Step("stop", s, e.id, Absent) \in Planned /\ Step("remove", s, e.id, Absent) \in Planned
    BY <1>1, <1>2, AbsentIs, AStep DEF Ops
  <2>4. /\ Fetch(s, t) \in Seq(Planned) /\ <<>> \in Seq(Planned)
        /\ StopRemove(s, e.id) \in Seq(Planned)
    BY <2>3 DEF Fetch, StopRemove
  <2>5. Launch(s, t) \in Seq(Planned) /\ Launch(s, t) # <<>>
    BY <2>3, ShortSequences, <2>4 DEF Launch
  <2> DEFINE pull == IF e.image # t.image THEN Fetch(s, t) ELSE <<>>
  <2>6. pull \in Seq(Planned)
    BY <2>4
  <2> HIDE DEF pull, e, t
  <2>7. pull \o StopRemove(s, e.id) \in Seq(Planned)
    BY <2>4, <2>6, Concatenation
  <2>8. (pull \o StopRemove(s, e.id)) \o Launch(s, t) = <<>> => Launch(s, t) = <<>>
    BY <2>5, <2>7, Concatenation
  <2>. QED
    BY <2>2, <2>5, <2>8 DEF pull
<1>. QED
  BY <1>1, <1>4, <1>5 DEF NeedsUpdate

LEMMA NothingToAdd ==
  ASSUME TypeInv, NEW s \in Services, target[s] # Absent, ~Has(s), StepsFor(s) = <<>>
  PROVE  target[s].state # "running" \/ GivenUp(s)
<1>1. SUFFICES ASSUME target[s].state = "running", ShouldRetry(target[s].image) PROVE FALSE
  BY DEF GivenUp
<1>2. Fetch(s, target[s]) \o Launch(s, target[s]) = <<>>
  BY <1>1 DEF StepsFor, StepsToAdd
<1>3. target[s] \in Target /\ target[s] \in [image: Images, state: States]
  BY DEF TypeInv, Target
<1>4. Step("download", s, 0, target[s]) \in Planned /\ Step("start", s, 0, target[s]) \in Planned
  BY <1>3, AStep DEF Ops
<1>5. /\ Fetch(s, target[s]) \in Seq(Planned) /\ Launch(s, target[s]) \in Seq(Planned)
      /\ Launch(s, target[s]) # <<>>
  BY <1>4, ShortSequences DEF Fetch, Launch
<1>. QED
  BY <1>2, <1>5, Concatenation

\* When currentState mirrors the engine.
LEMMA NotListed ==
  ASSUME TypeInv, Mirrors, NEW s \in Services, ~Has(s)
  PROVE  docker[s].status = "none"
<1>1. SUFFICES ASSUME docker[s].status # "none" PROVE FALSE
  OBVIOUS
<1>2. Seen(s) \in ToSet(current) /\ Seen(s).svc = s
  BY <1>1 DEF Mirrors, Listing, Seen
<1>. QED
  BY <1>2 DEF Has, ToSet

LEMMA SeenLast ==
  ASSUME TypeInv, Mirrors, NEW s \in Services, Has(s)
  PROVE  Latest(s) = Seen(s) /\ docker[s].status # "none"
<1>1. Latest(s) \in Listing /\ Latest(s).svc = s
  BY LatestIs DEF Mirrors, TypeInv
<1>2. PICK x \in Services : docker[x].status # "none" /\ Latest(s) = Seen(x)
  BY <1>1 DEF Listing
<1>3. x = s
  BY <1>1, <1>2 DEF Seen
<1>. QED
  BY <1>2, <1>3

LEMMA ImpliesNothingToDoIsDone == ASSUME TypeInv PROVE NothingToDoIsDone
<1>. SUFFICES ASSUME Mirrors, CalculateSteps = <<>>, NEW s \in Services
              PROVE  Obeyed(s) \/ NeverStarted(s) \/ GivenUp(s)
  BY DEF NothingToDoIsDone
<1>1. target[s] \in Target /\ (target[s] # Absent => target[s].state \in States)
  BY DEF TypeInv, Target
<1>2. CASE ~Has(s)
  <2>1. docker[s].status = "none"
    BY <1>2, NotListed
  <2>2. target[s].state # "running" \/ GivenUp(s)
    <3>1. CASE target[s] = Absent
      BY <3>1, AbsentIs
    <3>2. CASE target[s] # Absent
      BY <3>2, <1>2, CalculateStepsHolds, NothingToAdd
    <3>. QED
      BY <3>1, <3>2
  <2>. QED
    BY <2>1, <2>2 DEF Obeyed
<1>3. CASE Has(s)
  <2>1. current # <<>>
    BY <1>3 DEF Has
  <2>2. PICK u \in Services : target[u] # Absent
    BY <2>1, RemoveAppHolds DEF CalculateSteps
  <2>3. StepsFor(s) = <<>>
    BY <2>2, CalculateStepsHolds
  <2>4. target[s] # Absent
    <3>1. SUFFICES ASSUME target[s] = Absent PROVE FALSE
      OBVIOUS
    <3>2. StopRemove(s, Latest(s).id) = <<>>
      BY <1>3, <2>3, <3>1 DEF StepsFor
    <3>3. Len(StopRemove(s, Latest(s).id)) = 2
      BY DEF StopRemove
    <3>. QED
      BY <3>2, <3>3
  <2>5. /\ Seen(s).state = target[s].state /\ Seen(s).image = target[s].image
        /\ ~Seen(s).down /\ docker[s].status # "none"
    BY <1>3, <2>3, <2>4, NothingToUpdate, SeenLast
  <2>6. /\ docker[s].status \in {"created", "running", "paused"}
        /\ docker[s].image = target[s].image
        /\ target[s].state = IF docker[s].status = "paused" THEN "paused" ELSE "running"
    <3>1. docker[s].status \in Statuses
      BY DEF TypeInv, EngineTyped
    <3>. QED
      BY <2>5, <3>1 DEF Seen, Statuses
  <2>. QED
    BY <2>6 DEF Obeyed, NeverStarted, AsTargeted
<1>. QED
  BY <1>2, <1>3
-----------------------------------------------------------------------------
(***************************************************************************)
(* The steps that reach the engine                                         *)
(***************************************************************************)
\* A container that is new has an id nobody holds for its service.
Moved == \A x \in Services : Kept(x) \/ docker'[x].id \in FreeIds(x)

LEMMA PerformHolds ==
  ASSUME TypeInv, NEW r \in Answers, Perform(r)
  PROVE  /\ EngineTyped' /\ Moved /\ PlanTyped'
         /\ Head(plan).op = "start" /\ r = "ok" =>
              docker'[Head(plan).svc].image = Head(plan).image
<1> DEFINE st == Head(plan)
<1>1. /\ plan # <<>> /\ plan' = plan /\ EngineStep(st, r) /\ Answered(st, r)
      /\ EngineTyped /\ PlanTyped
  BY DEF Perform, TypeInv
<1>2. st \in Planned /\ st.svc \in Services
  BY <1>1, StepsLeft
<1>3. st.op = "start" => /\ FreeIds(st.svc) # {} /\ st.image \in Images
                         /\ NewId(st.svc) \in FreeIds(st.svc) /\ NewId(st.svc) \in Ids
  BY <1>1, <1>2, NewIdIs DEF EngineStep, Planned
<1>4. /\ EngineTyped' /\ Moved
      /\ st.op = "start" /\ r = "ok" => docker'[st.svc].image = st.image
  <2>1. CASE st.op = "start"
    <3>1. StartContainer(st.svc, NewId(st.svc), st.image, r)
      BY <1>1, <2>1 DEF EngineStep
    <3> HIDE DEF st
    <3>. QED
      BY <1>1, <1>2, <1>3, <2>1, <3>1, StartKeeps DEF Moved
  <2>2. CASE st.op # "start"
    <3>1. \/ StopContainer(st.svc, st.id, r) \/ PauseContainer(st.svc, st.id, r)
          \/ UnpauseContainer(st.svc, st.id, r) \/ RemoveContainer(st.svc, st.id, r)
      BY <1>1, <2>2 DEF EngineStep
    <3> HIDE DEF st
    <3>. QED
      BY <1>1, <1>2, <2>2, <3>1, CallKeeps DEF Moved
  <2>. QED
    BY <2>1, <2>2
<1>5. PlanTyped'
  <2>1. reply' = [r |-> r, id |-> IF st.op = "start" /\ r = "ok" THEN NewId(st.svc) ELSE 0]
    BY <1>1 DEF Answered
  <2>2. st.op # "recreate"
    BY <1>1 DEF EngineStep
  <2>3. /\ reply' \in [r: Answers \cup {"none"}, id: Ids \cup {0}] /\ reply'.r = r
        /\ (st.op = "start" /\ r = "ok" => reply'.id \in Ids)
    BY <1>3, <2>1
  <2> HIDE DEF st
  <2>. QED
    BY <1>1, <2>2, <2>3 DEF PlanTyped, st
<1>. QED
  BY <1>4, <1>5

LEMMA RecreateHolds ==
  ASSUME TypeInv, NEW r \in Answers, Recreate(r)
  PROVE  EngineTyped' /\ Moved /\ PlanTyped' /\ Head(plan').op = "recreate"
<1> DEFINE st == Head(plan)
           e == current[First(st.svc)]
           next == [st EXCEPT !.image = e.image, !.state = e.state]
<1>1. /\ plan # <<>> /\ st.op = "recreate" /\ Has(st.svc)
      /\ RemoveContainer(st.svc, st.id, r) /\ plan' = <<next>> \o Tail(plan)
      /\ reply' = [r |-> r, id |-> 0] /\ EngineTyped /\ PlanTyped /\ CurrentTyped
  BY DEF Recreate, Due, TypeInv
<1>2. st \in Planned /\ st.svc \in Services
  BY <1>1, StepsLeft
<1>3. e.image \in Images /\ e.state \in States
  BY <1>1, FirstIs DEF Entry
<1>4. /\ next \in Planned /\ next.op = "recreate"
      /\ next.image \in Images /\ next.state \in States
  BY <1>1, <1>2, <1>3 DEF Planned
<1> HIDE DEF e, st, next
<1>5. plan' \in Seq(Planned) /\ plan' # <<>> /\ Head(plan') = next
  BY <1>1, <1>4, StepsLeft
<1>6. reply' \in [r: Answers \cup {"none"}, id: Ids \cup {0}]
  BY <1>1
<1>7. EngineTyped' /\ Moved
  BY <1>1, <1>2, CallKeeps DEF Moved
<1>. QED
  BY <1>4, <1>5, <1>6, <1>7 DEF PlanTyped

LEMMA DownloadHolds ==
  ASSUME TypeInv, NEW r \in Answers, Download(r)
  PROVE  EngineTyped' /\ Moved /\ RetryTyped'
<1> DEFINE image == Head(plan).image
           first == retry[image]
<1>1. /\ plan # <<>> /\ PullImage(image, r) /\ ShouldRetry(image) /\ EngineTyped /\ RetryTyped
      /\ image \in Images
  BY StepsLeft DEF Download, Due, TypeInv, Planned
<1> HIDE DEF image
<1>2. images' \subseteq Images /\ docker' = docker
  BY <1>1 DEF PullImage, EngineTyped
<1>3. first \in [count: 0 .. MaxRetries, due: BOOLEAN] /\ first.count < MaxRetries
  BY <1>1, BoundsAssumption DEF RetryTyped, ShouldRetry
<1>4. [count |-> first.count + 1, due |-> FALSE] \in [count: 0 .. MaxRetries, due: BOOLEAN]
  BY <1>3, BoundsAssumption
<1>5. [count |-> 0, due |-> TRUE] \in [count: 0 .. MaxRetries, due: BOOLEAN]
  BY BoundsAssumption
<1>6. retry' = [retry EXCEPT ![image] = IF r = "ok" THEN [count |-> 0, due |-> TRUE]
                                        ELSE [count |-> first.count + 1, due |-> FALSE]]
  BY DEF Download, image
<1> HIDE DEF first
<1>7. RetryTyped'
  BY <1>1, <1>4, <1>5, <1>6 DEF RetryTyped
<1>. QED
  BY <1>1, <1>2, <1>7, NothingPut DEF Moved

LEMMA FailToStartHolds ==
  ASSUME TypeInv, FailToStart
  PROVE  EngineTyped' /\ Moved /\ PlanTyped'
<1> DEFINE st == Head(plan)
<1>1. /\ plan # <<>> /\ st.op = "start" /\ FreeIds(st.svc) # {} /\ plan' = plan
      /\ StartFails(st.svc, NewId(st.svc), st.image, "error")
      /\ reply' = [r |-> "error", id |-> 0] /\ EngineTyped /\ PlanTyped
  BY DEF FailToStart, Due, TypeInv
<1>2. /\ st \in Planned /\ st.svc \in Services /\ st.image \in Images
      /\ NewId(st.svc) \in FreeIds(st.svc) /\ NewId(st.svc) \in Ids
  BY <1>1, StepsLeft, NewIdIs DEF Planned
<1>3. reply' \in [r: Answers \cup {"none"}, id: Ids \cup {0}]
  BY <1>1 DEF Answers
<1> HIDE DEF st
<1>4. EngineTyped' /\ Moved
  BY <1>1, <1>2, StartKeeps DEF Moved
<1>. QED
  BY <1>1, <1>3, <1>4 DEF PlanTyped

LEMMA NoHealthTyped == ASSUME health' = NoHealth PROVE HealthTyped'
BY DEF HealthTyped, NoHealth, NoEntry, States

LEMMA HealthCallHolds ==
  ASSUME TypeInv, NEW r \in Answers, HealthStop(r) \/ HealthRemove(r)
  PROVE  /\ EngineTyped' /\ Moved /\ HealthTyped'
         /\ health' = NoHealth \/ (/\ health'.entry = health.entry
                                   /\ health.pc # "idle" /\ health'.pc # "started")
<1>1. HealthTyped /\ EngineTyped /\ health.pc # "idle" /\ health.entry.svc \in Services
  BY DEF HealthStop, HealthRemove, HealthCall, HealthTyped, TypeInv, Entry
<1>2. \/ StopContainer(health.entry.svc, health.entry.id, r)
      \/ RemoveContainer(health.entry.svc, health.entry.id, r)
  BY DEF HealthStop, HealthRemove
<1>3. EngineTyped' /\ Moved
  BY <1>1, <1>2, CallKeeps DEF Moved
<1>4. CASE health' = NoHealth
  BY <1>3, <1>4, NoHealthTyped
<1>5. ASSUME NEW pc \in {"remove", "start"}, health' = [health EXCEPT !.pc = pc]
      PROVE  HealthTyped' /\ health'.entry = health.entry /\ health'.pc # "started"
  BY <1>1, <1>5 DEF HealthTyped
<1>6. \/ health' = NoHealth
      \/ \E pc \in {"remove", "start"} : health' = [health EXCEPT !.pc = pc]
  BY DEF HealthStop, HealthRemove, HealthCall
<1>. QED
  BY <1>1, <1>3, <1>4, <1>5, <1>6

LEMMA HealthStartHolds ==
  ASSUME TypeInv, NEW r \in Answers, HealthStart(r)
  PROVE  /\ EngineTyped' /\ Moved /\ HealthTyped'
         /\ \/ health' = NoHealth
            \/ /\ health'.entry = health.entry /\ health.pc # "idle"
               /\ docker'[health.entry.svc].image = health.entry.image
<1> DEFINE s == health.entry.svc
           n == NewId(s)
<1>1. /\ HealthTyped /\ EngineTyped /\ health.pc = "start" /\ FreeIds(s) # {}
      /\ health.entry \in Entry /\ StartContainer(s, n, health.entry.image, r)
      /\ health' = IF r = "ok" THEN [health EXCEPT !.pc = "started", !.id = n] ELSE NoHealth
  BY DEF HealthStart, HealthTyped, TypeInv
<1>2. s \in Services /\ health.entry.image \in Images
  BY <1>1 DEF Entry
<1>3. n \in FreeIds(s) /\ n \in Ids
  BY <1>1, NewIdIs
<1> HIDE DEF s, n
<1>4. /\ EngineTyped' /\ Moved
      /\ r = "ok" => docker'[s].image = health.entry.image
  BY <1>1, <1>2, <1>3, StartKeeps DEF Moved
<1>5. CASE r = "ok"
  <2>1. health' = [health EXCEPT !.pc = "started", !.id = n]
    BY <1>1, <1>5
  <2>2. HealthTyped' /\ health'.entry = health.entry
    BY <1>1, <1>3, <2>1 DEF HealthTyped
  <2>. QED
    BY <1>1, <1>4, <1>5, <2>2 DEF s
<1>6. CASE r # "ok"
  BY <1>1, <1>4, <1>6, NoHealthTyped
<1>. QED
  BY <1>5, <1>6
-----------------------------------------------------------------------------
(***************************************************************************)
(* Types                                                                   *)
(***************************************************************************)
LEMMA TypeFrames ==
  ASSUME TypeInv
  PROVE  /\ UNCHANGED engine => EngineTyped'
         /\ UNCHANGED <<current, known>> => CurrentTyped'
         /\ UNCHANGED <<plan, reply>> => PlanTyped'
         /\ UNCHANGED sync => SyncTyped'
         /\ UNCHANGED retry => RetryTyped'
         /\ UNCHANGED health => HealthTyped'
         /\ UNCHANGED target => target' \in [Services -> Target]
<1>1. UNCHANGED engine => EngineTyped'
  BY DEF TypeInv, EngineTyped, engine
<1>2. UNCHANGED <<current, known>> => CurrentTyped'
  BY DEF TypeInv, CurrentTyped
<1>3. UNCHANGED <<plan, reply>> => PlanTyped'
  BY DEF TypeInv, PlanTyped
<1>4. UNCHANGED sync => SyncTyped'
  BY DEF TypeInv, SyncTyped
<1>5. UNCHANGED retry => RetryTyped'
  BY DEF TypeInv, RetryTyped
<1>6. UNCHANGED health => HealthTyped'
  BY DEF TypeInv, HealthTyped
<1>. QED
  BY <1>1, <1>2, <1>3, <1>4, <1>5, <1>6 DEF TypeInv

LEMMA PlanMoves ==
  ASSUME PlanTyped, plan # <<>>, plan' = Tail(plan), reply' = NoReply
  PROVE  PlanTyped'
<1>1. NoReply \in [r: Answers \cup {"none"}, id: Ids \cup {0}] /\ NoReply.r = "none"
  BY DEF NoReply
<1>. QED
  BY <1>1, StepsLeft DEF PlanTyped

LEMMA CarryOutTyped == ASSUME TypeInv, CarryOut PROVE TypeInv'
<1>1. ASSUME Finish, reply.r \in {"ok", "error"} PROVE PlanTyped'
  <2>1. plan # <<>>
    BY <1>1 DEF TypeInv, PlanTyped, NoReply
  <2>. QED
    BY <1>1, <2>1, PlanMoves DEF Finish, TypeInv
<1>2. ASSUME SkipDownload \/ RecreateLost PROVE TypeInv'
  <2>1. PlanTyped'
    BY <1>2, PlanMoves DEF SkipDownload, RecreateLost, Due, TypeInv
  <2>. QED
    BY <1>2, <2>1, TypeFrames DEF SkipDownload, RecreateLost, TypeInv
<1>3. ASSUME NEW r \in Answers, Download(r) PROVE TypeInv'
  <2>1. PlanTyped'
    BY <1>3, PlanMoves DEF Download, Due, TypeInv
  <2>. QED
    BY <1>3, <2>1, DownloadHolds, TypeFrames DEF Download, TypeInv
<1>4. ASSUME NEW r \in Answers, Perform(r) PROVE TypeInv'
  BY <1>4, PerformHolds, TypeFrames DEF Perform, TypeInv
<1>5. ASSUME NEW r \in Answers, Recreate(r) PROVE TypeInv'
  BY <1>5, RecreateHolds, TypeFrames DEF Recreate, TypeInv
<1>6. CASE StepFailed
  <2>1. PlanTyped'
    BY <1>1, <1>6 DEF StepFailed
  <2>. QED
    BY <1>6, <2>1, TypeFrames DEF StepFailed, Finish, TypeInv
<1>7. CASE Stopped \/ Paused \/ Unpaused
  <2>1. PlanTyped'
    BY <1>1, <1>7 DEF Stopped, Paused, Unpaused, Succeeded
  <2>2. PICK state \in States : UpdateServiceState(Head(plan).svc, state)
    BY <1>7 DEF Stopped, Paused, Unpaused, States
  <2>3. known' = known
    BY <1>7 DEF Stopped, Paused, Unpaused
  <2>4. CurrentTyped' /\ HealthTyped'
    BY <2>2, <2>3, UpdateKeeps DEF TypeInv
  <2>. QED
    BY <1>7, <2>1, <2>4, TypeFrames DEF Stopped, Paused, Unpaused, Finish, TypeInv
<1>8. CASE Removed
  <2>1. PlanTyped'
    BY <1>1, <1>8 DEF Removed, Succeeded
  <2>2. CurrentTyped'
    BY <1>8, RemoveKeeps DEF Removed, TypeInv
  <2>. QED
    BY <1>8, <2>1, <2>2, TypeFrames DEF Removed, Finish, TypeInv
<1>9. CASE Started
  <2>1. PlanTyped'
    BY <1>1, <1>9 DEF Started, Succeeded
  <2>2. /\ Head(plan) \in Planned /\ Head(plan).svc \in Services /\ reply.id \in Ids
        /\ Head(plan).image \in Images /\ Head(plan).state \in States
    <3>1. PlanTyped /\ plan # <<>> /\ Head(plan).op = "start" /\ reply.r = "ok"
      BY <1>9 DEF Started, Succeeded, TypeInv
    <3>2. Head(plan) \in Planned /\ Head(plan).svc \in Services
      BY <3>1, StepsLeft
    <3>. QED
      BY <3>1, <3>2 DEF PlanTyped, Planned
  <2>3. CurrentTyped'
    BY <1>9, <2>2, AddKeeps DEF Started, TypeInv, CurrentTyped
  <2>. QED
    BY <1>9, <2>1, <2>3, TypeFrames DEF Started, Finish, TypeInv
<1>10. CASE Recreated
  <2> DEFINE next == [Head(plan) EXCEPT !.op = "start", !.id = 0]
  <2>1. /\ PlanTyped /\ plan # <<>> /\ Head(plan).op = "recreate" /\ reply.r = "ok"
        /\ plan' = <<next>> \o Tail(plan) /\ reply' = NoReply
    BY <1>10 DEF Recreated, Succeeded, TypeInv
  <2>2. Head(plan) \in Planned /\ Head(plan).image \in Images /\ Head(plan).state \in States
    BY <2>1, StepsLeft DEF PlanTyped
  <2>3. next \in Planned
    BY <2>2 DEF Planned, Ops
  <2> HIDE DEF next
  <2>4. plan' \in Seq(Planned) /\ plan' # <<>>
    BY <2>1, <2>3, StepsLeft
  <2>5. NoReply \in [r: Answers \cup {"none"}, id: Ids \cup {0}] /\ NoReply.r = "none"
    BY DEF NoReply
  <2>6. PlanTyped'
    BY <2>1, <2>4, <2>5 DEF PlanTyped
  <2>7. CurrentTyped'
    BY <1>10, RemoveKeeps DEF Recreated, TypeInv
  <2>. QED
    BY <1>10, <2>6, <2>7, TypeFrames DEF Recreated, TypeInv
<1>. QED
  BY <1>2, <1>3, <1>4, <1>5, <1>6, <1>7, <1>8, <1>9, <1>10 DEF CarryOut

LEMMA SyncStepTyped == ASSUME TypeInv, Sync PROVE TypeInv'
<1>1. NoSync \in [pc: {"idle", "listed", "building"}, rest: SUBSET Entry]
  BY DEF NoSync
<1>2. sync \in [pc: {"idle", "listed", "building"}, rest: SUBSET Entry]
  BY DEF TypeInv, SyncTyped
<1>3. CASE SyncList
  <2>1. SyncTyped'
    BY <1>3, ListingIs DEF SyncList, SyncTyped, TypeInv
  <2>. QED
    BY <1>3, <2>1, TypeFrames DEF SyncList, TypeInv
<1>4. CASE SyncReset
  <2>1. SyncTyped'
    BY <1>1, <1>2, <1>4 DEF SyncReset, SyncTyped
  <2>2. CurrentTyped'
    BY <1>4 DEF SyncReset, CurrentTyped
  <2>3. HealthTyped'
    BY <1>4 DEF SyncReset, HealthTyped, TypeInv
  <2>. QED
    BY <1>4, <2>1, <2>2, <2>3, TypeFrames DEF SyncReset, TypeInv
<1>5. ASSUME NEW e \in sync.rest, SyncPush(e) PROVE TypeInv'
  <2>1. SyncTyped'
    BY <1>1, <1>2, <1>5 DEF SyncPush, SyncTyped
  <2>2. e \in Entry /\ current \in Seq(Entry) /\ known
    BY <1>2, <1>5 DEF TypeInv, CurrentTyped, SyncPush
  <2>3. CurrentTyped'
    BY <1>5, <2>2, ElementsOf DEF SyncPush, CurrentTyped
  <2>. QED
    BY <1>5, <2>1, <2>3, TypeFrames DEF SyncPush, TypeInv
<1>6. CASE SyncAborts
  <2>1. SyncTyped'
    BY <1>1, <1>6 DEF SyncAborts, SyncTyped
  <2>. QED
    BY <1>6, <2>1, TypeFrames DEF SyncAborts, TypeInv
<1>. QED
  BY <1>3, <1>4, <1>5, <1>6 DEF Sync

LEMMA HealthRestartTyped == ASSUME TypeInv, HealthRestart PROVE TypeInv'
<1>1. ASSUME NEW r \in Answers, HealthStop(r) \/ HealthRemove(r) PROVE TypeInv'
  <2>1. EngineTyped' /\ HealthTyped'
    BY <1>1, HealthCallHolds
  <2>. QED
    BY <1>1, <2>1, TypeFrames DEF HealthStop, HealthRemove, HealthCall, TypeInv
<1>2. ASSUME NEW r \in Answers, HealthStart(r) PROVE TypeInv'
  BY <1>2, HealthStartHolds, TypeFrames DEF HealthStart, TypeInv
<1>3. CASE HealthStarted
  <2>1. /\ health.entry \in Entry /\ health.id \in Ids /\ health.entry.svc \in Services
        /\ health.entry.image \in Images /\ health.entry.state \in States
    BY <1>3 DEF HealthStarted, TypeInv, HealthTyped, Entry
  <2>2. Without(health.entry.svc) \in Seq(Entry)
    BY WithoutIs DEF TypeInv
  <2>3. CurrentTyped'
    BY <1>3, <2>1, <2>2, AddKeeps DEF HealthStarted
  <2>4. HealthTyped'
    BY <1>3, NoHealthTyped DEF HealthStarted
  <2>. QED
    BY <1>3, <2>3, <2>4, TypeFrames DEF HealthStarted, TypeInv
<1>. QED
  BY <1>1, <1>2, <1>3 DEF HealthRestart

LEMMA EnvironmentTyped == ASSUME TypeInv, Environment PROVE TypeInv'
<1>1. ASSUME NEW s \in Services, NEW t \in Target, SetTarget(s, t) PROVE TypeInv'
  <2>1. target' \in [Services -> Target]
    BY <1>1 DEF SetTarget, TypeInv
  <2>. QED
    BY <1>1, <2>1, TypeFrames DEF SetTarget, TypeInv
<1>2. CASE Refuse
  <2>1. PlanTyped /\ plan # <<>> /\ plan' = plan /\ reply' = [r |-> "error", id |-> 0]
    BY <1>2 DEF Refuse, TypeInv
  <2>2. reply' \in [r: Answers \cup {"none"}, id: Ids \cup {0}] /\ reply'.r = "error"
    BY <2>1 DEF Answers
  <2>3. PlanTyped'
    BY <2>1, <2>2 DEF PlanTyped
  <2>. QED
    BY <1>2, <2>3, TypeFrames DEF Refuse, TypeInv
<1>3. CASE FailToStart
  BY <1>3, FailToStartHolds, TypeFrames DEF FailToStart, TypeInv
<1>4. CASE Restart
  <2>1. CurrentTyped'
    BY <1>4, ListingIs DEF Restart, CurrentTyped, TypeInv
  <2>2. PlanTyped'
    <3>1. NoReply \in [r: Answers \cup {"none"}, id: Ids \cup {0}]
      BY DEF NoReply
    <3>. QED
      BY <1>4, <3>1 DEF Restart, PlanTyped
  <2>3. SyncTyped' /\ HealthTyped'
    BY <1>4, NoHealthTyped DEF Restart, SyncTyped, NoSync
  <2>4. RetryTyped'
    BY <1>4, BoundsAssumption DEF Restart, RetryTyped
  <2>. QED
    BY <1>4, <2>1, <2>2, <2>3, <2>4, TypeFrames DEF Restart, TypeInv
<1>5. ASSUME NEW e \in ToSet(current), LivenessFailed(e) PROVE TypeInv'
  <2>1. e \in Entry
    BY ElementsOf DEF TypeInv, CurrentTyped
  <2>2. health' = [pc |-> "stop", entry |-> e, shared |-> TRUE, id |-> 0]
    BY <1>5 DEF LivenessFailed
  <2>3. e \in [svc: Services \cup {"none"}, id: Ids \cup {0}, image: Images \cup {"none"},
               state: States, down: BOOLEAN]
    BY <2>1 DEF Entry
  <2>4. HealthTyped'
    BY <2>1, <2>2, <2>3 DEF HealthTyped
  <2>. QED
    BY <1>5, <2>4, TypeFrames DEF LivenessFailed, TypeInv
<1>6. ASSUME NEW s \in Services, Die(s) \/ Revive(s) PROVE TypeInv'
  <2>1. EngineTyped'
    BY <1>6, CallKeeps DEF Die, Revive, TypeInv
  <2>. QED
    BY <1>6, <2>1, TypeFrames DEF Die, Revive, manager, TypeInv
<1>. QED
  BY <1>1, <1>2, <1>3, <1>4, <1>5, <1>6 DEF Environment

LEMMA TypeInvInit == ASSUME ManagerInit PROVE TypeInv
<1>1. /\ docker = [s \in Services |->
                     IF Deployed[s].image = "none" THEN NoContainer
                     ELSE [id |-> 1, image |-> Deployed[s].image, status |-> "running"]]
      /\ images = {Deployed[s].image : s \in Services} \ {"none"}
  BY DEF ManagerInit, EngineInit
<1>2. ASSUME NEW s \in Services
      PROVE  /\ Deployed[s] \in Target
             /\ Deployed[s].image # "none" => Deployed[s].image \in Images
  BY DeployedAssumption DEF Target, Absent, States
<1>3. EngineTyped
  <2>1. 1 \in Ids
    BY BoundsAssumption DEF Ids
  <2>2. images \subseteq Images
    BY <1>1, <1>2
  <2>3. ASSUME NEW s \in Services
        PROVE  /\ docker[s] \in [id: Ids \cup {0}, image: Images \cup {"none"}, status: Statuses]
               /\ docker[s].status # "none" => docker[s].id \in Ids /\ docker[s].image \in Images
    <3>1. CASE Deployed[s].image = "none"
      BY <1>1, <3>1 DEF NoContainer, Statuses
    <3>2. CASE Deployed[s].image # "none"
      BY <1>1, <1>2, <2>1, <3>2 DEF Statuses
    <3>. QED
      BY <3>1, <3>2
  <2>. QED
    BY <1>1, <2>2, <2>3 DEF EngineTyped
<1>4. CurrentTyped
  BY <1>3, ListingIs DEF ManagerInit, CurrentTyped
<1>5. PlanTyped
  <2>1. NoReply \in [r: Answers \cup {"none"}, id: Ids \cup {0}]
    BY DEF NoReply
  <2>. QED
    BY <2>1 DEF ManagerInit, PlanTyped
<1>6. SyncTyped
  BY DEF ManagerInit, SyncTyped, NoSync
<1>7. RetryTyped
  BY BoundsAssumption DEF ManagerInit, RetryTyped
<1>8. HealthTyped
  BY DEF ManagerInit, HealthTyped, NoHealth, NoEntry, States
<1>9. target \in [Services -> Target]
  <2>1. target = Deployed /\ Deployed = [s \in Services |-> Deployed[s]]
    BY DeployedAssumption DEF ManagerInit
  <2>. QED
    BY <1>2, <2>1
<1>. QED
  BY <1>3, <1>4, <1>5, <1>6, <1>7, <1>8, <1>9 DEF TypeInv

LEMMA TypeInvNext == ASSUME TypeInv, [Next]_vars PROVE TypeInv'
<1>1. CASE ApplyTargetState
  <2>1. plan' \in Seq(Planned) /\ plan' # <<>>
    BY <1>1, PlansTyped DEF ApplyTargetState
  <2>2. reply' = NoReply /\ NoReply.r = "none"
        /\ reply' \in [r: Answers \cup {"none"}, id: Ids \cup {0}]
    BY <1>1 DEF ApplyTargetState, TypeInv, PlanTyped, NoReply
  <2>3. PlanTyped'
    BY <2>1, <2>2 DEF PlanTyped
  <2>. QED
    BY <1>1, <2>3, TypeFrames DEF ApplyTargetState, TypeInv
<1>2. ASSUME NEW i \in Images, BackoffElapses(i) PROVE TypeInv'
  <2>1. RetryTyped'
    BY <1>2 DEF BackoffElapses, RetryTyped, TypeInv
  <2>. QED
    BY <1>2, <2>1, TypeFrames DEF BackoffElapses, TypeInv
<1>3. CASE UNCHANGED vars
  BY <1>3, TypeFrames DEF vars, manager, TypeInv
<1>. QED
  BY <1>1, <1>2, <1>3, CarryOutTyped, SyncStepTyped, HealthRestartTyped, EnvironmentTyped
  DEF Next

\* Every variable keeps its shape, and an app that currentState has dropped has
\* no services left (removeServiceFromCurrentState).
THEOREM TypeCorrect == Spec => []TypeOK
<1>1. Spec => []TypeInv
  BY TypeInvInit, TypeInvNext, PTL DEF Spec
<1>2. TypeInv => TypeOK
  BY ElementsOf DEF TypeInv, TypeOK, EngineTyped, CurrentTyped, PlanTyped, SyncTyped,
     RetryTyped, HealthTyped
<1>. QED
  BY <1>1, <1>2, PTL
-----------------------------------------------------------------------------
(***************************************************************************)
(* Truth                                                                   *)
(***************************************************************************)
ClaimNext(s, id, image) ==
  docker'[s].status # "none" /\ docker'[s].id = id => docker'[s].image = image

\* A claim on an id in use survives what the engine does.
LEMMA ClaimKept ==
  ASSUME Moved, NEW s \in Services, NEW id \in UsedIds(s), NEW image, Claim(s, id, image)
  PROVE  ClaimNext(s, id, image)
<1>1. CASE Kept(s)
  BY <1>1 DEF Kept, Claim, ClaimNext
<1>2. CASE docker'[s].id \in FreeIds(s)
  BY <1>2 DEF FreeIds, ClaimNext
<1>. QED
  BY <1>1, <1>2 DEF Moved

LEMMA ClaimsKept ==
  ASSUME TypeInv, Truth, Moved
  PROVE  /\ \A e \in ToSet(current) \cup sync.rest : ClaimNext(e.svc, e.id, e.image)
         /\ plan # <<>> /\ Head(plan).op = "start" /\ reply.r = "ok" =>
              ClaimNext(Head(plan).svc, reply.id, Head(plan).image)
         /\ health.pc # "idle" =>
              ClaimNext(health.entry.svc, health.entry.id, health.entry.image)
         /\ health.pc = "started" =>
              ClaimNext(health.entry.svc, health.id, health.entry.image)
<1>1. ASSUME NEW e \in ToSet(current) \cup sync.rest PROVE ClaimNext(e.svc, e.id, e.image)
  <2>1. e.svc \in Services
    <3>1. ToSet(current) \subseteq Entry /\ sync.rest \subseteq Entry
      BY ElementsOf DEF TypeInv, CurrentTyped, SyncTyped
    <3>. QED
      BY <3>1 DEF Entry
  <2>2. e.id \in UsedIds(e.svc)
    BY DEF UsedIds
  <2>3. Claim(e.svc, e.id, e.image)
    BY DEF Truth, CurrentTrue, SyncTrue
  <2>. QED
    BY <2>1, <2>2, <2>3, ClaimKept
<1>2. ASSUME plan # <<>>, Head(plan).op = "start", reply.r = "ok"
      PROVE  ClaimNext(Head(plan).svc, reply.id, Head(plan).image)
  <2>1. Head(plan).svc \in Services
    BY <1>2, StepsLeft DEF TypeInv
  <2>2. reply.id \in UsedIds(Head(plan).svc)
    BY <1>2 DEF UsedIds
  <2>3. Claim(Head(plan).svc, reply.id, Head(plan).image)
    BY <1>2 DEF Truth, ReplyTrue
  <2>. QED
    BY <2>1, <2>2, <2>3, ClaimKept
<1>3. ASSUME health.pc # "idle"
      PROVE  /\ ClaimNext(health.entry.svc, health.entry.id, health.entry.image)
             /\ health.pc = "started" =>
                  ClaimNext(health.entry.svc, health.id, health.entry.image)
  <2>1. health.entry.svc \in Services
    BY <1>3 DEF TypeInv, HealthTyped, Entry
  <2>2. health.entry.id \in UsedIds(health.entry.svc) /\ health.id \in UsedIds(health.entry.svc)
    BY DEF UsedIds
  <2>. QED
    BY <1>3, <2>1, <2>2, ClaimKept DEF Truth, HealthTrue
<1>. QED
  BY <1>1, <1>2, <1>3

LEMMA TruthFrames ==
  ASSUME TypeInv, Truth, Moved
  PROVE  /\ (\A d \in ToSet(current') : \E e \in ToSet(current) \cup sync.rest : Alike(d, e))
              => CurrentTrue'
         /\ UNCHANGED current => CurrentTrue'
         /\ ToSet(current') \subseteq ToSet(current) => CurrentTrue'
         /\ sync'.rest \subseteq sync.rest => SyncTrue'
         /\ UNCHANGED <<plan, reply>> => ReplyTrue'
         /\ reply'.r # "ok" => ReplyTrue'
         /\ /\ Alike(health'.entry, health.entry)
            /\ health'.pc # "idle" => health.pc # "idle"
            /\ health'.pc = "started" => health.pc = "started" /\ health'.id = health.id
            => HealthTrue'
         /\ UNCHANGED health => HealthTrue'
         /\ health' = NoHealth => HealthTrue'
<1>1. \A e \in ToSet(current) \cup sync.rest : ClaimNext(e.svc, e.id, e.image)
  BY ClaimsKept
<1>2. (\A d \in ToSet(current') : \E e \in ToSet(current) \cup sync.rest : Alike(d, e))
        => CurrentTrue'
  BY <1>1 DEF CurrentTrue, Alike, Claim, ClaimNext
<1>3. /\ UNCHANGED current => CurrentTrue'
      /\ ToSet(current') \subseteq ToSet(current) => CurrentTrue'
      /\ sync'.rest \subseteq sync.rest => SyncTrue'
  BY <1>1 DEF CurrentTrue, SyncTrue, Claim, ClaimNext
<1>4. UNCHANGED <<plan, reply>> => ReplyTrue'
  BY ClaimsKept DEF ReplyTrue, Claim, ClaimNext
<1>5. reply'.r # "ok" => ReplyTrue'
  BY DEF ReplyTrue
<1>6. ASSUME /\ Alike(health'.entry, health.entry)
             /\ health'.pc # "idle" => health.pc # "idle"
             /\ health'.pc = "started" => health.pc = "started" /\ health'.id = health.id
      PROVE  HealthTrue'
  BY <1>6, ClaimsKept DEF HealthTrue, Alike, Claim, ClaimNext
<1>7. UNCHANGED health => HealthTrue'
  BY <1>6 DEF Alike
<1>8. health' = NoHealth => HealthTrue'
  BY DEF HealthTrue, NoHealth
<1>. QED
  BY <1>2, <1>3, <1>4, <1>5, <1>6, <1>7, <1>8

LEMMA EngineAtRest == ASSUME UNCHANGED docker PROVE Moved
BY DEF Moved, Kept

LEMMA CarryOutTrue == ASSUME TypeInv, Truth, CarryOut PROVE Truth'
<1>0. reply' = NoReply => reply'.r # "ok"
  BY DEF NoReply
<1>1. CASE SkipDownload \/ RecreateLost
  <2>1. Moved /\ reply'.r # "ok" /\ UNCHANGED <<current, sync, health>>
    BY <1>0, <1>1, EngineAtRest DEF SkipDownload, RecreateLost, Due, engine
  <2>. QED
    BY <2>1, TruthFrames DEF Truth
<1>2. ASSUME NEW r \in Answers, Download(r) PROVE Truth'
  <2>1. Moved /\ reply'.r # "ok" /\ UNCHANGED <<current, sync, health>>
    BY <1>0, <1>2, DownloadHolds DEF Download, Due
  <2>. QED
    BY <2>1, TruthFrames DEF Truth
<1>3. ASSUME NEW r \in Answers, Perform(r) PROVE Truth'
  <2>1. Moved /\ UNCHANGED <<current, sync, health, plan>> /\ reply'.r = r
    BY <1>3, PerformHolds DEF Perform, Answered
  <2>2. ReplyTrue'
    BY <1>3, <2>1, PerformHolds DEF ReplyTrue, Claim
  <2>. QED
    BY <2>1, <2>2, TruthFrames DEF Truth
<1>4. ASSUME NEW r \in Answers, Recreate(r) PROVE Truth'
  <2>1. Moved /\ UNCHANGED <<current, sync, health>> /\ Head(plan').op = "recreate"
    BY <1>4, RecreateHolds DEF Recreate
  <2>2. ReplyTrue'
    BY <2>1 DEF ReplyTrue
  <2>. QED
    BY <2>1, <2>2, TruthFrames DEF Truth
<1>5. CASE StepFailed
  <2>1. Moved /\ reply'.r # "ok" /\ UNCHANGED <<current, sync, health>>
    BY <1>0, <1>5, EngineAtRest DEF StepFailed, Finish, engine
  <2>. QED
    BY <2>1, TruthFrames DEF Truth
<1>6. CASE Stopped \/ Paused \/ Unpaused
  <2>1. Moved /\ reply'.r # "ok" /\ UNCHANGED sync /\ known' = known
    BY <1>0, <1>6, EngineAtRest DEF Stopped, Paused, Unpaused, Finish, engine
  <2>2. PICK state \in States : UpdateServiceState(Head(plan).svc, state)
    BY <1>6 DEF Stopped, Paused, Unpaused, States
  <2>3. /\ \A d \in ToSet(current') : \E e \in ToSet(current) : Alike(d, e)
        /\ health'.pc = health.pc /\ health'.id = health.id
        /\ Alike(health'.entry, health.entry)
    BY <2>1, <2>2, UpdateKeeps DEF TypeInv
  <2>. QED
    BY <2>1, <2>3, TruthFrames DEF Truth
<1>7. CASE Removed \/ Recreated
  <2>1. Moved /\ reply'.r # "ok" /\ UNCHANGED <<sync, health>>
    BY <1>0, <1>7, EngineAtRest DEF Removed, Recreated, Finish, engine
  <2>2. ToSet(current') \subseteq ToSet(current)
    BY <1>7, RemoveKeeps DEF Removed, Recreated, TypeInv
  <2>. QED
    BY <2>1, <2>2, TruthFrames DEF Truth
<1>8. CASE Started
  <2>1. Moved /\ reply'.r # "ok" /\ UNCHANGED <<docker, sync, health>>
    BY <1>0, <1>8, EngineAtRest DEF Started, Finish, engine
  <2>2. /\ plan # <<>> /\ Head(plan).op = "start" /\ reply.r = "ok"
        /\ AddService(current, Head(plan), reply.id) /\ PlanTyped /\ current \in Seq(Entry)
    BY <1>8 DEF Started, Succeeded, TypeInv, CurrentTyped
  <2>3. /\ reply.id \in Ids /\ Head(plan).svc \in Services
        /\ Head(plan).image \in Images /\ Head(plan).state \in States
    <3>1. Head(plan) \in Planned /\ Head(plan).svc \in Services
      BY <2>2, StepsLeft
    <3>. QED
      BY <2>2, <3>1 DEF PlanTyped, Planned
  <2>4. \A d \in ToSet(current') :
          \/ d \in ToSet(current)
          \/ d.svc = Head(plan).svc /\ d.id = reply.id /\ d.image = Head(plan).image
    BY <2>2, <2>3, AddKeeps
  <2>5. Claim(Head(plan).svc, reply.id, Head(plan).image)
    BY <2>2 DEF Truth, ReplyTrue
  <2>6. CurrentTrue'
    BY <2>1, <2>4, <2>5 DEF CurrentTrue, Claim, Truth
  <2>. QED
    BY <2>1, <2>6, TruthFrames DEF Truth
<1>. QED
  BY <1>1, <1>2, <1>3, <1>4, <1>5, <1>6, <1>7, <1>8 DEF CarryOut

\* What a rebuild reads of the engine is true when it reads it.
LEMMA ListingTrue ==
  ASSUME NEW e \in Listing
  PROVE  Claim(e.svc, e.id, e.image)
BY DEF Listing, Seen, Claim

LEMMA SyncStepTrue == ASSUME TypeInv, Truth, Sync PROVE Truth'
<1>1. CASE SyncList
  <2>1. /\ Moved /\ UNCHANGED <<docker, current, plan, reply, health>>
        /\ sync'.rest = Listing
    BY <1>1, EngineAtRest DEF SyncList, engine
  <2>2. SyncTrue'
    BY <2>1, ListingTrue DEF SyncTrue, Claim
  <2>. QED
    BY <2>1, <2>2, TruthFrames DEF Truth
<1>2. CASE SyncReset
  <2>1. /\ Moved /\ UNCHANGED <<plan, reply>> /\ current' = <<>>
        /\ sync'.rest \subseteq sync.rest
    BY <1>2, EngineAtRest DEF SyncReset, engine, NoSync, TypeInv, SyncTyped
  <2>2. ToSet(current') \subseteq ToSet(current)
    BY <2>1 DEF ToSet
  <2>3. health' = [health EXCEPT !.shared = FALSE] /\ HealthTyped
    BY <1>2 DEF SyncReset, TypeInv
  <2>4. health'.pc = health.pc /\ health'.id = health.id /\ Alike(health'.entry, health.entry)
    BY <2>3 DEF Alike, HealthTyped
  <2>. QED
    BY <2>1, <2>2, <2>4, TruthFrames DEF Truth
<1>3. ASSUME NEW e \in sync.rest, SyncPush(e) PROVE Truth'
  <2>1. /\ Moved /\ UNCHANGED <<plan, reply, health>> /\ current' = Append(current, e)
        /\ sync'.rest \subseteq sync.rest
    BY <1>3, EngineAtRest DEF SyncPush, engine, NoSync, TypeInv, SyncTyped
  <2>2. e \in Entry /\ current \in Seq(Entry)
    BY DEF TypeInv, SyncTyped, CurrentTyped
  <2>3. ToSet(current') = ToSet(current) \cup {e}
    BY <2>1, <2>2, ElementsOf
  <2>4. \A d \in ToSet(current') : \E f \in ToSet(current) \cup sync.rest : Alike(d, f)
    BY <2>3 DEF Alike
  <2>. QED
    BY <2>1, <2>4, TruthFrames DEF Truth
<1>4. CASE SyncAborts
  <2>1. Moved /\ UNCHANGED <<current, plan, reply, health>> /\ sync'.rest \subseteq sync.rest
    BY <1>4, EngineAtRest DEF SyncAborts, engine, NoSync
  <2>. QED
    BY <2>1, TruthFrames DEF Truth
<1>. QED
  BY <1>1, <1>2, <1>3, <1>4 DEF Sync

LEMMA HealthRestartTrue == ASSUME TypeInv, Truth, HealthRestart PROVE Truth'
<1>1. ASSUME NEW r \in Answers, HealthStop(r) \/ HealthRemove(r) PROVE Truth'
  <2>1. /\ Moved /\ UNCHANGED <<current, plan, reply, sync>>
        /\ health' = NoHealth \/ (/\ health'.entry = health.entry
                                  /\ health.pc # "idle" /\ health'.pc # "started")
    BY <1>1, HealthCallHolds DEF HealthStop, HealthRemove, HealthCall
  <2>. QED
    BY <2>1, TruthFrames DEF Truth, Alike
<1>2. ASSUME NEW r \in Answers, HealthStart(r) PROVE Truth'
  <2>1. /\ Moved /\ UNCHANGED <<current, plan, reply, sync>>
        /\ \/ health' = NoHealth
           \/ /\ health'.entry = health.entry /\ health.pc # "idle"
              /\ docker'[health.entry.svc].image = health.entry.image
    BY <1>2, HealthStartHolds DEF HealthStart
  <2>2. HealthTrue'
    <3>1. CASE health' = NoHealth
      BY <2>1, <3>1, TruthFrames
    <3>2. CASE health' # NoHealth
      BY <2>1, <3>2 DEF HealthTrue, Claim
    <3>. QED
      BY <3>1, <3>2
  <2>. QED
    BY <2>1, <2>2, TruthFrames DEF Truth
<1>3. CASE HealthStarted
  <2> DEFINE e == health.entry
             base == Without(e.svc)
  <2>1. /\ Moved /\ UNCHANGED <<docker, plan, reply, sync>> /\ health' = NoHealth
        /\ health.pc = "started" /\ AddService(base, e, health.id)
    BY <1>3, EngineAtRest DEF HealthStarted, engine
  <2>2. /\ e \in Entry /\ health.id \in Ids /\ e.svc \in Services
        /\ e.image \in Images /\ e.state \in States
    BY <2>1 DEF TypeInv, HealthTyped, Entry
  <2>3. base \in Seq(Entry) /\ ToSet(base) \subseteq ToSet(current)
    BY WithoutIs DEF TypeInv
  <2>4. Claim(e.svc, health.id, e.image)
    BY <2>1 DEF Truth, HealthTrue
  <2> HIDE DEF base, e
  <2>5. \A d \in ToSet(current') :
          d \in ToSet(base) \/ (d.svc = e.svc /\ d.id = health.id /\ d.image = e.image)
    BY <2>1, <2>2, <2>3, AddKeeps
  <2>6. CurrentTrue'
    BY <2>1, <2>3, <2>4, <2>5 DEF CurrentTrue, Claim, Truth
  <2>. QED
    BY <2>1, <2>6, TruthFrames DEF Truth
<1>. QED
  BY <1>1, <1>2, <1>3 DEF HealthRestart

LEMMA EnvironmentTrue == ASSUME TypeInv, Truth, Environment PROVE Truth'
<1>1. ASSUME NEW s \in Services, NEW t \in Target, SetTarget(s, t) PROVE Truth'
  BY <1>1, EngineAtRest, TruthFrames DEF SetTarget, engine, Truth
<1>2. CASE Refuse
  <2>1. Moved /\ reply'.r # "ok" /\ UNCHANGED <<current, sync, health>>
    BY <1>2, EngineAtRest DEF Refuse, engine
  <2>. QED
    BY <2>1, TruthFrames DEF Truth
<1>3. CASE FailToStart
  <2>1. Moved /\ reply'.r # "ok" /\ UNCHANGED <<current, sync, health>>
    BY <1>3, FailToStartHolds DEF FailToStart
  <2>. QED
    BY <2>1, TruthFrames DEF Truth
<1>4. CASE Restart
  <2>1. /\ Moved /\ reply'.r # "ok" /\ health' = NoHealth /\ sync'.rest \subseteq sync.rest
        /\ current' = SetToSeq(Listing) /\ UNCHANGED docker
    BY <1>4, EngineAtRest DEF Restart, engine, NoReply, NoSync
  <2>2. ToSet(current') \subseteq Listing
    BY <2>1, ListingIs DEF TypeInv
  <2>3. CurrentTrue'
    BY <2>1, <2>2, ListingTrue DEF CurrentTrue, Claim
  <2>. QED
    BY <2>1, <2>3, TruthFrames DEF Truth
<1>5. ASSUME NEW e \in ToSet(current), LivenessFailed(e) PROVE Truth'
  <2>1. /\ Moved /\ UNCHANGED <<docker, current, plan, reply, sync>>
        /\ health'.entry = e /\ health'.pc = "stop"
    BY <1>5, EngineAtRest DEF LivenessFailed, engine
  <2>2. HealthTrue'
    BY <2>1 DEF HealthTrue, Claim, Truth, CurrentTrue
  <2>. QED
    BY <2>1, <2>2, TruthFrames DEF Truth
<1>6. ASSUME NEW s \in Services, Die(s) \/ Revive(s) PROVE Truth'
  <2>1. Moved /\ UNCHANGED <<current, plan, reply, sync, health>>
    BY <1>6, CallKeeps DEF Die, Revive, manager, TypeInv, Moved
  <2>. QED
    BY <2>1, TruthFrames DEF Truth
<1>. QED
  BY <1>1, <1>2, <1>3, <1>4, <1>5, <1>6 DEF Environment

LEMMA TruthInit == ASSUME ManagerInit, TypeInv PROVE Truth
<1>1. ToSet(current) \subseteq Listing
  BY ListingIs DEF ManagerInit, TypeInv
<1>. QED
  BY <1>1, ListingTrue DEF ManagerInit, Truth, CurrentTrue, SyncTrue, ReplyTrue, HealthTrue,
     NoSync, NoReply, NoHealth

LEMMA TruthNext == ASSUME TypeInv, Truth, [Next]_vars PROVE Truth'
<1>1. CASE ApplyTargetState
  <2>1. Moved /\ reply'.r # "ok" /\ UNCHANGED <<current, sync, health>>
    <3>1. plan = <<>> /\ reply' = reply /\ reply = NoReply
      BY <1>1 DEF ApplyTargetState, TypeInv, PlanTyped
    <3>. QED
      BY <1>1, <3>1, EngineAtRest DEF ApplyTargetState, engine, NoReply
  <2>. QED
    BY <2>1, TruthFrames DEF Truth
<1>2. ASSUME NEW i \in Images, BackoffElapses(i) PROVE Truth'
  BY <1>2, EngineAtRest, TruthFrames DEF BackoffElapses, engine, Truth
<1>3. CASE UNCHANGED vars
  BY <1>3, EngineAtRest, TruthFrames DEF vars, manager, engine, Truth
<1>. QED
  BY <1>1, <1>2, <1>3, CarryOutTrue, SyncStepTrue, HealthRestartTrue, EnvironmentTrue
  DEF Next

LEMMA ManagerInvariant == Spec => []ManagerInv
<1>1. ManagerInit => ManagerInv
  BY TypeInvInit, TruthInit DEF ManagerInv
<1>2. ManagerInv /\ [Next]_vars => ManagerInv'
  BY TypeInvNext, TruthNext DEF ManagerInv
<1>. QED
  BY <1>1, <1>2, PTL DEF Spec

\* What currentState says of a container that exists is true of it, however
\* rebuilds, steps and liveness restarts of any number of services interleave.
THEOREM EntriesTruthfulCorrect == Spec => []EntriesTruthful
<1>1. ManagerInv => EntriesTruthful
  BY TruthImplies DEF ManagerInv
<1>. QED
  BY <1>1, ManagerInvariant, PTL

\* No reconciliation sets out to stop or freeze a container that runs the image
\* its target asks for, unless a rebuild saw it dead.
THEOREM SparesHealthyCorrect == Spec => []SparesHealthy
<1>1. ManagerInv => SparesHealthy
  BY TruthImplies, ImpliesSparesHealthy DEF ManagerInv
<1>. QED
  BY <1>1, ManagerInvariant, PTL

\* When currentState mirrors the engine and calculateSteps finds nothing to do,
\* every service is as its target says, but for the exemptions named.
THEOREM NothingToDoIsDoneCorrect == Spec => []NothingToDoIsDone
<1>1. ManagerInv => NothingToDoIsDone
  BY ImpliesNothingToDoIsDone DEF ManagerInv
<1>. QED
  BY <1>1, ManagerInvariant, PTL
=============================================================================
