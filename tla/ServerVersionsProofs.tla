----------------------- MODULE ServerVersionsProofs -----------------------
(***************************************************************************)
(* Theorems about ServerVersions, for any servers, any width of a version, *)
(* any window below 2^Width and any number of batches: versions may wrap   *)
(* around any number of times.                                             *)
(***************************************************************************)
EXTENDS ServerVersions, FiniteSetTheorems, SequenceTheorems, WellFoundedInduction, TLAPS

-----------------------------------------------------------------------------
(* Arithmetic modulo 2^Width.                                              *)
LEMMA ModulusType == Modulus \in Nat \ {0} /\ MaxPending \in 1 .. Modulus - 1
<1>1. Modulus \in Int
  BY ServerVersionsAssumption DEF Modulus
<1>. QED
  BY <1>1, ServerVersionsAssumption

LEMMA SameQuotient ==
  ASSUME NEW M \in Nat \ {0}, NEW q \in Int, NEW p \in Int,
         NEW a \in 0 .. M - 1, NEW b \in 0 .. M - 1, M * q + a = M * p + b
  PROVE  q = p /\ a = b
<1>1. M * (q - p) = b - a
  OBVIOUS
<1>2. q - p >= 1 => M * (q - p) >= M
  OBVIOUS
<1>3. q - p <= -1 => M * (q - p) <= -M
  OBVIOUS
<1>4. q = p
  BY <1>1, <1>2, <1>3
<1>. QED
  BY <1>4

LEMMA Division ==
  ASSUME NEW M \in Nat \ {0}, NEW x \in Int
  PROVE  x \div M \in Int /\ x % M \in 0 .. M - 1 /\ x = M * (x \div M) + (x % M)
OBVIOUS

LEMMA Divided ==
  ASSUME NEW M \in Nat \ {0}, NEW q \in Int, NEW a \in 0 .. M - 1
  PROVE  (M * q + a) \div M = q /\ (M * q + a) % M = a
<1> DEFINE x == M * q + a
<1>1. x \in Int
  OBVIOUS
<1>2. x \div M \in Int /\ x % M \in 0 .. M - 1 /\ x = M * (x \div M) + (x % M)
  BY <1>1, Division
<1>. QED
  BY <1>2, SameQuotient

(* The version of a batch less than 2^Width before another.                *)
LEMMA Before ==
  ASSUME NEW x \in Int, NEW d \in 0 .. Modulus - 1
  PROVE  /\ Version(x) \in 0 .. Modulus - 1 /\ x \div Modulus \in Int
         /\ Version(x - d) = IF d <= Version(x) THEN Version(x) - d
                                                ELSE Version(x) - d + Modulus
         /\ (x - d) \div Modulus = IF d <= Version(x) THEN x \div Modulus
                                                      ELSE (x \div Modulus) - 1
<1> DEFINE M == Modulus
           q == x \div M
           r == x % M
<1>1. M \in Nat \ {0}
  BY ModulusType
<1>2. q \in Int /\ r \in 0 .. M - 1 /\ x = M * q + r
  BY <1>1, Division
<1> HIDE DEF q, r, M
<1>3. CASE d <= r
  <2>1. r - d \in 0 .. M - 1 /\ x - d = M * q + (r - d)
    BY <1>1, <1>2, <1>3 DEF M
  <2>2. (x - d) \div M = q /\ (x - d) % M = r - d
    <3>1. \A a \in 0 .. M - 1 : (M * q + a) \div M = q /\ (M * q + a) % M = a
      BY <1>1, <1>2, Divided
    <3>2. (M * q + (r - d)) \div M = q /\ (M * q + (r - d)) % M = r - d
      BY <2>1, <3>1
    <3>. QED
      BY <2>1, <3>2
  <2>. QED
    BY <1>2, <1>3, <2>2 DEF Version, M, q, r
<1>4. CASE d > r
  <2>1. r - d + M \in 0 .. M - 1
    BY <1>1, <1>2, <1>4 DEF M
  <2>2. x - d = M * (q - 1) + (r - d + M)
    <3>1. M * (q - 1) = M * q - M
      BY <1>1, <1>2
    <3>. QED
      BY <1>1, <1>2, <3>1 DEF M
  <2>3. (x - d) \div M = q - 1 /\ (x - d) % M = r - d + M
    <3>1. \A a \in 0 .. M - 1 : /\ (M * (q - 1) + a) \div M = q - 1
                              /\ (M * (q - 1) + a) % M = a
      BY <1>1, <1>2, Divided
    <3>2. /\ (M * (q - 1) + (r - d + M)) \div M = q - 1
          /\ (M * (q - 1) + (r - d + M)) % M = r - d + M
      BY <2>1, <3>1
    <3>. QED
      BY <2>2, <3>2
  <2>. QED
    BY <1>1, <1>2, <1>4, <2>3 DEF Version, M, q, r
<1>. QED
  BY <1>2, <1>3, <1>4 DEF M

LEMMA NextVersion ==
  ASSUME NEW x \in Int
  PROVE  (Version(x) + 1) % Modulus = Version(x + 1)
<1> DEFINE M == Modulus
           q == (x + 1) \div M
           r == (x + 1) % M
<1>1. M \in Nat \ {0} /\ 1 \in 0 .. M - 1
  BY ModulusType
<1>2. q \in Int /\ r \in 0 .. M - 1
  BY <1>1, Division
<1>3. Version(x) = IF 1 <= r THEN r - 1 ELSE r - 1 + M
  <2>1. Version((x + 1) - 1) = IF 1 <= Version(x + 1) THEN Version(x + 1) - 1
                                                      ELSE Version(x + 1) - 1 + M
    <3>1. \A y \in Int : \A d \in 0 .. Modulus - 1 :
             Version(y - d) = IF d <= Version(y) THEN Version(y) - d
                                                 ELSE Version(y) - d + Modulus
      BY Before
    <3>2. x + 1 \in Int /\ 1 \in 0 .. Modulus - 1
      BY <1>1
    <3>. QED
      BY <3>1, <3>2
  <2>2. (x + 1) - 1 = x
    OBVIOUS
  <2>. QED
    BY <2>1, <2>2 DEF Version
<1>4. Version(x + 1) = r
  BY DEF Version
<1> HIDE DEF M, q, r
<1>5. Version(x) + 1 = M * 0 + r \/ Version(x) + 1 = M * 1 + r
  BY <1>1, <1>2, <1>3
<1>6. (M * 0 + r) % M = r /\ (M * 1 + r) % M = r
  BY <1>1, <1>2, Divided
<1>. QED
  BY <1>4, <1>5, <1>6 DEF M
-----------------------------------------------------------------------------
(* Minima of finite sets of integers.                                      *)
LEMMA FiniteHasLeast ==
  ASSUME NEW S, S \subseteq Int, S # {}, IsFiniteSet(S)
  PROVE  \E x \in S : \A y \in S : x <= y
<1> DEFINE Bad == { T \in SUBSET S : T # {} /\ ~\E x \in T : \A y \in T : x <= y }
<1>1. SUFFICES ASSUME Bad # {} PROVE FALSE
  OBVIOUS
<1>2. Bad \subseteq FiniteSubsetsOf(S)
  BY FS_FiniteSubsetsOfFinite
<1>3. PICK T \in Bad : \A U \in Bad : <<U, T>> \notin StrictSubsetOrdering(S)
  BY <1>1, <1>2, FS_StrictSubsetOrderingWellFounded, WFMin
<1>4. PICK x \in T : TRUE
  OBVIOUS
<1>5. T \ {x} \notin Bad
  BY <1>3, <1>4 DEF StrictSubsetOrdering
<1>6. CASE T \ {x} = {}
  BY <1>4, <1>6
<1>7. CASE T \ {x} # {}
  <2>1. PICK m \in T \ {x} : \A y \in T \ {x} : m <= y
    BY <1>5, <1>7
  <2>2. x \in Int /\ m \in Int /\ \A y \in T : y \in Int
    BY <1>4
  <2>3. (\A y \in T : m <= y) \/ (\A y \in T : x <= y)
    BY <2>1, <2>2
  <2>. QED
    BY <2>1, <2>3, <1>4
<1>. QED
  BY <1>6, <1>7

LEMMA MinIs ==
  ASSUME NEW S, S \subseteq Int, NEW x \in S, \A y \in S : x <= y
  PROVE  Min(S) = x
<1>1. \A z \in S : (\A y \in S : z <= y) => z = x
  OBVIOUS
<1>. QED
  BY <1>1 DEF Min

(* The oldest batch that some server was heard of with.                    *)
Oldest(k) == Min(Range(k))

LEMMA OldestIs ==
  ASSUME NEW k \in [Servers -> Int]
  PROVE  /\ Oldest(k) \in Int
         /\ \E s \in Servers : Oldest(k) = k[s]
         /\ \A s \in Servers : Oldest(k) <= k[s]
<1>1. Range(k) \subseteq Int /\ Range(k) # {}
  BY ServerVersionsAssumption DEF Range
<1>2. IsFiniteSet(Range(k))
  <2>1. k \in Surjection(Servers, Range(k))
    BY DEF Range, Surjection
  <2>. QED
    BY <2>1, ServerVersionsAssumption, FS_Surjection
<1>3. PICK x \in Range(k) : \A y \in Range(k) : x <= y
  BY <1>1, <1>2, FiniteHasLeast
<1>4. Oldest(k) = x
  BY <1>1, <1>3, MinIs DEF Oldest
<1>. QED
  BY <1>1, <1>3, <1>4 DEF Range
-----------------------------------------------------------------------------
(* The inductive invariant.                                                *)

(* The batches that may be under way: at most MaxPending before the last.  *)
Window == { x \in Int : sent - 1 - x \in 0 .. MaxPending }

Types ==
  /\ sent \in Nat
  /\ versionMap \in [Servers -> Int] /\ upperBound \in Int /\ minVersion \in Int
  /\ oplogs \in Seq(Int)
  /\ acked \in [Servers -> Int] /\ applied \in [Servers -> Int]
  /\ known \in [Servers -> Int]
  /\ toWorker \in [Servers -> Seq([ack : BOOLEAN, no : Int])]

(* What is acknowledged was heard of, what was heard of was applied, what  *)
(* was applied was sent, and no window is exceeded.                        *)
Reported ==
  \A s \in Servers :
    /\ -1 <= acked[s] /\ acked[s] <= known[s] /\ known[s] <= applied[s]
    /\ applied[s] <= sent - 1 /\ sent - 1 - acked[s] <= MaxPending

(* A server reports older batches first.                                   *)
ReportsOrdered ==
  \A s \in Servers :
    /\ \A i \in DOMAIN toWorker[s] : /\ known[s] <= toWorker[s][i].no
                                     /\ toWorker[s][i].no <= applied[s]
    /\ \A i, j \in DOMAIN toWorker[s] :
         i <= j => toWorker[s][i].no <= toWorker[s][j].no

(* The versions kept are those of the batches they stand for.              *)
VersionsTell ==
  /\ upperBound = Version(sent - 1)
  /\ minVersion = Version(Oldest(known))
  /\ \A s \in Servers : versionMap[s] = Version(known[s])

(* The list runs from the batch after the oldest to the last one.          *)
ListExact ==
  /\ Len(oplogs) = sent - 1 - Oldest(known)
  /\ \A i \in DOMAIN oplogs : oplogs[i] = Oldest(known) + i

VersionsInv ==
  Types /\ Reported /\ ReportsOrdered /\ VersionsTell /\ ListExact /\ failed = "no"
-----------------------------------------------------------------------------
(* Versions of batches under way.                                          *)
LEMMA InWindow ==
  ASSUME sent \in Nat, upperBound = Version(sent - 1), NEW x \in Window
  PROVE  /\ Version(x) \in 0 .. Modulus - 1 /\ upperBound \in 0 .. Modulus - 1
         /\ Version(x) = IF sent - 1 - x <= upperBound THEN x - (sent - 1) + upperBound
                                     ELSE x - (sent - 1) + upperBound + Modulus
         /\ sent - 1 - x \in 0 .. Modulus - 1
<1> DEFINE M == Modulus  d == sent - 1 - x
<1>1. M \in Nat \ {0} /\ MaxPending \in 1 .. M - 1
  BY ModulusType
<1>2. d \in 0 .. M - 1 /\ x \in Int
  BY <1>1 DEF Window
<1>3. \A y \in Int : \A e \in 0 .. Modulus - 1 :
         /\ Version(y) \in 0 .. Modulus - 1
         /\ Version(y - e) = IF e <= Version(y) THEN Version(y) - e
                                                ELSE Version(y) - e + Modulus
  BY Before
<1>4. sent - 1 \in Int /\ sent - 1 - d = x
  BY <1>2
<1>5. Version(x) = IF d <= upperBound THEN upperBound - d ELSE upperBound - d + M
  <2>1. Version(sent - 1 - d) = IF d <= Version(sent - 1) THEN Version(sent - 1) - d
                                       ELSE Version(sent - 1) - d + Modulus
    BY <1>2, <1>3, <1>4
  <2>. QED
    BY <2>1, <1>4
<1>6. Version(x) \in 0 .. M - 1 /\ upperBound \in 0 .. M - 1
  BY <1>2, <1>3, <1>4
<1> HIDE DEF M
<1>7. Version(x) = IF sent - 1 - x <= upperBound THEN x - (sent - 1) + upperBound
                                     ELSE x - (sent - 1) + upperBound + M
  BY <1>1, <1>2, <1>5, <1>6
<1>. QED
  BY <1>2, <1>6, <1>7 DEF M

(* Batches under way are told apart, and compared, by their versions.      *)
LEMMA VersionsCompare ==
  ASSUME sent \in Nat, upperBound = Version(sent - 1), NEW x \in Window, NEW y \in Window
  PROVE  /\ Version(x) \in Int /\ Version(y) \in Int /\ upperBound \in Int
         /\ Version(x) = Version(y) => x = y
         /\ Older(Version(x), Version(y)) <=> x < y
         /\ Version(x) <= upperBound /\ x <= y =>
              Version(y) <= upperBound /\ Version(x) <= Version(y)
         /\ Deletable(x, Version(y)) <=> x <= y
<1> DEFINE M == Modulus  u == sent - 1
           vx == Version(x)  vy == Version(y)
<1>1. M \in Nat \ {0} /\ u \in Int /\ x \in Int /\ y \in Int
  BY ModulusType DEF Window
<1>2. /\ vx \in 0 .. M - 1 /\ upperBound \in 0 .. M - 1
      /\ vx = IF u - x <= upperBound THEN x - u + upperBound
                                     ELSE x - u + upperBound + M
      /\ u - x \in 0 .. M - 1
  BY InWindow
<1>3. /\ vy \in 0 .. M - 1
      /\ vy = IF u - y <= upperBound THEN y - u + upperBound
                                     ELSE y - u + upperBound + M
      /\ u - y \in 0 .. M - 1
  BY InWindow
<1>4. /\ Older(vx, vy) <=> \/ vx > upperBound /\ vy <= upperBound
                           \/ (vx > upperBound <=> vy > upperBound) /\ vx < vy
      /\ Deletable(x, vy) <=> IF vy > upperBound THEN vx > upperBound /\ vx <= vy
                              ELSE vx > upperBound \/ vx <= vy
  BY DEF Older, Deletable
<1> HIDE DEF M, u, vx, vy
<1>5. (vx > upperBound <=> u - x > upperBound) /\ (vy > upperBound <=> u - y > upperBound)
  BY <1>1, <1>2, <1>3
<1>6. /\ vx = vy => x = y
      /\ Older(vx, vy) <=> x < y
      /\ vx <= upperBound /\ x <= y => vy <= upperBound /\ vx <= vy
      /\ Deletable(x, vy) <=> x <= y
  BY <1>1, <1>2, <1>3, <1>4, <1>5
<1>. QED
  BY <1>1, <1>2, <1>3, <1>6 DEF vx, vy

-----------------------------------------------------------------------------
(* The minimum of the new map.                                             *)
LEMMA NewMinIs ==
  ASSUME sent \in Nat, upperBound = Version(sent - 1),
         NEW k \in [Servers -> Int], \A s \in Servers : k[s] \in Window,
         NEW map, map = [s \in Servers |-> Version(k[s])],
         NEW o \in Window, minVersion = Version(o), \A s \in Servers : o <= k[s]
  PROVE  NewMin(map) = Version(Oldest(k))
<1> DEFINE m == Version(Oldest(k))
<1>1. /\ Oldest(k) \in Int
      /\ \E s \in Servers : Oldest(k) = k[s]
      /\ \A s \in Servers : Oldest(k) <= k[s]
  BY OldestIs
<1>2. Oldest(k) \in Window /\ m \in Range(map)
  BY <1>1 DEF Range
<1>3. \A v \in Range(map) : \E s \in Servers : v = Version(k[s])
  BY DEF Range
<1>4. CASE minVersion < upperBound
  <2>1. \A s \in Servers : Version(k[s]) \in Int /\ m \in Int /\ upperBound \in Int
    BY <1>2, VersionsCompare
  <2>2. m <= upperBound
    <3>1. Version(o) <= upperBound /\ o <= Oldest(k)
      BY <1>1, <1>2, <1>4, VersionsCompare
    <3>. QED
      BY <3>1, <1>2, VersionsCompare
  <2>3. \A s \in Servers : m <= Version(k[s])
    BY <2>2, <1>1, <1>2, VersionsCompare
  <2>4. \A v \in Range(map) : v \in Int /\ m <= v
    BY <2>1, <2>3, <1>3
  <2>5. Range(map) \subseteq Int
    BY <2>4
  <2>6. Min(Range(map)) = m
    BY <2>4, <2>5, <1>2, MinIs
  <2>. QED
    BY <2>6, <1>4 DEF NewMin
<1>5. CASE ~(minVersion < upperBound)
  <2>1. \A s \in Servers : Version(k[s]) # m => Older(m, Version(k[s]))
    <3>1. SUFFICES ASSUME NEW s \in Servers, Version(k[s]) # m
                   PROVE  Older(m, Version(k[s]))
      OBVIOUS
    <3>2. Oldest(k) < k[s]
      <4>1. Oldest(k) # k[s]
        BY <3>1
      <4>. QED
        BY <4>1, <1>1
    <3>. QED
      BY <3>2, <1>2, VersionsCompare
  <2>2. \A s \in Servers : (Version(k[s]) # m => Older(Version(k[s]), m)) => Version(k[s]) = m
    <3>1. SUFFICES ASSUME NEW s \in Servers, Older(Version(k[s]), m)
                   PROVE  FALSE
      OBVIOUS
    <3>2. k[s] < Oldest(k)
      BY <3>1, <1>2, VersionsCompare
    <3>. QED
      BY <3>2, <1>1
  <2>3. \A u \in Range(map) : u # m => Older(m, u)
    BY <2>1, <1>3
  <2>4. \A v \in Range(map) : (\A u \in Range(map) : u # v => Older(v, u)) => v = m
    BY <2>2, <1>2, <1>3
  <2>5. (CHOOSE v \in Range(map) : \A u \in Range(map) : u # v => Older(v, u)) = m
    BY <2>3, <2>4, <1>2
  <2>. QED
    BY <2>5, <1>5 DEF NewMin
<1>. QED
  BY <1>4, <1>5

(* Deleting from the front.                                                *)
LEMMA DeletedIs ==
  ASSUME sent \in Nat, upperBound = Version(sent - 1), oplogs \in Seq(Int),
         NEW o \in Window, NEW p \in Window, o <= p,
         Len(oplogs) = sent - 1 - o, \A i \in DOMAIN oplogs : oplogs[i] = o + i
  PROVE  LET list == Deleted(oplogs, Version(p))
         IN  /\ list \in Seq(Int) /\ Len(list) = sent - 1 - p
             /\ \A i \in DOMAIN list : list[i] = p + i
<1> DEFINE stay == { i \in DOMAIN oplogs : ~Deletable(oplogs[i], Version(p)) }
           e == p - o
<1>1. o \in Int /\ p \in Int /\ e \in Nat /\ sent - 1 - p \in Nat /\ sent - 1 - o \in 0 .. MaxPending
      /\ MaxPending \in Int
  BY ModulusType DEF Window
<1>2. DOMAIN oplogs = 1 .. (sent - 1 - o)
  OBVIOUS
<1>3. \A i \in DOMAIN oplogs : oplogs[i] \in Window
  <2>1. SUFFICES ASSUME NEW i \in DOMAIN oplogs PROVE oplogs[i] \in Window
    OBVIOUS
  <2>2. oplogs[i] = o + i /\ i \in 1 .. (sent - 1 - o)
    BY <1>2
  <2>3. o + i \in Int /\ sent - 1 - (o + i) \in 0 .. MaxPending
    <3>1. i \in Int /\ 1 <= i /\ i <= sent - 1 - o
      BY <2>2, <1>1
    <3>2. sent - 1 - (o + i) \in Int /\ 0 <= sent - 1 - (o + i)
      BY <3>1, <1>1
    <3>3. sent - 1 - (o + i) <= sent - 1 - o /\ sent - 1 - o <= MaxPending
      BY <3>1, <1>1
    <3>4. \A z \in Int : 0 <= z /\ z <= MaxPending => z \in 0 .. MaxPending
      BY <1>1
    <3>5. sent - 1 - (o + i) <= MaxPending /\ o + i \in Int
      BY SMTT(20), <3>1, <3>3, <1>1
    <3>. QED
      BY <3>2, <3>4, <3>5
  <2>. QED
    BY <2>2, <2>3 DEF Window
<1>4. stay = { i \in 1 .. (sent - 1 - o) : i > e }
  <2>1. \A i \in DOMAIN oplogs : Deletable(oplogs[i], Version(p)) <=> oplogs[i] <= p
    BY <1>3, VersionsCompare
  <2>2. \A i \in DOMAIN oplogs : Deletable(oplogs[i], Version(p)) <=> i <= e
    BY <2>1, <1>1, <1>2
  <2>. QED
    BY <2>2, <1>1, <1>2
<1>5. Deleted(oplogs, Version(p)) =
        IF stay = {} THEN << >> ELSE SubSeq(oplogs, Min(stay), Len(oplogs))
  BY DEF Deleted
<1> HIDE DEF stay
<1>6. CASE e = sent - 1 - o
  <2>1. stay = {}
    BY <1>1, <1>4, <1>6
  <2>2. sent - 1 - p = 0
    BY <1>1, <1>6
  <2>. QED
    BY <2>1, <2>2, <1>5
<1>7. CASE e # sent - 1 - o
  <2>1. e + 1 \in stay /\ stay \subseteq Int /\ \A i \in stay : e + 1 <= i
    BY <1>1, <1>4, <1>7
  <2>2. Min(stay) = e + 1
    BY <2>1, MinIs
  <2> DEFINE list == SubSeq(oplogs, e + 1, Len(oplogs))
  <2>3. Deleted(oplogs, Version(p)) = list
    BY <2>1, <2>2, <1>5
  <2>4. e + 1 \in 1 .. Len(oplogs) + 1 /\ Len(oplogs) \in Nat
    BY <1>1, <1>7
  <2>5. /\ list \in Seq(Int) /\ Len(list) = Len(oplogs) - e
        /\ \A i \in 1 .. Len(list) : list[i] = oplogs[e + i]
    BY <2>4, <1>1
  <2>6. Len(list) = sent - 1 - p
    BY <2>5, <1>1
  <2>7. \A i \in DOMAIN list : list[i] = p + i
    <3>1. SUFFICES ASSUME NEW i \in DOMAIN list PROVE list[i] = p + i
      OBVIOUS
    <3>2. i \in 1 .. (sent - 1 - p)
      BY <2>5, <2>6
    <3>3. e + i \in DOMAIN oplogs
      BY <3>2, <1>1, <1>2
    <3>4. list[i] = o + (e + i)
      BY <3>2, <3>3, <2>5, <2>6
    <3>. QED
      BY <3>2, <3>4, <1>1
  <2> HIDE DEF list
  <2>. QED
    BY <2>3, <2>5, <2>6, <2>7
<1>. QED
  BY <1>6, <1>7
-----------------------------------------------------------------------------
(* What hearing of batch n of server s does to the map, the minimum and    *)
(* the list.                                                               *)
LEMMA InvWindow ==
  ASSUME VersionsInv
  PROVE  /\ \A s \in Servers : \A x \in Int :
               known[s] <= x /\ x <= sent - 1 => x \in Window
         /\ \A s \in Servers : known[s] \in Window
         /\ Oldest(known) \in Window
         /\ \E s \in Servers : Oldest(known) = known[s]
         /\ \A s \in Servers : Oldest(known) <= known[s]
<1>1. \A s \in Servers : \A x \in Int : known[s] <= x /\ x <= sent - 1 => x \in Window
  <2>1. SUFFICES ASSUME NEW s \in Servers, NEW x \in Int, known[s] <= x, x <= sent - 1
                 PROVE  x \in Window
    OBVIOUS
  <2>2. /\ sent \in Nat /\ acked[s] \in Int /\ known[s] \in Int /\ MaxPending \in Int
        /\ acked[s] <= known[s] /\ sent - 1 - acked[s] <= MaxPending
    BY ModulusType DEF VersionsInv, Types, Reported
  <2>3. sent - 1 - x \in Int /\ 0 <= sent - 1 - x /\ sent - 1 - x <= MaxPending
    BY <2>1, <2>2
  <2>. QED
    BY <2>2, <2>3 DEF Window
<1>2. \A s \in Servers : known[s] \in Window
  <2>1. \A s \in Servers : known[s] \in Int /\ known[s] <= known[s] /\ known[s] <= sent - 1
    BY DEF VersionsInv, Types, Reported
  <2>. QED
    BY <1>1, <2>1
<1>3. known \in [Servers -> Int]
  BY DEF VersionsInv, Types
<1>. QED
  BY <1>1, <1>2, <1>3, OldestIs

AckExact(s, n, k) ==
  LET a == Acknowledged(s, Version(n))
  IN  /\ k \in [Servers -> Int]
      /\ Oldest(k) \in Window /\ Oldest(k) <= n
      /\ Oldest(known) <= Oldest(k)
      /\ n = known[s] => k = known
      /\ a.map \in [Servers -> Int]
      /\ \A d \in Servers : a.map[d] = Version(k[d])
      /\ a.min = Version(Oldest(k))
      /\ a.list \in Seq(Int)
      /\ Len(a.list) = sent - 1 - Oldest(k)
      /\ \A i \in DOMAIN a.list : a.list[i] = Oldest(k) + i
      /\ a.check

LEMMA Acknowledges ==
  ASSUME VersionsInv, NEW s \in Servers, NEW n \in Int, known[s] <= n, n <= sent - 1,
         NEW k, k = [known EXCEPT ![s] = n]
  PROVE  AckExact(s, n, k)
<1> DEFINE v     == Version(n)
           map   == [versionMap EXCEPT ![s] = v]
           moved == v # versionMap[s] /\ IsUniqueMin(s)
           min   == IF moved THEN NewMin(map) ELSE minVersion
           list  == IF moved THEN Deleted(oplogs, min) ELSE oplogs
           check == moved /\ minVersion < upperBound => v <= upperBound
           a     == Acknowledged(s, v)
           o     == Oldest(known)
           p     == Oldest(k)
<1>1. /\ sent \in Nat /\ upperBound = Version(sent - 1) /\ known \in [Servers -> Int]
      /\ minVersion = Version(o) /\ \A d \in Servers : versionMap[d] = Version(known[d])
      /\ versionMap \in [Servers -> Int]
      /\ oplogs \in Seq(Int) /\ Len(oplogs) = sent - 1 - o
      /\ \A i \in DOMAIN oplogs : oplogs[i] = o + i
  BY DEF VersionsInv, Types, VersionsTell, ListExact
<1>2. /\ \A d \in Servers : known[d] \in Window
      /\ o \in Window /\ n \in Window
      /\ \E d \in Servers : o = known[d]
      /\ \A d \in Servers : o <= known[d]
  BY InvWindow
<1>3. a.map = map /\ a.min = min /\ a.list = list /\ a.check = check
  BY DEF Acknowledged
<1>4. /\ k \in [Servers -> Int]
      /\ k[s] = n /\ \A d \in Servers : d # s => k[d] = known[d]
  BY <1>1
<1>5. /\ p \in Int
      /\ \E d \in Servers : p = k[d]
      /\ \A d \in Servers : p <= k[d]
  BY <1>4, OldestIs
<1>6. \A d \in Servers : k[d] \in Window /\ known[d] <= k[d] /\ o <= k[d]
  <2>1. SUFFICES ASSUME NEW d \in Servers
                 PROVE  k[d] \in Window /\ known[d] <= k[d] /\ o <= k[d]
    OBVIOUS
  <2>2. known[d] \in Int /\ o \in Int /\ o <= known[d]
    BY <1>1, <1>2 DEF Window
  <2>3. CASE d = s
    BY <2>2, <2>3, <1>2, <1>4
  <2>4. CASE d # s
    BY <2>2, <2>4, <1>2, <1>4
  <2>. QED
    BY <2>3, <2>4
<1>7. p \in Window /\ p <= n /\ o <= p
  BY <1>4, <1>5, <1>6
<1>8. n = known[s] => k = known
  BY <1>1
<1>9. map \in [Servers -> Int] /\ map = [d \in Servers |-> Version(k[d])]
  <2>1. v \in Int
    BY <1>1, <1>2, VersionsCompare
  <2>2. map \in [Servers -> Int] /\ \A d \in Servers : map[d] = IF d = s THEN v ELSE versionMap[d]
    BY <2>1, <1>1
  <2>3. \A d \in Servers : map[d] = Version(k[d])
    BY <2>2, <1>1, <1>4
  <2>. QED
    BY <2>2, <2>3
<1>10. v # versionMap[s] <=> n # known[s]
  BY <1>1, <1>2, VersionsCompare
<1>11. IsUniqueMin(s) <=> known[s] = o /\ \A d \in Servers \ {s} : known[d] # o
  <2>1. \A d \in Servers : versionMap[d] = minVersion <=> known[d] = o
    BY <1>1, <1>2, VersionsCompare
  <2>. QED
    BY <2>1 DEF IsUniqueMin
<1>12. CASE moved
  <2>1. min = Version(p)
    BY <1>12, <1>1, <1>2, <1>4, <1>6, <1>9, NewMinIs
  <2>2. check
    <3>1. SUFFICES ASSUME minVersion < upperBound PROVE v <= upperBound
      OBVIOUS
    <3>2. Version(o) <= upperBound /\ o <= n
      BY <3>1, <1>1, <1>2, <1>4, <1>6, VersionsCompare
    <3>. QED
      BY <3>2, <1>1, <1>2, VersionsCompare
  <2>3. list = Deleted(oplogs, Version(p))
    BY <2>1, <1>12
  <2> DEFINE l == Deleted(oplogs, Version(p))
  <2> HIDE DEF v, map, min, list, check, o, p
  <2>4. l \in Seq(Int) /\ Len(l) = sent - 1 - p /\ \A i \in DOMAIN l : l[i] = p + i
    BY <1>1, <1>2, <1>7, DeletedIs
  <2>5. list \in Seq(Int) /\ Len(list) = sent - 1 - p /\ \A i \in DOMAIN list : list[i] = p + i
    <3>1. list = l
      BY <2>3
    <3> HIDE DEF l
    <3>. QED
      BY <2>4, <3>1
  <2>. QED
    BY <2>1, <2>2, <2>5, <1>3, <1>4, <1>7, <1>8, <1>9 DEF AckExact, a, v, p, o
<1>13. CASE ~moved
  <2>1. p = o
    <3>1. CASE n = known[s]
      BY <3>1, <1>8
    <3>2. CASE n # known[s]
      <4>1. ~IsUniqueMin(s)
        BY <3>2, <1>10, <1>13
      <4>2. PICK d \in Servers : d # s /\ known[d] = o
        BY <4>1, <1>2, <1>11
      <4>3. k[d] = o
        BY <4>2, <1>4
      <4>4. o \in Int
        BY <1>2 DEF Window
      <4> HIDE DEF o, p
      <4>. QED
        BY <4>3, <4>4, <1>5, <1>7
    <3>. QED
      BY <3>1, <3>2
  <2>2. min = Version(p) /\ list = oplogs /\ check
    BY <2>1, <1>1, <1>13
  <2> HIDE DEF v, map, min, list, check, o, p
  <2>3. list \in Seq(Int) /\ Len(list) = sent - 1 - p /\ \A i \in DOMAIN list : list[i] = p + i
    BY <2>1, <2>2, <1>1
  <2>. QED
    BY <2>2, <2>3, <1>3, <1>4, <1>7, <1>8, <1>9 DEF AckExact, a, v, p, o
<1>. QED
  BY <1>12, <1>13
-----------------------------------------------------------------------------
(* Replaying what a row with version n lacks, from a list that runs from   *)
(* the batch after p to the last one.                                      *)
LEMMA Replay ==
  ASSUME sent \in Nat, NEW p \in Window, NEW n \in Int, p <= n, n <= sent - 1,
         NEW list \in Seq(Int), Len(list) = sent - 1 - p,
         \A i \in DOMAIN list : list[i] = p + i
  PROVE  /\ ReplayCheck(list, Version(n))
         /\ Replayed(list, Version(n)) =
              IF SameLap(n) THEN (n + 1) .. (sent - 1) ELSE {}
<1> DEFINE M == Modulus  e == sent - (n + 1)  V == Version(sent)  F == Version(n + 1)
<1>1. M \in Nat \ {0} /\ MaxPending \in 1 .. M - 1
  BY ModulusType
<1>2. p \in Int /\ sent - 1 - p \in 0 .. MaxPending
  BY DEF Window
<1>3. e \in 0 .. M - 1 /\ e <= MaxPending /\ sent \in Int
  BY <1>1, <1>2
<1>4. \A d \in 0 .. M - 1 :
        /\ V \in 0 .. M - 1 /\ sent \div M \in Int
        /\ Version(sent - d) = IF d <= V THEN V - d ELSE V - d + M
        /\ (sent - d) \div M = IF d <= V THEN sent \div M ELSE (sent \div M) - 1
  BY <1>3, Before
<1>5. /\ V \in 0 .. M - 1 /\ sent \div M \in Int
      /\ F = IF e <= V THEN V - e ELSE V - e + M
      /\ (n + 1) \div M = IF e <= V THEN sent \div M ELSE (sent \div M) - 1
  <2>1. sent - e = n + 1
    BY <1>3
  <2>. QED
    BY <1>3, <1>4, <2>1
<1>6. FirstReplayed(Version(n)) = F /\ version = V
  BY NextVersion DEF FirstReplayed, version
<1>7. SameLap(n) <=> e <= V
  <2>1. SameLap(n) <=> (n + 1) \div M = sent \div M
    BY DEF SameLap
  <2> HIDE DEF M, e, V
  <2>. QED
    BY <2>1, <1>5
<1>8. Replays(Version(n)) <=> e <= V /\ e # 0
  <2>1. Replays(Version(n)) <=> F < V
    BY <1>6 DEF Replays
  <2> HIDE DEF M, e, V, F
  <2>. QED
    BY <2>1, <1>1, <1>3, <1>5
<1>9. DOMAIN list = 1 .. (sent - 1 - p)
  OBVIOUS
<1>10. ReplayCheck(list, Version(n))
  <2>1. SUFFICES ASSUME e <= V, e # 0
                 PROVE  \E i \in DOMAIN list : \A k \in F .. V - 1 :
                          i + k - F \in DOMAIN list /\ Version(list[i + k - F]) = k
    BY <1>6, <1>8 DEF ReplayCheck
  <2> DEFINE b == n + 1 - p
  <2>2. b \in DOMAIN list
    BY <1>2, <1>3, <1>9, <2>1
  <2>3. \A k \in F .. V - 1 : b + k - F \in DOMAIN list /\ Version(list[b + k - F]) = k
    <3>1. SUFFICES ASSUME NEW k \in F .. V - 1
                   PROVE  b + k - F \in DOMAIN list /\ Version(list[b + k - F]) = k
      OBVIOUS
    <3>2. V \in Int /\ F = V - e /\ F \in Int /\ k \in Int /\ F <= k /\ k <= V - 1
      <4>1. V \in Int /\ F = V - e
        BY <1>5, <2>1
      <4> HIDE DEF F, V
      <4>. QED
        BY <4>1, <1>3
    <3> DEFINE d == V - k  j == b + k - F
    <3>3. d \in Int /\ 1 <= d /\ d <= e /\ d <= V
      <4>1. V \in 0 .. M - 1
        BY <1>5
      <4>2. 0 <= F
        BY <3>2, <2>1, <1>3, <4>1
      <4> HIDE DEF F, V, e
      <4>. QED
        BY <3>2, <4>2, <1>3
    <3>4. j \in Int /\ p + j = sent - d /\ 1 <= j /\ j <= sent - 1 - p
      <4>1. j = n + 1 - p + e - d
        <5> HIDE DEF F, V, e
        <5>. QED
          BY <3>2, <1>2, <1>3
      <4> HIDE DEF d, j
      <4>. QED
        BY <4>1, <3>3, <1>2, <1>3
    <3>5. j \in DOMAIN list /\ list[j] = sent - d
      <4> HIDE DEF d, j
      <4>1. j \in DOMAIN list
        BY <3>4, <1>2, <1>9
      <4>. QED
        BY <4>1, <3>4
    <3>6. Version(sent - d) = V - d
      <4>1. d \in 0 .. M - 1
        <5> HIDE DEF d, M, e
        <5>. QED
          BY <3>3, <1>1, <1>3
      <4> HIDE DEF d, M, V
      <4>. QED
        BY <4>1, <3>3, <1>4
    <3>7. V - d = k
      BY <3>2
    <3>. QED
      BY <3>5, <3>6, <3>7
  <2> HIDE DEF F, V, b
  <2>. QED
    BY <2>2, <2>3
<1>11. Replayed(list, Version(n)) = IF SameLap(n) THEN (n + 1) .. (sent - 1) ELSE {}
  <2>1. CASE ~(e <= V)
    BY <2>1, <1>7, <1>8 DEF Replayed
  <2>2. CASE e = 0
    <3>1. (n + 1) .. (sent - 1) = {}
      BY <2>2, <1>3
    <3>. QED
      BY <2>2, <3>1, <1>8 DEF Replayed
  <2>3. CASE e <= V /\ e # 0
    <3>1. Replayed(list, Version(n)) = { m \in Range(list) : Version(m) \in F .. V - 1 }
      BY <2>3, <1>6, <1>8 DEF Replayed
    <3>2. SameLap(n) /\ F = V - e /\ V \in Int /\ 0 <= V - e /\ V \in 0 .. M - 1
      <4>1. F = V - e /\ V \in 0 .. M - 1
        BY <2>3, <1>5
      <4> HIDE DEF F, V, e
      <4>. QED
        BY <4>1, <2>3, <1>3, <1>7
    <3>3. \A m \in Int : m \in Range(list) <=> p + 1 <= m /\ m <= sent - 1
      <4>1. SUFFICES ASSUME NEW m \in Int
                     PROVE  m \in Range(list) <=> p + 1 <= m /\ m <= sent - 1
        OBVIOUS
      <4>2. m \in Range(list) <=> \E i \in 1 .. (sent - 1 - p) : m = p + i
        BY <1>9 DEF Range
      <4>3. p + 1 <= m /\ m <= sent - 1 => m - p \in 1 .. (sent - 1 - p) /\ m = p + (m - p)
        BY <1>2
      <4>4. \A i \in 1 .. (sent - 1 - p) : p + 1 <= p + i /\ p + i <= sent - 1
        BY <1>2
      <4>. QED
        BY <4>2, <4>3, <4>4
    <3>4. \A m \in Int : p + 1 <= m /\ m <= sent - 1 =>
            (Version(m) \in F .. V - 1 <=> n + 1 <= m)
      <4>1. SUFFICES ASSUME NEW m \in Int, p + 1 <= m, m <= sent - 1
                     PROVE  Version(m) \in F .. V - 1 <=> n + 1 <= m
        OBVIOUS
      <4> DEFINE d == sent - m
      <4>2. d \in 0 .. M - 1 /\ 1 <= d /\ sent - d = m
        BY <4>1, <1>1, <1>2, <1>3
      <4>3. Version(m) = IF d <= V THEN V - d ELSE V - d + M
        BY <4>2, <1>4
      <4>4. n + 1 <= m <=> d <= e
        BY <1>3
      <4> HIDE DEF d, V, F, e, M
      <4>. QED
        BY <4>2, <4>3, <4>4, <3>2, <2>3, <1>1, <1>3
    <3>5. \A m \in Range(list) : m \in Int
      BY <1>2, <1>9 DEF Range
    <3>6. { m \in Range(list) : Version(m) \in F .. V - 1 } = (n + 1) .. (sent - 1)
      <4>1. \A m \in Int : m \in Range(list) /\ Version(m) \in F .. V - 1
              <=> n + 1 <= m /\ m <= sent - 1
        BY <3>3, <3>4, <1>2
      <4>2. \A m \in Int : m \in (n + 1) .. (sent - 1) <=> n + 1 <= m /\ m <= sent - 1
        BY <1>3
      <4> HIDE DEF V, F
      <4>. QED
        BY <4>1, <4>2, <3>5
    <3>. QED
      BY <3>1, <3>2, <3>6
  <2>. QED
    BY <2>1, <2>2, <2>3
<1>. QED
  BY <1>10, <1>11
-----------------------------------------------------------------------------
(* The invariant is inductive.                                             *)
LEMMA VersionsInit == Init => VersionsInv
<1>1. SUFFICES ASSUME Init PROVE VersionsInv
  OBVIOUS
<1>2. Version(-1) \in Int
  BY ModulusType, Division DEF Version
<1>3. \A s \in Servers : known[s] = -1
  BY <1>1 DEF Init
<1>4. known \in [Servers -> Int]
  BY <1>1 DEF Init
<1>5. Oldest(known) = -1
  BY <1>3, <1>4, OldestIs
<1>6. Types
  BY <1>1, <1>2 DEF Init, Types
<1>7. Reported
  BY <1>1, ModulusType DEF Init, Reported
<1>8. ReportsOrdered
  BY <1>1 DEF Init, ReportsOrdered
<1>9. VersionsTell
  BY <1>1, <1>5 DEF Init, VersionsTell
<1>10. ListExact
  BY <1>1, <1>5 DEF Init, ListExact
<1>. QED
  BY <1>1, <1>6, <1>7, <1>8, <1>9, <1>10 DEF VersionsInv, Init

LEMMA SendBatchKeeps == VersionsInv /\ SendBatch => VersionsInv'
<1>1. SUFFICES ASSUME VersionsInv, SendBatch PROVE VersionsInv'
  OBVIOUS
<1>2. Types /\ Reported /\ ReportsOrdered /\ VersionsTell /\ ListExact /\ failed = "no"
  BY <1>1 DEF VersionsInv
<1>3. /\ \A s \in Servers : sent - 1 - acked[s] < MaxPending
      /\ oplogs' = Append(oplogs, sent) /\ sent' = sent + 1
      /\ upperBound' = (upperBound + 1) % Modulus
      /\ UNCHANGED <<versionMap, minVersion, acked, applied, toWorker, failed, known>>
  BY <1>1 DEF SendBatch, CheckSendAll
<1>4. sent \in Nat /\ MaxPending \in Int /\ oplogs \in Seq(Int) /\ Oldest(known)' = Oldest(known)
  BY <1>2, <1>3, ModulusType DEF Types, Oldest
<1>5. upperBound' = Version(sent' - 1)
  <2>1. (Version(sent - 1) + 1) % Modulus = Version((sent - 1) + 1)
    BY <1>4, NextVersion
  <2>2. (sent - 1) + 1 = sent' - 1
    BY <1>3, <1>4
  <2>. QED
    BY <2>1, <2>2, <1>2, <1>3 DEF VersionsTell
<1>6. Types'
  <2>1. upperBound' \in Int
    <3>1. \A x \in Int : Version(x) \in Int
      BY ModulusType, Division DEF Version
    <3>2. sent' - 1 \in Int
      BY <1>3, <1>4
    <3>. QED
      BY <3>1, <3>2, <1>5
  <2>2. oplogs' \in Seq(Int) /\ sent' \in Nat
    BY <1>3, <1>4
  <2>. QED
    BY <2>1, <2>2, <1>2, <1>3 DEF Types
<1>7. Reported'
  <2>1. \A s \in Servers : acked[s] \in Int /\ known[s] \in Int /\ applied[s] \in Int
    BY <1>2 DEF Types
  <2>. QED
    BY <2>1, <1>2, <1>3, <1>4 DEF Reported
<1>8. ReportsOrdered'
  BY <1>2, <1>3 DEF ReportsOrdered
<1>9. VersionsTell'
  BY <1>2, <1>3, <1>4, <1>5 DEF VersionsTell, Version
<1>10. ListExact'
  <2> DEFINE o == Oldest(known)
  <2>1. o \in Int /\ o <= sent - 1 /\ Len(oplogs) = sent - 1 - o /\ \A i \in DOMAIN oplogs : oplogs[i] = o + i
    BY <1>1, <1>2, <1>4, InvWindow DEF ListExact, Window
  <2> HIDE DEF o
  <2>2. /\ Len(oplogs') = Len(oplogs) + 1 /\ DOMAIN oplogs' = 1 .. Len(oplogs) + 1
        /\ \A i \in 1 .. Len(oplogs) + 1 :
             oplogs'[i] = IF i = Len(oplogs) + 1 THEN sent ELSE oplogs[i]
    BY <1>3, <1>4
  <2>3. Len(oplogs') = sent' - 1 - o
    BY <2>1, <2>2, <1>3, <1>4
  <2>4. \A i \in DOMAIN oplogs' : oplogs'[i] = o + i
    <3>1. SUFFICES ASSUME NEW i \in DOMAIN oplogs' PROVE oplogs'[i] = o + i
      OBVIOUS
    <3>2. CASE i = Len(oplogs) + 1
      BY <3>2, <2>1, <2>2, <1>4
    <3>3. CASE i # Len(oplogs) + 1
      <4>1. i \in DOMAIN oplogs
        BY <3>1, <3>3, <2>2, <1>4
      <4>. QED
        BY <4>1, <3>1, <3>3, <2>1, <2>2
    <3>. QED
      BY <3>2, <3>3
  <2>. QED
    BY <2>3, <2>4, <1>4 DEF ListExact, o
<1>. QED
  BY <1>2, <1>3, <1>6, <1>7, <1>8, <1>9, <1>10 DEF VersionsInv

LEMMA MessageType ==
  ASSUME NEW q \in Seq([ack : BOOLEAN, no : Int]), NEW i \in DOMAIN q
  PROVE  q[i].no \in Int
<1>1. q[i] \in [ack : BOOLEAN, no : Int]
  <2> DEFINE S == [ack : BOOLEAN, no : Int]
  <2>1. q \in Seq(S)
    OBVIOUS
  <2> HIDE DEF S
  <2>2. i \in 1 .. Len(q)
    BY <2>1
  <2>3. q[i] \in S
    BY <2>1, <2>2
  <2>. QED
    BY <2>3 DEF S
<1>. QED
  BY <1>1

(* A server reports what it has applied last.                              *)
LEMMA ReportKeeps ==
  ASSUME VersionsInv, NEW s \in Servers, NEW ack \in BOOLEAN, Report(s, ack),
         applied' \in [Servers -> Int],
         \A d \in Servers : applied[d] <= applied'[d] /\ applied'[d] <= sent - 1,
         UNCHANGED <<versionMap, upperBound, minVersion, oplogs, acked, failed, sent, known>>
  PROVE  VersionsInv'
<1>1. Types /\ Reported /\ ReportsOrdered /\ VersionsTell /\ ListExact /\ failed = "no"
  BY DEF VersionsInv
<1>2. /\ sent \in Nat /\ MaxPending \in Int /\ applied \in [Servers -> Int]
      /\ known \in [Servers -> Int] /\ acked \in [Servers -> Int]
      /\ toWorker \in [Servers -> Seq([ack : BOOLEAN, no : Int])]
  BY <1>1, ModulusType DEF Types
<1> DEFINE m == [ack |-> ack, no |-> applied'[s]]
           new == Append(toWorker[s], m)
<1>3. m \in [ack : BOOLEAN, no : Int] /\ m.no = applied'[s]
  OBVIOUS
<1>4. /\ toWorker' = [toWorker EXCEPT ![s] = new]
      /\ toWorker[s] \in Seq([ack : BOOLEAN, no : Int])
  BY <1>2 DEF Report
<1> HIDE DEF m
<1>5. /\ new \in Seq([ack : BOOLEAN, no : Int]) /\ Len(toWorker[s]) \in Nat
      /\ DOMAIN toWorker[s] = 1 .. Len(toWorker[s])
      /\ DOMAIN new = 1 .. Len(toWorker[s]) + 1
      /\ \A i \in DOMAIN new : new[i] = IF i = Len(toWorker[s]) + 1 THEN m ELSE toWorker[s][i]
  BY <1>3, <1>4
<1> HIDE DEF new
<1>6. Types'
  <2>1. toWorker' \in [Servers -> Seq([ack : BOOLEAN, no : Int])]
    BY <1>2, <1>4, <1>5
  <2>. QED
    BY <2>1, <1>1 DEF Types
<1>7. Reported'
  BY <1>1, <1>2 DEF Reported
<1>8. ReportsOrdered'
  <2>1. SUFFICES ASSUME NEW d \in Servers
                 PROVE  /\ \A i \in DOMAIN toWorker'[d] :
                              /\ known[d] <= toWorker'[d][i].no
                              /\ toWorker'[d][i].no <= applied'[d]
                        /\ \A i, j \in DOMAIN toWorker'[d] :
                             i <= j => toWorker'[d][i].no <= toWorker'[d][j].no
    BY DEF ReportsOrdered
  <2>2. /\ \A i \in DOMAIN toWorker[d] : /\ known[d] <= toWorker[d][i].no
                                         /\ toWorker[d][i].no <= applied[d]
                                         /\ toWorker[d][i].no \in Int
        /\ \A i, j \in DOMAIN toWorker[d] :
             i <= j => toWorker[d][i].no <= toWorker[d][j].no
    <3>1. toWorker[d] \in Seq([ack : BOOLEAN, no : Int])
      BY <1>2
    <3>2. \A i \in DOMAIN toWorker[d] : toWorker[d][i].no \in Int
      BY <3>1, MessageType
    <3>. QED
      BY <1>1, <3>2 DEF ReportsOrdered
  <2>3. known[d] \in Int /\ applied[d] \in Int /\ applied'[d] \in Int
        /\ applied[d] <= applied'[d] /\ known[d] <= applied[d]
    BY <1>1, <1>2 DEF Reported
  <2>4. CASE d # s
    <3>1. toWorker'[d] = toWorker[d]
      BY <2>4, <1>2, <1>4
    <3>. QED
      BY <3>1, <2>2, <2>3
  <2>5. CASE d = s
    <3>1. toWorker'[d] = new
      BY <2>5, <1>2, <1>4
    <3>2. \A i \in DOMAIN new : IF i = Len(toWorker[d]) + 1 THEN new[i].no = applied'[d]
                                ELSE i \in DOMAIN toWorker[d] /\ new[i] = toWorker[d][i]
      BY <2>5, <1>3, <1>5
    <3>3. \A i \in DOMAIN new : /\ known[d] <= new[i].no /\ new[i].no <= applied'[d]
                                /\ i \in Int /\ i <= Len(toWorker[d]) + 1
      <4>1. SUFFICES ASSUME NEW i \in DOMAIN new
                     PROVE  /\ known[d] <= new[i].no /\ new[i].no <= applied'[d]
                            /\ i \in Int /\ i <= Len(toWorker[d]) + 1
        OBVIOUS
      <4>2. i \in Int /\ i <= Len(toWorker[d]) + 1
        BY <4>1, <2>5, <1>5
      <4>3. CASE i = Len(toWorker[d]) + 1
        BY <4>1, <4>2, <4>3, <3>2, <2>3
      <4>4. CASE i # Len(toWorker[d]) + 1
        <5>1. i \in DOMAIN toWorker[d] /\ new[i] = toWorker[d][i]
          BY <4>1, <4>4, <3>2
        <5>2. known[d] <= toWorker[d][i].no /\ toWorker[d][i].no <= applied[d]
              /\ toWorker[d][i].no \in Int
          BY <5>1, <2>2
        <5>. QED
          BY <5>1, <5>2, <4>2, <2>3
      <4>. QED
        BY <4>3, <4>4
    <3>4. \A i, j \in DOMAIN new : i <= j => new[i].no <= new[j].no
      <4>1. SUFFICES ASSUME NEW i \in DOMAIN new, NEW j \in DOMAIN new, i <= j
                     PROVE  new[i].no <= new[j].no
        OBVIOUS
      <4>2. CASE j = Len(toWorker[d]) + 1
        BY <4>1, <4>2, <3>2, <3>3
      <4>3. CASE j # Len(toWorker[d]) + 1
        <5>1. i # Len(toWorker[d]) + 1
          BY <4>1, <4>3, <3>3, <2>5, <1>5
        <5>. QED
          BY <5>1, <4>1, <4>3, <3>2, <2>2
      <4>. QED
        BY <4>2, <4>3
    <3>. QED
      BY <3>1, <3>3, <3>4
  <2>. QED
    BY <2>4, <2>5
<1>9. VersionsTell' /\ ListExact'
  BY <1>1 DEF VersionsTell, ListExact, Version, Oldest
<1>. QED
  BY <1>1, <1>6, <1>7, <1>8, <1>9 DEF VersionsInv

LEMMA ServerKeeps ==
  ASSUME VersionsInv, NEW s \in Servers, ServerApply(s) \/ ServerSendRow(s)
  PROVE  VersionsInv'
<1>1. /\ sent \in Nat /\ applied \in [Servers -> Int]
      /\ \A d \in Servers : applied[d] <= sent - 1
  BY DEF VersionsInv, Types, Reported
<1>2. CASE ServerApply(s)
  <2>1. applied' = [applied EXCEPT ![s] = @ + 1] /\ applied[s] < sent - 1
    BY <1>2 DEF ServerApply
  <2>2. applied' \in [Servers -> Int]
        /\ \A d \in Servers : applied[d] <= applied'[d] /\ applied'[d] <= sent - 1
    BY <2>1, <1>1
  <2>. QED
    BY <1>2, <2>2, ReportKeeps DEF ServerApply
<1>3. CASE ServerSendRow(s)
  <2>1. applied' = applied
    BY <1>3 DEF ServerSendRow
  <2>2. applied' \in [Servers -> Int]
        /\ \A d \in Servers : applied[d] <= applied'[d] /\ applied'[d] <= sent - 1
    BY <2>1, <1>1
  <2>. QED
    BY <1>3, <2>2, ReportKeeps DEF ServerSendRow
<1>. QED
  BY <1>2, <1>3

-----------------------------------------------------------------------------
(* What the worker does with a message: everything Receive computes, in    *)
(* terms of batches.                                                       *)
LEMMA ReceiveIs ==
  ASSUME VersionsInv, NEW s \in Servers, toWorker[s] # << >>
  PROVE  LET n == Head(toWorker[s]).no
             k == [known EXCEPT ![s] = n]
             a == Acknowledged(s, Version(n))
         IN  /\ n \in Int /\ known[s] <= n /\ n <= applied[s] /\ n <= sent - 1
             /\ k \in [Servers -> Int]
             /\ Oldest(k) \in Window
             /\ n = known[s] => k = known
             /\ a.map \in [Servers -> Int]
             /\ \A d \in Servers : a.map[d] = Version(k[d])
             /\ a.min = Version(Oldest(k))
             /\ a.list \in Seq(Int)
             /\ Len(a.list) = sent - 1 - Oldest(k)
             /\ \A i \in DOMAIN a.list : a.list[i] = Oldest(k) + i
             /\ a.check
             /\ ReplayCheck(a.list, Version(n))
             /\ Replayed(a.list, Version(n)) =
                  IF SameLap(n) THEN (n + 1) .. (sent - 1) ELSE {}
<1> DEFINE n == Head(toWorker[s]).no
           k == [known EXCEPT ![s] = n]
           a == Acknowledged(s, Version(n))
<1>1. toWorker[s] \in Seq([ack : BOOLEAN, no : Int]) /\ sent \in Nat
      /\ applied[s] \in Int /\ applied[s] <= sent - 1
  BY DEF VersionsInv, Types, Reported
<1>2. 1 \in DOMAIN toWorker[s] /\ Head(toWorker[s]) = toWorker[s][1]
  BY <1>1
<1>3. n \in Int /\ known[s] <= n /\ n <= applied[s] /\ n <= sent - 1
  <2>1. n = toWorker[s][1].no /\ n \in Int
    BY <1>1, <1>2, MessageType
  <2>2. known[s] <= n /\ n <= applied[s]
    BY <2>1, <1>2 DEF VersionsInv, ReportsOrdered
  <2> HIDE DEF n
  <2>. QED
    BY <2>1, <2>2, <1>1
<1> HIDE DEF n
<1>4. k = [known EXCEPT ![s] = n]
  OBVIOUS
<1> HIDE DEF k
<1>5. /\ k \in [Servers -> Int]
      /\ Oldest(k) \in Window /\ Oldest(k) <= n
      /\ n = known[s] => k = known
      /\ a.map \in [Servers -> Int]
      /\ \A d \in Servers : a.map[d] = Version(k[d])
      /\ a.min = Version(Oldest(k))
      /\ a.list \in Seq(Int)
      /\ Len(a.list) = sent - 1 - Oldest(k)
      /\ \A i \in DOMAIN a.list : a.list[i] = Oldest(k) + i
      /\ a.check
  <2>1. AckExact(s, n, k)
    BY <1>3, <1>4, Acknowledges
  <2>. QED
    BY <2>1 DEF AckExact
<1> HIDE DEF a
<1>6. /\ ReplayCheck(a.list, Version(n))
      /\ Replayed(a.list, Version(n)) = IF SameLap(n) THEN (n + 1) .. (sent - 1) ELSE {}
  BY <1>1, <1>3, <1>5, Replay
<1>. QED
  BY <1>3, <1>5, <1>6 DEF n, k, a
LEMMA ReceiveKeeps ==
  ASSUME VersionsInv, NEW s \in Servers, Receive(s)
  PROVE  /\ VersionsInv'
         /\ known[s] <= Head(toWorker[s]).no /\ Head(toWorker[s]).no < sent
<1> DEFINE n == Head(toWorker[s]).no
           k == [known EXCEPT ![s] = n]
           a == Acknowledged(s, Version(n))
<1>1. Types /\ Reported /\ ReportsOrdered /\ VersionsTell /\ ListExact /\ failed = "no"
  BY DEF VersionsInv
<1>2. /\ sent \in Nat /\ applied \in [Servers -> Int]
      /\ known \in [Servers -> Int] /\ acked \in [Servers -> Int]
      /\ toWorker \in [Servers -> Seq([ack : BOOLEAN, no : Int])]
  BY <1>1 DEF Types
<1>3. /\ toWorker[s] # << >> /\ toWorker' = [toWorker EXCEPT ![s] = Tail(@)]
      /\ versionMap' = a.map /\ minVersion' = a.min /\ oplogs' = a.list
      /\ known' = k
      /\ acked' = IF Head(toWorker[s]).ack THEN [acked EXCEPT ![s] = n] ELSE acked
      /\ failed' = CASE ~a.check -> "version_upper_bound"
                     [] a.check /\ ~Head(toWorker[s]).ack /\ ~ReplayCheck(a.list, Version(n))
                          -> "OpLogIter"
                     [] OTHER -> "no"
      /\ UNCHANGED <<upperBound, applied, sent>>
  BY DEF Receive
<1>4. /\ n \in Int /\ known[s] <= n /\ n <= applied[s] /\ n <= sent - 1
      /\ k \in [Servers -> Int]
      /\ Oldest(k) \in Window
      /\ a.map \in [Servers -> Int]
      /\ \A d \in Servers : a.map[d] = Version(k[d])
      /\ a.min = Version(Oldest(k))
      /\ a.list \in Seq(Int)
      /\ Len(a.list) = sent - 1 - Oldest(k)
      /\ \A i \in DOMAIN a.list : a.list[i] = Oldest(k) + i
      /\ a.check
      /\ ReplayCheck(a.list, Version(n))
  BY <1>3, ReceiveIs
<1>5. \A d \in Servers : k[d] = IF d = s THEN n ELSE known[d]
  BY <1>2
<1>6. failed' = "no"
  BY <1>3, <1>4
<1> HIDE DEF n, k, a
<1>7. /\ toWorker'[s] = Tail(toWorker[s]) /\ toWorker' \in [Servers -> Seq([ack : BOOLEAN, no : Int])]
      /\ \A d \in Servers \ {s} : toWorker'[d] = toWorker[d]
      /\ DOMAIN toWorker'[s] = 1 .. Len(toWorker[s]) - 1
      /\ DOMAIN toWorker[s] = 1 .. Len(toWorker[s]) /\ Len(toWorker[s]) \in Nat \ {0}
      /\ \A i \in 1 .. Len(toWorker[s]) - 1 : toWorker'[s][i] = toWorker[s][i + 1]
      /\ n = toWorker[s][1].no
  <2>1. toWorker[s] \in Seq([ack : BOOLEAN, no : Int])
    BY <1>2
  <2>2. /\ Tail(toWorker[s]) \in Seq([ack : BOOLEAN, no : Int])
        /\ Len(Tail(toWorker[s])) = Len(toWorker[s]) - 1
        /\ \A i \in 1 .. Len(toWorker[s]) - 1 : Tail(toWorker[s])[i] = toWorker[s][i + 1]
        /\ Head(toWorker[s]) = toWorker[s][1] /\ Len(toWorker[s]) \in Nat \ {0}
    BY <2>1, <1>3
  <2>3. DOMAIN Tail(toWorker[s]) = 1 .. Len(toWorker[s]) - 1 /\ DOMAIN toWorker[s] = 1 .. Len(toWorker[s])
    BY <2>1, <2>2
  <2>. QED
    BY <2>2, <2>3, <1>2, <1>3 DEF n
<1>8. acked' \in [Servers -> Int]
      /\ \A d \in Servers : acked[d] <= acked'[d] /\ acked'[d] <= k[d]
  <2>1. CASE Head(toWorker[s]).ack
    <3>1. acked' = [acked EXCEPT ![s] = n]
      BY <2>1, <1>3
    <3>2. acked' \in [Servers -> Int]
      BY <3>1, <1>2, <1>4
    <3>3. ASSUME NEW d \in Servers
          PROVE  acked[d] <= acked'[d] /\ acked'[d] <= k[d]
      <4>1. acked[d] \in Int /\ known[d] \in Int /\ acked[d] <= known[d]
        BY <1>1, <1>2 DEF Reported
      <4>2. CASE d = s
        <5>1. acked'[d] = n /\ k[d] = n /\ known[d] <= n
          BY <3>1, <4>2, <1>2, <1>4, <1>5
        <5>. QED
          BY <5>1, <4>1, <1>4
      <4>3. CASE d # s
        <5>1. acked'[d] = acked[d] /\ k[d] = known[d]
          BY <3>1, <4>3, <1>2, <1>5
        <5>. QED
          BY <5>1, <4>1
      <4>. QED
        BY <4>2, <4>3
    <3>. QED
      BY <3>2, <3>3
  <2>2. CASE ~Head(toWorker[s]).ack
    <3>1. acked' = acked
      BY <2>2, <1>3
    <3>2. ASSUME NEW d \in Servers
          PROVE  acked[d] <= acked[d] /\ acked[d] <= k[d]
      <4>1. acked[d] \in Int /\ known[d] \in Int /\ acked[d] <= known[d]
        BY <1>1, <1>2 DEF Reported
      <4>2. k[d] \in Int /\ known[d] <= k[d]
        BY <4>1, <1>4, <1>5
      <4>. QED
        BY <4>1, <4>2
    <3>. QED
      BY <3>1, <3>2, <1>2
  <2>. QED
    BY <2>1, <2>2
<1>9. Types'
  <2>1. a.min \in Int
    BY <1>1, <1>2, <1>4, VersionsCompare DEF VersionsTell
  <2>. QED
    BY <2>1, <1>1, <1>3, <1>4, <1>7, <1>8 DEF Types
<1>10. Reported'
  <2>1. SUFFICES ASSUME NEW d \in Servers
                 PROVE  /\ -1 <= acked'[d] /\ acked'[d] <= k[d] /\ k[d] <= applied[d]
                        /\ applied[d] <= sent - 1 /\ sent - 1 - acked'[d] <= MaxPending
    BY <1>3 DEF Reported
  <2>2. /\ -1 <= acked[d] /\ known[d] <= applied[d] /\ applied[d] <= sent - 1
        /\ sent - 1 - acked[d] <= MaxPending
        /\ acked[d] \in Int /\ acked'[d] \in Int /\ applied[d] \in Int /\ known[d] \in Int
    BY <1>1, <1>2, <1>8 DEF Reported
  <2>3. k[d] <= applied[d]
    BY <2>2, <1>4, <1>5
  <2>4. MaxPending \in Int
    BY ModulusType
  <2>. QED
    BY <2>2, <2>3, <2>4, <1>2, <1>8
<1>11. ReportsOrdered'
  <2>1. SUFFICES ASSUME NEW d \in Servers
                 PROVE  /\ \A i \in DOMAIN toWorker'[d] :
                              /\ k[d] <= toWorker'[d][i].no
                              /\ toWorker'[d][i].no <= applied[d]
                        /\ \A i, j \in DOMAIN toWorker'[d] :
                             i <= j => toWorker'[d][i].no <= toWorker'[d][j].no
    BY <1>3 DEF ReportsOrdered
  <2>2. /\ \A i \in DOMAIN toWorker[d] : /\ known[d] <= toWorker[d][i].no
                                         /\ toWorker[d][i].no <= applied[d]
        /\ \A i, j \in DOMAIN toWorker[d] :
             i <= j => toWorker[d][i].no <= toWorker[d][j].no
    BY <1>1 DEF ReportsOrdered
  <2>3. CASE d # s
    BY <2>2, <2>3, <1>5, <1>7
  <2>4. CASE d = s
    <3>1. \A i \in DOMAIN toWorker'[d] :
            /\ i \in Int /\ 1 \in DOMAIN toWorker[d] /\ 1 <= i + 1
            /\ i + 1 \in DOMAIN toWorker[d] /\ toWorker'[d][i] = toWorker[d][i + 1]
      BY <2>4, <1>7
    <3>2. k[d] = toWorker[d][1].no
      BY <2>4, <1>5, <1>7
    <3>3. \A i, j \in Int : i <= j => i + 1 <= j + 1
      OBVIOUS
    <3>4. \A i \in DOMAIN toWorker'[d] : /\ k[d] <= toWorker'[d][i].no
                                         /\ toWorker'[d][i].no <= applied[d]
      BY <3>1, <3>2, <2>2
    <3>5. \A i, j \in DOMAIN toWorker'[d] :
             i <= j => toWorker'[d][i].no <= toWorker'[d][j].no
      BY <3>1, <3>3, <2>2
    <3>. QED
      BY <3>4, <3>5
  <2>. QED
    BY <2>3, <2>4
<1>12. Oldest(known)' = Oldest(k)
  BY <1>3 DEF Oldest
<1>13. VersionsTell'
  BY <1>1, <1>3, <1>4, <1>12 DEF VersionsTell, Version
<1>14. ListExact'
  BY <1>3, <1>4, <1>12 DEF ListExact
<1>15. known[s] <= n /\ n < sent
  BY <1>2, <1>4
<1>. QED
  BY <1>6, <1>9, <1>10, <1>11, <1>13, <1>14, <1>15 DEF VersionsInv, n

LEMMA VersionsStep == VersionsInv /\ [Next]_vvars => VersionsInv'
<1>1. SUFFICES ASSUME VersionsInv, [Next]_vvars PROVE VersionsInv'
  OBVIOUS
<1>2. CASE SendBatch
  BY <1>1, <1>2, SendBatchKeeps
<1>3. ASSUME NEW s \in Servers, ServerApply(s) \/ ServerSendRow(s) PROVE VersionsInv'
  BY <1>1, <1>3, ServerKeeps
<1>4. ASSUME NEW s \in Servers, Receive(s) PROVE VersionsInv'
  BY <1>1, <1>4, ReceiveKeeps
<1>5. CASE UNCHANGED vvars
  BY <1>1, <1>5 DEF vvars, VersionsInv, Types, Reported, ReportsOrdered, VersionsTell, ListExact,
                    Oldest, Version
<1>. QED
  BY <1>1, <1>2, <1>3, <1>4, <1>5 DEF Next

LEMMA VersionsInvHolds == Spec => []VersionsInv
<1>. QED
  BY VersionsInit, VersionsStep, PTL DEF Spec

-----------------------------------------------------------------------------
(* The minimum that is kept is always the version of the batch that all    *)
(* servers are known to have, however often versions wrap around           *)
(* (ServerVersionMgr).                                                     *)
THEOREM MinAlwaysOldest == Spec => []MinIsOldest
<1>1. VersionsInv => MinIsOldest
  BY DEF VersionsInv, VersionsTell, MinIsOldest, Oldest
<1>. QED
  BY <1>1, VersionsInvHolds, PTL

(* A row that arrives never gets a batch twice, and gets all the batches   *)
(* it lacks unless a version has wrapped between the first of them and the *)
(* worker's next batch (CheckAndApplyOldOpLogsToRowData).                  *)
THEOREM ReplayAlwaysExact == Spec => []ReplayExactInLap
<1>1. VersionsInv => ReplayExactInLap
  <2>1. SUFFICES ASSUME VersionsInv, NEW s \in Servers, toWorker[s] # << >>
                 PROVE  /\ ReplayedOn(s) \subseteq Lacking(s)
                        /\ SameLap(RowNo(s)) => ReplayedOn(s) = Lacking(s)
    BY DEF ReplayExactInLap, RowArrives
  <2>2. IF SameLap(RowNo(s)) THEN ReplayedOn(s) = Lacking(s) ELSE ReplayedOn(s) = {}
    BY <2>1, ReceiveIs DEF RowNo, ReplayedOn, Lacking
  <2>. QED
    BY <2>2
<1>. QED
  BY <1>1, VersionsInvHolds, PTL

(* Neither the CHECK on the upper bound nor the one that the list has the  *)
(* batches to replay ever fails.                                           *)
THEOREM VersionsNeverFail == Spec => [](failed = "no")
<1>1. VersionsInv => failed = "no"
  BY DEF VersionsInv
<1>. QED
  BY <1>1, VersionsInvHolds, PTL

-----------------------------------------------------------------------------
(* The refinement of RetainedBatches.                                      *)
LEMMA ListRange ==
  ASSUME NEW list \in Seq(Int), NEW p \in Int, NEW l \in Int, Len(list) = l - p,
         \A i \in DOMAIN list : list[i] = p + i
  PROVE  Range(list) = (p + 1) .. l
<1>1. DOMAIN list = 1 .. (l - p)
  OBVIOUS
<1>2. \A m : m \in Range(list) <=> \E i \in 1 .. (l - p) : m = p + i
  BY <1>1 DEF Range
<1>3. \A m \in (p + 1) .. l : m - p \in 1 .. (l - p) /\ m = p + (m - p)
  OBVIOUS
<1>4. \A i \in 1 .. (l - p) : p + i \in (p + 1) .. l
  OBVIOUS
<1>5. ASSUME NEW m \in Range(list) PROVE m \in (p + 1) .. l
  BY <1>2, <1>4
<1>6. ASSUME NEW m \in (p + 1) .. l PROVE m \in Range(list)
  <2>1. m - p \in 1 .. (l - p) /\ m = p + (m - p)
    BY <1>3
  <2> DEFINE i == m - p
  <2>2. i \in 1 .. (l - p) /\ m = p + i
    BY <2>1
  <2> HIDE DEF i
  <2>. QED
    BY <2>2, <1>2
<1>. QED
  BY <1>5, <1>6

LEMMA InvRange ==
  ASSUME VersionsInv
  PROVE  Range(oplogs) = (Oldest(known) + 1) .. (sent - 1) /\ Oldest(known) \in Int /\ sent \in Nat
         /\ Oldest(known) <= sent - 1
<1>1. /\ oplogs \in Seq(Int) /\ Len(oplogs) = sent - 1 - Oldest(known)
      /\ \A i \in DOMAIN oplogs : oplogs[i] = Oldest(known) + i
      /\ sent \in Nat /\ Oldest(known) \in Window
  BY InvWindow DEF VersionsInv, Types, ListExact
<1>2. Oldest(known) \in Int /\ sent - 1 \in Int /\ Oldest(known) <= sent - 1
  BY <1>1 DEF Window
<1>. QED
  BY <1>1, <1>2, ListRange

LEMMA RetainedInit == Init => Retained!Init
<1>1. SUFFICES ASSUME Init PROVE Retained!Init
  OBVIOUS
<1>2. Range(oplogs) = {}
  BY <1>1 DEF Init, Range
<1>. QED
  BY <1>1, <1>2 DEF Init, Retained!Init

LEMMA RetainedStep ==
  VersionsInv /\ [Next]_vvars => [Retained!Next]_<<sent, known, Range(oplogs)>>
<1>1. SUFFICES ASSUME VersionsInv, [Next]_vvars
               PROVE  \/ Retained!Next
                      \/ UNCHANGED <<sent, known, Range(oplogs)>>
  OBVIOUS
<1>2. VersionsInv'
  BY <1>1, VersionsStep
<1>3. CASE SendBatch
  <2>1. /\ oplogs' = Append(oplogs, sent) /\ sent' = sent + 1 /\ UNCHANGED known
    BY <1>3 DEF SendBatch
  <2>2. oplogs \in Seq(Int) /\ sent \in Int
    BY <1>1 DEF VersionsInv, Types
  <2>3. Range(oplogs') = Range(oplogs) \cup {sent}
    <3>1. /\ DOMAIN oplogs' = 1 .. Len(oplogs) + 1 /\ DOMAIN oplogs = 1 .. Len(oplogs)
          /\ Len(oplogs) \in Nat
          /\ \A i \in 1 .. Len(oplogs) + 1 :
               oplogs'[i] = IF i = Len(oplogs) + 1 THEN sent ELSE oplogs[i]
      BY <2>1, <2>2
    <3>2. \A i : i \in 1 .. Len(oplogs) + 1 <=> i \in 1 .. Len(oplogs) \/ i = Len(oplogs) + 1
      BY <3>1
    <3>3. Len(oplogs) + 1 \notin 1 .. Len(oplogs)
      BY <3>1
    <3>. QED
      BY <3>1, <3>2, <3>3 DEF Range
  <2>4. Retained!Send
    BY <2>1, <2>3 DEF Retained!Send
  <2>. QED
    BY <2>4 DEF Retained!Next
<1>4. ASSUME NEW s \in Servers, ServerApply(s) \/ ServerSendRow(s)
      PROVE  UNCHANGED <<sent, known, Range(oplogs)>>
  BY <1>4 DEF ServerApply, ServerSendRow, Range
<1>5. ASSUME NEW s \in Servers, Receive(s)
      PROVE  Retained!Next \/ UNCHANGED <<sent, known, Range(oplogs)>>
  <2> DEFINE n == Head(toWorker[s]).no
  <2>1. /\ known' = [known EXCEPT ![s] = n] /\ UNCHANGED sent
    BY <1>5 DEF Receive
  <2>2. known[s] <= n /\ n < sent /\ n \in Int /\ -1 <= known[s] /\ known[s] \in Int
        /\ known \in [Servers -> Int]
    <3>1. toWorker[s] # << >>
      BY <1>5 DEF Receive
    <3>2. n \in Int
      BY <3>1, <1>1, ReceiveIs
    <3>3. known[s] <= n /\ n < sent
      BY <1>1, <1>5, ReceiveKeeps
    <3>4. -1 <= known[s] /\ known[s] \in Int /\ known \in [Servers -> Int]
      <4>1. /\ known \in [Servers -> Int] /\ acked[s] \in Int
            /\ -1 <= acked[s] /\ acked[s] <= known[s]
        BY <1>1 DEF VersionsInv, Types, Reported
      <4>. QED
        BY <4>1
    <3>. QED
      BY <3>2, <3>3, <3>4
  <2> HIDE DEF n
  <2>3. /\ Range(oplogs) = (Oldest(known) + 1) .. (sent - 1) /\ Oldest(known) \in Int
        /\ sent \in Nat
    BY <1>1, InvRange
  <2>4. /\ Range(oplogs') = (Oldest(known') + 1) .. (sent - 1) /\ Oldest(known') \in Int
    <3>1. (Range(oplogs) = (Oldest(known) + 1) .. (sent - 1) /\ Oldest(known) \in Int)'
      BY <1>2, InvRange, PTL
    <3>. QED
      BY <3>1, <2>1 DEF Oldest, Range
  <2>5. CASE n = known[s]
    <3>1. known' = known
      BY <2>1, <2>2, <2>5
    <3>. QED
      BY <3>1, <2>1, <2>3, <2>4
  <2>6. CASE n # known[s]
    <3>1. n \in 0 .. sent - 1
      BY <2>2, <2>3, <2>6
    <3>2. Oldest(known) <= Oldest(known')
      <4>1. known' \in [Servers -> Int] /\ \A d \in Servers : known[d] <= known'[d]
        BY <2>1, <2>2
      <4>2. PICK d \in Servers : Oldest(known') = known'[d]
        BY <4>1, OldestIs
      <4>3. Oldest(known) <= known[d] /\ known[d] <= known'[d] /\ known[d] \in Int /\ known'[d] \in Int
        BY <2>2, <4>1, OldestIs
      <4>. QED
        BY <4>2, <4>3, <2>3
    <3>3. Range(oplogs') = { k \in Range(oplogs) : k > Oldest(known') }
      BY <3>2, <2>3, <2>4
    <3>4. Retained!Hear(s, n)
      <4>1. Retained!Min(Retained!Range(known')) = Oldest(known')
        BY DEF Retained!Min, Retained!Range, Oldest, Min, Range
      <4>2. Range(oplogs)' = Range(oplogs')
        BY DEF Range
      <4> HIDE DEF Oldest
      <4>. QED
        BY <4>1, <4>2, <3>3, <2>1, <2>2 DEF Retained!Hear
    <3>. QED
      BY <3>1, <3>4 DEF Retained!Next
  <2>. QED
    BY <2>5, <2>6
<1>6. CASE UNCHANGED vvars
  BY <1>6 DEF vvars, Range
<1>. QED
  BY <1>1, <1>3, <1>4, <1>5, <1>6 DEF Next

(* The list of retained batches implements RetainedBatches: a batch is in  *)
(* it from when it is sent until every server is known to have applied it, *)
(* although only versions are compared (TrackBgOpLog and                   *)
(* ServerAcknowledgeVersion).                                              *)
THEOREM RetainedImplemented == Spec => RetainedSpec
<1>1. VersionsInv /\ [Next]_vvars => [Retained!Next]_Retained!rvars
  BY RetainedStep DEF Retained!rvars
<1>. QED
  BY <1>1, RetainedInit, VersionsInvHolds, PTL DEF Spec, RetainedSpec, Retained!Spec

=============================================================================
