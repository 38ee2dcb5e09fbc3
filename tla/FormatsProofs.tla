----------------------------- MODULE FormatsProofs -----------------------------
(***************************************************************************)
(* Proofs about the data formats, for every set of texts and ints and for  *)
(* messages, lists and command lines of every length.                      *)
(*                                                                         *)
(* Parsing is a fold over a sequence.  What holds along a fold is shown by *)
(* the least step at which it would fail (LeastNatural, NatSteps), so that *)
(* no induction theorem with an operator parameter is needed.              *)
(*                                                                         *)
(* The invariant of the messages is Messages(k): the shapes of a message   *)
(* of type k, with a condition on each row of its table that ties the      *)
(* value of the field to its has-bit.  Every method keeps it.  What the    *)
(* getters return of a field is FieldOf(m, r), and of a message that       *)
(* another one was merged or read into, row by row, Joins(k, n, to, from). *)
(***************************************************************************)
EXTENDS MCFormats, SequenceTheorems, WellFoundedInduction, TLAPS

-----------------------------------------------------------------------------
(* Natural numbers and folds                                               *)

\* The order of the numbers, as a relation.
Less == {ss \in Nat \X Nat : ss[1] < ss[2]}

\* A set of numbers has a least one.
LEMMA LeastNatural ==
  ASSUME NEW T, T \subseteq Nat, T # {}
  PROVE \E n \in T : \A m \in T : n <= m
  <1>1. IsWellFoundedOn(Less, Nat)
    BY NatLessThanWellFounded DEF OpToRel, Less
  <1>2. PICK n \in T : \A m \in T : ~(<<m, n>> \in Less)
    BY WFMin, <1>1
  <1>3. ASSUME NEW m \in T PROVE n <= m
    <2>1. m \in Nat /\ n \in Nat
      OBVIOUS
    <2>2. ~(m < n)
      BY <1>2, <2>1 DEF Less
    <2> QED BY <2>1, <2>2
  <1> QED BY <1>3

\* A set that has 0, and with every number up to n - 1 the next one, has n.
LEMMA NatSteps ==
  ASSUME NEW T, 0 \in T, NEW n \in Nat, \A m \in 1..n : m - 1 \in T => m \in T
  PROVE n \in T
  <1> SUFFICES ASSUME n \notin T PROVE FALSE
    OBVIOUS
  <1> DEFINE U == {m \in 0..n : m \notin T}
  <1>1. U \subseteq Nat /\ U # {}
    OBVIOUS
  <1>2. PICK m \in U : \A k \in U : m <= k
    BY <1>1, LeastNatural
  <1>3. m \in 1..n /\ m - 1 \in 0..n /\ m - 1 \notin U
    BY <1>2
  <1> QED BY <1>3

\* Max() of some of the first n numbers is their largest.
LEMMA MaxOf ==
  ASSUME NEW n \in Nat, NEW s \in SUBSET (1..n), s # {}
  PROVE Max(s) \in s /\ \A m \in s : m <= Max(s)
  <1> DEFINE U == {n - m : m \in s}
  <1>1. U \subseteq Nat /\ U # {}
    OBVIOUS
  <1>2. PICK k \in U : \A j \in U : k <= j
    BY <1>1, LeastNatural
  <1>3. PICK m \in s : k = n - m
    OBVIOUS
  <1>4. \A j \in s : m >= j
    <2> TAKE j \in s
    <2>1. n - j \in U
      OBVIOUS
    <2> QED BY <1>2, <1>3, <2>1
  <1> QED BY <1>4 DEF Max

\* A fold goes from a set of numbers to the smaller ones.
LEMMA Below ==
  ASSUME NEW n \in Nat, NEW s \in SUBSET (1..n), s # {}
  PROVE Max(s) \in 1..n /\ s \ {Max(s)} \in SUBSET (1..Max(s) - 1) /\ s \ {Max(s)} \in SUBSET (1..n)
  <1>1. PICK m \in 1..n : m = Max(s) /\ \A k \in s : k <= m
    BY MaxOf
  <1>2. \A k \in s \ {m} : k \in 1..m - 1
    <2> TAKE k \in s \ {m}
    <2>1. k \in 1..n /\ k <= m /\ k # m
      BY <1>1
    <2> QED BY <2>1
  <1> QED BY <1>1, <1>2

\* So it goes through the prefixes of a sequence.
LEMMA MaxOfFirst ==
  ASSUME NEW n \in Nat, n # 0
  PROVE Max(1..n) = n /\ 1..n \ {n} = 1..n-1
  <1>1. Max(1..n) = n
    <2>1. 1..n \in SUBSET (1..n) /\ 1..n # {} /\ n \in 1..n
      OBVIOUS
    <2>2. PICK m \in 1..n : m = Max(1..n) /\ n <= m
      BY MaxOf, <2>1
    <2> QED BY <2>2
  <1> QED BY <1>1

\* g is the fold of F from base, over sets of the first n numbers.
FoldOf(g, base, n, F) ==
  \A s \in SUBSET (1..n) : g[s] = IF s = {} THEN base ELSE F[<<Max(s), g[s \ {Max(s)}]>>]

\* A function has a fold.
LEMMA FoldExists ==
  ASSUME NEW V, NEW base \in V, NEW n \in Nat, NEW F \in [(1..n) \X V -> V]
  PROVE \E g \in [SUBSET (1..n) -> V] : FoldOf(g, base, n, F)
  <1> DEFINE Sol(k, g) == FoldOf(g, base, k, F)
             T == {k \in 0..n : \E g \in [SUBSET (1..k) -> V] : Sol(k, g)}
  <1>1. 0 \in T
    <2> DEFINE g == [s \in SUBSET (1..0) |-> base]
    <2>1. g \in [SUBSET (1..0) -> V] /\ Sol(0, g)
      BY DEF FoldOf
    <2> HIDE DEF g, Sol
    <2>2. 0 \in 0..n /\ \E q \in [SUBSET (1..0) -> V] : Sol(0, q)
      BY <2>1
    <2> QED BY <2>2
  <1>2. ASSUME NEW k \in 1..n, k - 1 \in T PROVE k \in T
    <2>1. PICK g \in [SUBSET (1..k-1) -> V] : Sol(k-1, g)
      BY <1>2
    <2> DEFINE h == [s \in SUBSET (1..k) |-> IF k \in s THEN F[<<k, g[s \ {k}]>>] ELSE g[s]]
    <2>2. h \in [SUBSET (1..k) -> V]
      <3> SUFFICES ASSUME NEW s \in SUBSET (1..k) PROVE (IF k \in s THEN F[<<k, g[s \ {k}]>>] ELSE g[s]) \in V
        OBVIOUS
      <3>1. CASE k \in s
        <4>1. s \ {k} \in SUBSET (1..k-1)
          OBVIOUS
        <4> QED BY <3>1, <4>1
      <3>2. CASE k \notin s
        <4>1. s \in SUBSET (1..k-1)
          BY <3>2
        <4> QED BY <3>2, <4>1
      <3> QED BY <3>1, <3>2
    <2>3. ASSUME NEW s \in SUBSET (1..k)
          PROVE h[s] = IF s = {} THEN base ELSE F[<<Max(s), h[s \ {Max(s)}]>>]
      <3>1. CASE k \in s
        <4>0. PICK m \in 1..k : m = Max(s) /\ k <= m
          <5> HIDE DEF h, Sol, T
          <5>1. k \in Nat /\ s # {}
            BY <3>1
          <5>2. Max(s) \in s /\ \A j \in s : j <= Max(s)
            BY MaxOf, <5>1
          <5> QED BY <5>2, <3>1
        <4>1. Max(s) = k
          <5> HIDE DEF h, Sol, T
          <5> QED BY <4>0
        <4>2. s \ {k} \in SUBSET (1..k-1) /\ k \notin s \ {k} /\ s \ {k} \in SUBSET (1..k)
          OBVIOUS
        <4>3. h[s \ {k}] = g[s \ {k}]
          BY <4>2
        <4> QED BY <3>1, <4>1, <4>3
      <3>2. CASE k \notin s
        <4>1. s \in SUBSET (1..k-1)
          BY <3>2
        <4>2. CASE s = {}
          BY <4>1, <4>2, <3>2, <2>1 DEF FoldOf
        <4>3. CASE s # {}
          <5>0. k - 1 \in Nat
            OBVIOUS
          <5>1. s \ {Max(s)} \in SUBSET (1..k-1)
            BY <4>1
          <5>2. h[s \ {Max(s)}] = g[s \ {Max(s)}]
            <6>1. k \notin s \ {Max(s)} /\ s \ {Max(s)} \in SUBSET (1..k)
              BY <5>1
            <6> QED BY <6>1
          <5>3. h[s] = g[s]
            BY <3>2
          <5>4. g[s] = F[<<Max(s), g[s \ {Max(s)}]>>]
            BY <2>1, <4>1, <4>3 DEF FoldOf
          <5> QED BY <4>3, <5>2, <5>3, <5>4
        <4> QED BY <4>2, <4>3
      <3> QED BY <3>1, <3>2
    <2>4. Sol(k, h)
      <3> HIDE DEF h
      <3> QED BY <2>3 DEF FoldOf
    <2> HIDE DEF h, Sol
    <2>5. k \in 0..n /\ \E q \in [SUBSET (1..k) -> V] : Sol(k, q)
      BY <2>2, <2>4
    <2> QED BY <2>5
  <1> HIDE DEF Sol
  <1>3. n \in T
    <2> HIDE DEF T
    <2>1. \A k \in 1..n : k - 1 \in T => k \in T
      BY <1>2
    <2> QED BY <1>1, <2>1, NatSteps
  <1>4. \E g \in [SUBSET (1..n) -> V] : Sol(n, g)
    BY <1>3
  <1> QED BY <1>4 DEF Sol

\* What holds at the start of a fold and is kept by its steps holds at the end.
LEMMA FoldSteps ==
  ASSUME NEW n \in Nat, NEW W, NEW h,
         h[{}] \in W[0],
         \A i \in 1..n : h[1..i-1] \in W[i-1] => h[1..i] \in W[i]
  PROVE h[1..n] \in W[n]
  <1> DEFINE T == {i \in 0..n : h[1..i] \in W[i]}
  <1>1. 0 \in T
    <2>1. 1..0 = {}
      OBVIOUS
    <2> QED BY <2>1
  <1>2. \A i \in 1..n : i - 1 \in T => i \in T
    <2> SUFFICES ASSUME NEW i \in 1..n, i - 1 \in T PROVE i \in T
      OBVIOUS
    <2>1. h[1..i-1] \in W[i-1]
      OBVIOUS
    <2>2. h[1..i] \in W[i]
      BY <2>1
    <2>3. i \in 0..n
      OBVIOUS
    <2> QED BY <2>2, <2>3
  <1>3. n \in T
    <2> HIDE DEF T
    <2> QED BY <1>1, <1>2, NatSteps
  <1> QED BY <1>3

-----------------------------------------------------------------------------
(* Division, and ints on the wire                                         *)

\* Only 0 times p is less than p away from 0.
LEMMA Multiple ==
  ASSUME NEW p \in Nat \ {0}, NEW z \in Int, -p < p * z, p * z < p
  PROVE z = 0
  <1>1. ASSUME z >= 1 PROVE FALSE
    <2>1. p * z >= p
      BY <1>1
    <2> QED BY <2>1
  <1>2. ASSUME z <= -1 PROVE FALSE
    <2>1. p * z <= -p
      BY <1>2
    <2> QED BY <2>1
  <1> QED BY <1>1, <1>2

\* Division with rest.
LEMMA Division ==
  ASSUME NEW p \in Nat \ {0}, NEW n \in Int
  PROVE n = p * (n \div p) + (n % p) /\ n % p \in 0..p - 1 /\ n \div p \in Int
  <1>1. p \in Int /\ p > 0
    OBVIOUS
  <1>2. n \div p \in Int
    BY <1>1
  <1>3. n % p \in 0..p - 1
    BY <1>1
  <1>4. n = p * (n \div p) + (n % p)
    OBVIOUS
  <1> QED BY <1>2, <1>3, <1>4

\* Numbers that are a multiple of p apart have the same rest.
LEMMA SameRest ==
  ASSUME NEW p \in Nat \ {0}, NEW n \in Int, NEW z \in Int
  PROVE (n + p * z) % p = n % p
  <1> DEFINE m == n + p * z
             r == n % p
             s == m % p
             q == n \div p
             t == m \div p
  <1>1. n = p * q + r /\ r \in 0..p - 1 /\ q \in Int
    BY Division
  <1>2. m \in Int /\ m = n + p * z
    OBVIOUS
  <1>3. m = p * t + s /\ s \in 0..p - 1 /\ t \in Int
    <2> HIDE DEF m
    <2> QED BY <1>2, Division
  <1> HIDE DEF m, r, s, q, t
  <1>4. s - r = p * (q + z - t)
    <2>1. p * (q + z - t) = p * q + p * z - p * t
      BY <1>1, <1>3
    <2> QED BY <1>1, <1>2, <1>3, <2>1
  <1> DEFINE e == q + z - t
  <1>5. e \in Int /\ s - r = p * e
    BY <1>1, <1>3, <1>4
  <1> HIDE DEF e
  <1>6. -p < p * e /\ p * e < p
    <2>1. -p < s - r /\ s - r < p
      BY <1>1, <1>3
    <2> QED BY <1>5, <2>1
  <1>7. e = 0
    BY <1>5, <1>6, Multiple
  <1>8. s = r
    BY <1>1, <1>3, <1>5, <1>7
  <1> QED BY <1>8 DEF m, r, s

\* The program has ints of their width only.
LEMMA IntsAreInts ==
  ASSUME NEW width \in {Bits32, Bits64}
  PROVE /\ IntsOf(width) \subseteq Int /\ 0 \in IntsOf(width)
        /\ Ints \subseteq IntsOf(Bits64)
        /\ \A u \in Int : FromWire(u, width) \in IntsOf(width)
  <1>1. Ints \subseteq IntsOf(Bits64)
    BY MessagesAssumption DEF IntsOf
  <1> DEFINE h == 2^(width - 1)
             p == 2^width
  <1>2. h \in Nat \ {0} /\ p = 2 * h
    BY PowersAssumption
  <1>4. IntsOf(width) = -h..h - 1
    BY DEF IntsOf
  <1>5. ASSUME NEW u \in Int PROVE FromWire(u, width) \in -h..h - 1
    <2>1. FromWire(u, width) = LET v == u % p IN IF v >= h THEN v - p ELSE v
      BY DEF FromWire
    <2> HIDE DEF p, h
    <2>2. u % p \in 0..p - 1
      BY <1>2
    <2> QED BY <1>2, <2>1, <2>2
  <1> HIDE DEF p, h
  <1>6. 0 \in -h..h - 1 /\ -h..h - 1 \subseteq Int
    BY <1>2
  <1> QED BY <1>1, <1>4, <1>5, <1>6

\* A negative int arrives as it was sent, though it was sent as a larger unsigned one.
LEMMA WireKeepsInts ==
  ASSUME NEW width \in {Bits32, Bits64}, NEW n \in IntsOf(width)
  PROVE FromWire(ToWire(n), width) = n
  <1> DEFINE h == 2^(width - 1)
             p == 2^width
             w == 2^Bits64
  <1>1. h \in Nat \ {0} /\ p = 2 * h /\ p \in Nat \ {0} /\ n \in -h..h - 1 /\ w \in Nat \ {0} /\ w % p = 0
    <2>1. h \in Nat \ {0} /\ p = 2 * h /\ w \in Nat \ {0}
      BY PowersAssumption
    <2>2. w % p = 0
      <3>1. CASE width = Bits32
        BY <3>1, PowersAssumption
      <3>2. CASE width = Bits64
        <4>1. w = p
          BY <3>2
        <4> HIDE DEF w, p, h
        <4> QED BY <2>1, <4>1
      <3> QED BY <3>1, <3>2
    <2> QED BY <2>1, <2>2 DEF IntsOf
  <1>2. FromWire(ToWire(n), width) = LET v == (n % w) % p IN IF v >= h THEN v - p ELSE v
    BY DEF FromWire, ToWire
  <1> HIDE DEF h, p, w
  <1>3. (n % w) % p = n % p
    <2> DEFINE c == w \div p
               d == n \div w
               r == n % w
    <2>1. w = p * c + (w % p) /\ c \in Int
      <3>1. w \in Int
        BY <1>1
      <3> QED BY <1>1, <3>1, Division
    <2>2. n = w * d + r /\ d \in Int /\ r \in 0..w - 1
      BY <1>1, Division
    <2> HIDE DEF c, d, r
    <2>3. w = p * c
      BY <1>1, <2>1
    <2>4. w * d = p * (c * d)
      BY <1>1, <2>1, <2>2, <2>3
    <2>5. c * d \in Int /\ r \in Int
      BY <1>1, <2>1, <2>2
    <2>6. n = r + p * (c * d)
      <3>1. p * (c * d) \in Int
        BY <1>1, <2>5
      <3> QED BY <2>2, <2>4, <2>5, <3>1
    <2>7. (r + p * (c * d)) % p = r % p
      BY <1>1, <2>5, SameRest
    <2> QED BY <2>6, <2>7 DEF r
  <1>4. n >= 0 => n % p = n
    BY <1>1
  <1>5. n < 0 => n % p = n + p
    <2>1. (n + p * 1) % p = n % p
      <3>1. n \in Int /\ 1 \in Int
        BY <1>1
      <3> QED BY <1>1, <3>1, SameRest
    <2>2. n < 0 => n + p \in 0..p - 1
      BY <1>1
    <2>3. p * 1 = p
      BY <1>1
    <2>4. n < 0 => (n + p) % p = n + p
      BY <1>1, <2>2
    <2> QED BY <2>1, <2>3, <2>4
  <1> QED BY <1>1, <1>2, <1>3, <1>4, <1>5

-----------------------------------------------------------------------------
(* The command line                                                        *)

\* One step of ParseArgs().
Put(args, arg) ==
  IF ~arg.dashes THEN args
  ELSE [k \in DOMAIN args \cup {arg.key} |->
          IF k # arg.key THEN args[k]
          ELSE IF arg.value = NoValue THEN EmptyValue ELSE arg.value]
\* What ParseArgs() may return.
Settings == UNION {[K -> Values] : K \in SUBSET Keys}

\* A step changes the setting of one key.
LEMMA PutIs ==
  ASSUME NEW args \in Settings, NEW arg \in Arguments
  PROVE /\ Put(args, arg) \in Settings
        /\ DOMAIN Put(args, arg) = DOMAIN args \cup (IF arg.dashes THEN {arg.key} ELSE {})
        /\ \A key \in DOMAIN Put(args, arg) :
             Put(args, arg)[key] =
               IF arg.dashes /\ key = arg.key THEN IF arg.value = NoValue THEN EmptyValue ELSE arg.value
               ELSE args[key]
  <1>1. PICK K \in SUBSET Keys : args \in [K -> Values]
    BY DEF Settings
  <1>2. CASE ~arg.dashes
    BY <1>2 DEF Put
  <1>3. CASE arg.dashes
    <2>1. arg.key \in Keys /\ (arg.value # NoValue => arg.value \in Values) /\ arg.dashes \in BOOLEAN
      BY DEF Arguments
    <2>2. Put(args, arg) = [k \in K \cup {arg.key} |->
            IF k # arg.key THEN args[k]
            ELSE IF arg.value = NoValue THEN EmptyValue ELSE arg.value]
      BY <1>1, <1>3 DEF Put
    <2>3. Put(args, arg) \in [K \cup {arg.key} -> Values]
      BY <2>1, <2>2, <1>1, ConfigAssumption
    <2> QED BY <2>1, <2>2, <2>3, <1>1, <1>3 DEF Settings
  <1> QED BY <1>2, <1>3 DEF Arguments

\* ParseArgs() goes through its arguments one after the other.
LEMMA ParseArgsFolds ==
  ASSUME NEW s \in Seq(Arguments)
  PROVE \E h : /\ ParseArgs(s) = h[1..Len(s)]
               /\ h[{}] = <<>>
               /\ \A i \in 1..Len(s) : h[1..i] = Put(h[1..i-1], s[i])
  <1> DEFINE n == Len(s)
             Body(g) == [z \in SUBSET (1..n) |-> IF z = {} THEN <<>> ELSE Put(g[z \ {Max(z)}], s[Max(z)])]
             h == CHOOSE g : g = Body(g)
  <1>0. n \in Nat /\ DOMAIN s = 1..n
    OBVIOUS
  <1>1. ParseArgs(s) = h[1..n]
    BY <1>0 DEF ParseArgs, FoldLeft, MapThenFoldSet, Put
  <1>2. \E g : g = Body(g)
    <2> DEFINE F == [p \in (1..n) \X Settings |-> Put(p[2], s[p[1]])]
    <2>1. F \in [(1..n) \X Settings -> Settings]
      <3>1. ASSUME NEW i \in 1..n, NEW v \in Settings PROVE Put(v, s[i]) \in Settings
        <4>1. s[i] \in Arguments
          BY <1>0
        <4> QED BY <4>1, PutIs
      <3> HIDE DEF n
      <3> QED BY <3>1
    <2>2. <<>> \in Settings
      <3>1. <<>> \in [{} -> Values] /\ {} \in SUBSET Keys
        OBVIOUS
      <3> QED BY <3>1 DEF Settings
    <2> HIDE DEF F, n
    <2>3. PICK g \in [SUBSET (1..n) -> Settings] : FoldOf(g, <<>>, n, F)
      BY <1>0, <2>1, <2>2, FoldExists
    <2>4. ASSUME NEW z \in SUBSET (1..n) PROVE g[z] = Body(g)[z]
      <3>1. CASE z = {}
        BY <2>3, <3>1 DEF FoldOf
      <3>2. CASE z # {}
        <4>1. Max(z) \in 1..n /\ z \ {Max(z)} \in SUBSET (1..n)
          BY <3>2, <1>0, Below
        <4>2. F[<<Max(z), g[z \ {Max(z)}]>>] = Put(g[z \ {Max(z)}], s[Max(z)])
          BY <4>1, <2>3 DEF F
        <4> QED BY <2>3, <3>2, <4>2 DEF FoldOf
      <3> QED BY <3>1, <3>2
    <2> QED BY <2>3, <2>4
  <1>3. h = Body(h)
    BY <1>2
  <1> HIDE DEF h
  <1>4. h[{}] = <<>>
    BY <1>3
  <1>5. ASSUME NEW i \in 1..n PROVE h[1..i] = Put(h[1..i-1], s[i])
    <2>1. 1..i # {} /\ 1..i \in SUBSET (1..n)
      BY <1>0
    <2>2. Max(1..i) = i /\ 1..i \ {i} = 1..i-1
      BY <1>0, MaxOfFirst
    <2> QED BY <1>3, <2>1, <2>2
  <1> QED BY <1>1, <1>4, <1>5

\* Those of the first i arguments that are about a key.
FlagsIn(s, key, i) == {k \in 1..i : s[k].dashes /\ s[k].key = key}
\* What an argument says, even when it says nothing.
ValueOf(arg) == IF arg.value = NoValue THEN EmptyValue ELSE arg.value

\* The settings after i arguments.
After(s, i) ==
  {args \in Settings : \A key \in Keys :
     IF FlagsIn(s, key, i) = {} THEN key \notin DOMAIN args
     ELSE key \in DOMAIN args /\ args[key] = ValueOf(s[Max(FlagsIn(s, key, i))])}

\* A step of ParseArgs() lets the new argument count.
LEMMA PutAfter ==
  ASSUME NEW s \in Seq(Arguments), NEW i \in 1..Len(s), NEW args \in After(s, i - 1)
  PROVE Put(args, s[i]) \in After(s, i)
  <1> DEFINE arg == s[i]
             next == Put(args, arg)
  <1>1. arg \in Arguments /\ arg.dashes \in BOOLEAN /\ arg.key \in Keys
    <2>1. arg \in Arguments
      OBVIOUS
    <2> HIDE DEF arg
    <2> QED BY <2>1 DEF Arguments
  <1>2. /\ next \in Settings
        /\ DOMAIN next = DOMAIN args \cup (IF arg.dashes THEN {arg.key} ELSE {})
        /\ \A key \in DOMAIN next :
             next[key] = IF arg.dashes /\ key = arg.key THEN ValueOf(arg) ELSE args[key]
    BY <1>1, PutIs DEF After, ValueOf
  <1> HIDE DEF next
  <1>3. ASSUME NEW key \in Keys
        PROVE IF FlagsIn(s, key, i) = {} THEN key \notin DOMAIN next
              ELSE key \in DOMAIN next /\ next[key] = ValueOf(s[Max(FlagsIn(s, key, i))])
    <2>1. CASE arg.dashes /\ arg.key = key
      <3>1. i \in FlagsIn(s, key, i) /\ FlagsIn(s, key, i) \in SUBSET (1..i) /\ i \in Nat
        BY <2>1 DEF FlagsIn
      <3>2. PICK m \in 1..i : m = Max(FlagsIn(s, key, i)) /\ i <= m
        BY <3>1, MaxOf
      <3>3. m = i
        BY <3>2
      <3> QED BY <1>1, <1>2, <2>1, <3>1, <3>2, <3>3
    <2>2. CASE ~(arg.dashes /\ arg.key = key)
      <3>1. FlagsIn(s, key, i) = FlagsIn(s, key, i - 1)
        BY <2>2 DEF FlagsIn
      <3>2. key \in DOMAIN next <=> key \in DOMAIN args
        BY <1>1, <1>2, <2>2
      <3>3. key \in DOMAIN next => next[key] = args[key]
        BY <1>2, <2>2
      <3>4. IF FlagsIn(s, key, i - 1) = {} THEN key \notin DOMAIN args
            ELSE key \in DOMAIN args /\ args[key] = ValueOf(s[Max(FlagsIn(s, key, i - 1))])
        BY DEF After
      <3> QED BY <3>1, <3>2, <3>3, <3>4
    <2> QED BY <2>1, <2>2
  <1>4. next \in After(s, i)
    BY <1>2, <1>3 DEF After
  <1> QED BY <1>4 DEF next

\* In the end the last argument for each key does.
LEMMA LastArgumentCounts ==
  ASSUME NEW s \in Seq(Arguments)
  PROVE ParseArgs(s) \in After(s, Len(s))
  <1>1. PICK h : /\ ParseArgs(s) = h[1..Len(s)]
                 /\ h[{}] = <<>>
                 /\ \A i \in 1..Len(s) : h[1..i] = Put(h[1..i-1], s[i])
    BY ParseArgsFolds
  <1> DEFINE n == Len(s)
             W == [i \in 0..n |-> After(s, i)]
  <1>2. n \in Nat
    OBVIOUS
  <1>3. h[{}] \in W[0]
    <2>1. \A key \in Keys : FlagsIn(s, key, 0) = {}
      BY DEF FlagsIn
    <2>2. <<>> \in [{} -> Values] /\ DOMAIN <<>> = {}
      OBVIOUS
    <2>3. <<>> \in Settings
      BY <2>2 DEF Settings
    <2> QED BY <1>1, <1>2, <2>1, <2>2, <2>3 DEF After
  <1>4. ASSUME NEW i \in 1..n, h[1..i-1] \in W[i-1] PROVE h[1..i] \in W[i]
    BY <1>1, <1>2, <1>4, PutAfter
  <1>5. h[1..n] \in W[n]
    <2> HIDE DEF n, W
    <2> QED BY <1>2, <1>3, <1>4, FoldSteps
  <1> QED BY <1>1, <1>2, <1>5

\* The arguments stay as they were when the gateway started.
ConfigInv ==
  /\ argv \in Seq(Arguments)
  /\ StartsAsTold

\* GetArg() finds what the user has said.
LEMMA GatewayGetsToldValue ==
  ASSUME argv \in Seq(Arguments), NEW key \in Keys, NEW def
  PROVE GetArg(ParseArgs(argv), key, def) = Told(key, def)
  <1>1. ParseArgs(argv) \in After(argv, Len(argv))
    BY LastArgumentCounts
  <1>2. FlagsIn(argv, key, Len(argv)) = {k \in 1..Len(argv) : argv[k].dashes /\ argv[k].key = key}
    BY DEF FlagsIn
  <1> QED BY <1>1, <1>2 DEF After, ValueOf, GetArg, Told

LEMMA ConfigInvStays == ConfigInv /\ [FormatsNext]_<<messageVars, configVars>> => ConfigInv'
  <1> SUFFICES ASSUME ConfigInv, [FormatsNext]_<<messageVars, configVars>> PROVE ConfigInv'
    OBVIOUS
  <1>1. CASE UNCHANGED configVars
    BY <1>1 DEF ConfigInv, StartsAsTold, Told, configVars
  <1>2. CASE AddArgument
    <2>1. argv' \in Seq(Arguments) /\ gateway' = "starting"
      BY <1>2 DEF ConfigInv, AddArgument
    <2> QED BY <2>1 DEF ConfigInv, StartsAsTold
  <1>3. CASE StartGateway
    <2>1. argv' = argv /\ env' = env
      BY <1>3 DEF StartGateway
    <2>2. \A key \in Keys : \A def : Told(key, def)' = Told(key, def)
      BY <2>1 DEF Told
    <2> DEFINE c == GatewayConfig(ParseArgs(argv))
    <2>3. c = [port |-> Told("port", DefaultPort), grpc_addr |-> Told("grpc-addr", DefaultAddr),
               instance_id |-> Told("id", DefaultId)]
      BY GatewayGetsToldValue DEF GatewayConfig, ConfigInv, Keys
    <2>4. IF c.port \in Numbers THEN gateway' = "listening" /\ cfg' = c
          ELSE gateway' = "aborted" /\ UNCHANGED cfg
      BY <1>3 DEF StartGateway
    <2>5. /\ Told("port", DefaultPort)' = Told("port", DefaultPort)
          /\ Told("grpc-addr", DefaultAddr)' = Told("grpc-addr", DefaultAddr)
          /\ Told("id", DefaultId)' = Told("id", DefaultId)
      BY <2>1 DEF Told
    <2> HIDE DEF c
    <2> QED BY <2>1, <2>3, <2>4, <2>5 DEF ConfigInv, StartsAsTold
  <1> QED BY <1>1, <1>2, <1>3 DEF FormatsNext, ConfigNext, configVars

\* A gateway listens with the settings that its command line, its environment
\* and the defaults say, in this order, and does not come up exactly when they
\* say no port; for command lines of any length.
THEOREM CommandLineRules == FormatsSpec => []StartsAsTold
  <1>1. FormatsInit => ConfigInv
    BY DEF FormatsInit, ConfigInit, ConfigInv, StartsAsTold
  <1>2. ConfigInv => StartsAsTold
    BY DEF ConfigInv
  <1> QED BY <1>1, <1>2, ConfigInvStays, PTL DEF FormatsSpec

-----------------------------------------------------------------------------
(* What a message is, after any edits                                      *)

\* A string and its bit: a string without its bit is empty, and one with it has
\* storage of its own.
TextGood(bits, bit, v) ==
  /\ v \in TextValues
  /\ v.text # Empty => bit \in bits
  /\ bit \in bits => v.own
\* An int without its bit is 0.
IntGood(width, bits, bit, v) == v \in IntsOf(width) /\ (v # 0 => bit \in bits)
Width(type) == IF type = "int32" THEN Bits32 ELSE Bits64

\* What a message may have on the wire: only messages that are no users have
\* users inside.
WireEntries == FlatEntries \cup (Nat \X {"message"} \X Seq(FlatEntries))
EntriesOf(k) == IF k = "User" THEN FlatEntries ELSE WireEntries
\* What a message of type k keeps with its unknown fields: no row reads it.
UnknownOf(k) ==
  {e \in EntriesOf(k) : \A r \in Table(k) : ~(r.num = Num(e) /\ FormOf(r.type) = Form(e))}

UserGood(u) ==
  /\ TextGood(u.bits, 1, u.val.id)
  /\ TextGood(u.bits, 2, u.val.name)
  /\ TextGood(u.bits, 4, u.val.email)
  /\ IntGood(Bits64, u.bits, 8, u.val.created_at)
  /\ u.unknown \in Seq(UnknownOf("User"))
\* The users that the program can have made.
GoodUsers == {u \in Users : UserGood(u)}

LEMMA TextClearedGood ==
  ASSUME NEW m, NEW bit, NEW v, TextGood(m.bits, bit, v)
  PROVE /\ TextGood({}, bit, TextCleared(m, bit, v))
        /\ TextCleared(m, bit, v).text = Empty
  BY MessagesAssumption DEF TextGood, TextCleared, TextValues, Has

LEMMA TextMergedGood ==
  ASSUME NEW to, NEW from, NEW bit, NEW v, NEW w,
         TextGood(to.bits, bit, v), TextGood(from.bits, bit, w)
  PROVE /\ TextGood(to.bits \cup from.bits, bit, TextMerged(v, from, bit, w))
        /\ TextMerged(v, from, bit, w).text = IF w.text # Empty THEN w.text ELSE v.text
  BY MessagesAssumption DEF TextGood, TextMerged, TextValues, Has, Text

LEMMA IntMergedGood ==
  ASSUME NEW to, NEW from, NEW width, NEW bit, NEW v, NEW w,
         IntGood(width, to.bits, bit, v), IntGood(width, from.bits, bit, w)
  PROVE /\ IntGood(width, to.bits \cup from.bits, bit, IntMerged(v, from, bit, w))
        /\ IntMerged(v, from, bit, w) = IF w # 0 THEN w ELSE v
  BY DEF IntGood, IntMerged, Has

LEMMA SharedEmptyGood == ASSUME NEW bit PROVE TextGood({}, bit, SharedEmpty)
  BY MessagesAssumption DEF TextGood, SharedEmpty, TextValues

LEMMA UserFields ==
  ASSUME NEW u \in Users
  PROVE /\ u.bits \in SUBSET Nat /\ u.unknown \in Seq(FlatEntries)
        /\ u.val \in [id : TextValues, name : TextValues, email : TextValues, created_at : Int]
        /\ u.val.id \in TextValues /\ u.val.name \in TextValues /\ u.val.email \in TextValues
        /\ u.val.created_at \in Int
  BY DEF Users

LEMMA NewUserGood == NewUser \in GoodUsers
  <1> DEFINE val == [id |-> SharedEmpty, name |-> SharedEmpty, email |-> SharedEmpty, created_at |-> 0]
  <1>1. NewUser = [bits |-> {}, val |-> val, unknown |-> <<>>]
    BY DEF NewUser, Message
  <1>2. val \in [id : TextValues, name : TextValues, email : TextValues, created_at : Int]
    BY MessagesAssumption DEF SharedEmpty, TextValues
  <1>3. UserGood(NewUser)
    <2>1. <<>> \in Seq(UnknownOf("User"))
      OBVIOUS
    <2> QED BY <1>1, <2>1, SharedEmptyGood, IntsAreInts DEF UserGood, IntGood
  <1>4. {} \in SUBSET Nat /\ <<>> \in Seq(FlatEntries)
    OBVIOUS
  <1>5. NewUser \in Users
    <2> HIDE DEF val
    <2> QED BY <1>1, <1>2, <1>4 DEF Users
  <1> QED BY <1>3, <1>5 DEF GoodUsers

\* Clear() leaves nothing that a getter would return.
LEMMA ClearUserGood ==
  ASSUME NEW u \in GoodUsers
  PROVE ClearUser(u) \in GoodUsers /\ UserContents(ClearUser(u)) = UserContents(NewUser)
  <1> DEFINE c == ClearUser(u)
             val == [id |-> TextCleared(u, 1, u.val.id), name |-> TextCleared(u, 2, u.val.name),
                     email |-> TextCleared(u, 4, u.val.email), created_at |-> 0]
  <1>1. u \in Users /\ UserGood(u)
    BY DEF GoodUsers
  <1>2. /\ TextGood({}, 1, val.id) /\ val.id.text = Empty
        /\ TextGood({}, 2, val.name) /\ val.name.text = Empty
        /\ TextGood({}, 4, val.email) /\ val.email.text = Empty
        /\ val.created_at = 0
    BY <1>1, TextClearedGood DEF UserGood
  <1>3. c.bits = {} /\ c.val = val /\ c.unknown = <<>> /\ c = [bits |-> {}, val |-> val, unknown |-> <<>>]
    BY DEF ClearUser, Message
  <1>4. val \in [id : TextValues, name : TextValues, email : TextValues, created_at : Int]
    BY <1>2 DEF TextGood
  <1> HIDE DEF val, c
  <1>5. c \in Users
    BY <1>3, <1>4 DEF Users
  <1>6. UserGood(c)
    <2>1. <<>> \in Seq(UnknownOf("User"))
      OBVIOUS
    <2> QED BY <1>2, <1>3, <2>1, IntsAreInts DEF UserGood, IntGood
  <1>7. UserContents(c) = UserContents(NewUser)
    BY <1>2, <1>3 DEF UserContents, NewUser, Message, SharedEmpty
  <1> QED BY <1>5, <1>6, <1>7 DEF GoodUsers, c

\* What the getters of a user return after it was merged, or read, into another.
UsersJoined(c, d) ==
  [id |-> IF d.id # Empty THEN d.id ELSE c.id,
   name |-> IF d.name # Empty THEN d.name ELSE c.name,
   email |-> IF d.email # Empty THEN d.email ELSE c.email,
   created_at |-> IF d.created_at # 0 THEN d.created_at ELSE c.created_at,
   unknown |-> c.unknown \o d.unknown]

\* Joining with an empty user changes nothing.
LEMMA JoinedWithNew ==
  ASSUME NEW u \in GoodUsers
  PROVE UsersJoined(UserContents(NewUser), UserContents(u)) = UserContents(u)
  <1>1. u.unknown \in Seq(FlatEntries)
    BY UserFields DEF GoodUsers
  <1>2. <<>> \o u.unknown = u.unknown
    BY <1>1
  <1> QED BY <1>2 DEF UsersJoined, UserContents, NewUser, Message, SharedEmpty

\* MergeFrom() of a user.
LEMMA MergeUserGood ==
  ASSUME NEW u \in GoodUsers, NEW w \in GoodUsers
  PROVE /\ MergeUser(u, w) \in GoodUsers
        /\ UserContents(MergeUser(u, w)) = UsersJoined(UserContents(u), UserContents(w))
  <1> DEFINE c == MergeUser(u, w)
             val == [id |-> TextMerged(u.val.id, w, 1, w.val.id),
                     name |-> TextMerged(u.val.name, w, 2, w.val.name),
                     email |-> TextMerged(u.val.email, w, 4, w.val.email),
                     created_at |-> IntMerged(u.val.created_at, w, 8, w.val.created_at)]
             bits == u.bits \cup w.bits
             unknown == u.unknown \o w.unknown
  <1>1. u \in Users /\ UserGood(u) /\ w \in Users /\ UserGood(w)
    BY DEF GoodUsers
  <1>2. /\ TextGood(bits, 1, val.id) /\ TextGood(bits, 2, val.name)
        /\ TextGood(bits, 4, val.email) /\ IntGood(Bits64, bits, 8, val.created_at)
    BY <1>1, TextMergedGood, IntMergedGood DEF UserGood
  <1>3. /\ c.bits = bits
        /\ c.val = val
        /\ c.unknown = unknown
        /\ c = [bits |-> bits, val |-> val, unknown |-> unknown]
    BY DEF MergeUser
  <1>4. val \in [id : TextValues, name : TextValues, email : TextValues, created_at : Int]
    BY <1>2, IntsAreInts DEF TextGood, IntGood
  <1>5. bits \in SUBSET Nat /\ unknown \in Seq(FlatEntries)
    BY <1>1, UserFields
  <1>6. UserContents(c) = UsersJoined(UserContents(u), UserContents(w))
    <2>1. /\ val.id.text = IF w.val.id.text # Empty THEN w.val.id.text ELSE u.val.id.text
          /\ val.name.text = IF w.val.name.text # Empty THEN w.val.name.text ELSE u.val.name.text
          /\ val.email.text = IF w.val.email.text # Empty THEN w.val.email.text ELSE u.val.email.text
      <3>1. /\ TextGood(u.bits, 1, u.val.id) /\ TextGood(w.bits, 1, w.val.id)
            /\ TextGood(u.bits, 2, u.val.name) /\ TextGood(w.bits, 2, w.val.name)
            /\ TextGood(u.bits, 4, u.val.email) /\ TextGood(w.bits, 4, w.val.email)
        BY <1>1 DEF UserGood
      <3>2. ASSUME NEW bit, NEW v, NEW z, TextGood(u.bits, bit, v), TextGood(w.bits, bit, z)
            PROVE TextMerged(v, w, bit, z).text = IF z.text # Empty THEN z.text ELSE v.text
        BY <3>2, MessagesAssumption DEF TextGood, TextMerged, TextValues, Has, Text
      <3>3. val.id.text = IF w.val.id.text # Empty THEN w.val.id.text ELSE u.val.id.text
        BY <3>1, <3>2
      <3>4. val.name.text = IF w.val.name.text # Empty THEN w.val.name.text ELSE u.val.name.text
        BY <3>1, <3>2
      <3>5. val.email.text = IF w.val.email.text # Empty THEN w.val.email.text ELSE u.val.email.text
        BY <3>1, <3>2
      <3> QED BY <3>3, <3>4, <3>5
    <2>2. val.created_at = IF w.val.created_at # 0 THEN w.val.created_at ELSE u.val.created_at
      BY <1>1 DEF UserGood, IntGood, IntMerged, Has
    <2> HIDE DEF val, c, bits
    <2> QED BY <1>3, <2>1, <2>2 DEF UserContents, UsersJoined
  <1> HIDE DEF val, c, unknown, bits
  <1>7. c \in Users
    BY <1>3, <1>4, <1>5 DEF Users
  <1>8. UserGood(c)
    <2>1. u.unknown \in Seq(UnknownOf("User")) /\ w.unknown \in Seq(UnknownOf("User"))
      BY <1>1 DEF UserGood
    <2>2. unknown \in Seq(UnknownOf("User"))
      BY <2>1 DEF unknown
    <2> QED BY <1>2, <1>3, <2>2 DEF UserGood
  <1> QED BY <1>6, <1>7, <1>8 DEF GoodUsers, c

\* The value of a field and its bit.
ValueGood(type, bits, bit, v) ==
  /\ type = "text" => TextGood(bits, bit, v)
  /\ type \in {"int32", "int64"} => IntGood(Width(type), bits, bit, v)
  /\ type = "user" =>
       /\ v \in GoodUsers \cup {NULL}
       /\ bit \in bits => v # NULL
       /\ bit \notin bits /\ v # NULL => UserContents(v) = UserContents(NewUser)
  /\ type = "users" => v \in Seq(GoodUsers) /\ (v # <<>> => bit \in bits)

\* The values of all fields together.
AnyValue == TextValues \cup Int \cup GoodUsers \cup {NULL} \cup Seq(GoodUsers)
Shapes(k) ==
  [bits : SUBSET Nat, val : [Fields(k) -> AnyValue], unknown : Seq(UnknownOf(k))]
\* The messages that the program can have made.
Messages(k) ==
  {m \in Shapes(k) : \A r \in Table(k) : ValueGood(r.type, m.bits, r.bit, m.val[r.field])}

\* The types in the tables.
Types == {"text", "int32", "int64", "user", "users"}

\* The has-bits of the first four fields.
LEMMA Bits == 2^0 = 1 /\ 2^1 = 2 /\ 2^2 = 4 /\ 2^3 = 8
  OBVIOUS

\* A row with its bit worked out.
RowIs(num, type, bit, field) == [num |-> num, type |-> type, bit |-> bit, field |-> field]

\* The tables and the fields, type by type.
LEMMA UserRows ==
  /\ Table("User") = {RowIs(1, "text", 1, "id"),
                      RowIs(2, "text", 2, "name"),
                      RowIs(3, "text", 4, "email"),
                      RowIs(4, "int64", 8, "created_at")}
  /\ Fields("User") = {"id", "name", "email", "created_at"}
  <1>1. Table("User") = UserTable
    BY DEF Table
  <1>2. Fields("User") = DOMAIN NewUser.val
    BY DEF Fields, New
  <1> QED BY <1>1, <1>2, Bits DEF UserTable, Row, RowIs, NewUser, Message

LEMMA CreateUserRequestRows ==
  /\ Table("CreateUserRequest") = {RowIs(1, "text", 1, "name"),
                      RowIs(2, "text", 2, "email")}
  /\ Fields("CreateUserRequest") = {"name", "email"}
  <1>1. Table("CreateUserRequest") = CreateUserRequestTable
    BY DEF Table
  <1>2. Fields("CreateUserRequest") = DOMAIN NewCreateUserRequest.val
    BY DEF Fields, New
  <1> QED BY <1>1, <1>2, Bits DEF CreateUserRequestTable, Row, RowIs, NewCreateUserRequest, Message

LEMMA CreateUserReplyRows ==
  /\ Table("CreateUserReply") = {RowIs(1, "user", 1, "user")}
  /\ Fields("CreateUserReply") = {"user"}
  <1>1. Table("CreateUserReply") = CreateUserReplyTable
    BY DEF Table
  <1>2. Fields("CreateUserReply") = DOMAIN NewCreateUserReply.val
    BY DEF Fields, New
  <1> QED BY <1>1, <1>2, Bits DEF CreateUserReplyTable, Row, RowIs, NewCreateUserReply, Message

LEMMA GetUserRequestRows ==
  /\ Table("GetUserRequest") = {RowIs(1, "text", 1, "id")}
  /\ Fields("GetUserRequest") = {"id"}
  <1>1. Table("GetUserRequest") = GetUserRequestTable
    BY DEF Table
  <1>2. Fields("GetUserRequest") = DOMAIN NewGetUserRequest.val
    BY DEF Fields, New
  <1> QED BY <1>1, <1>2, Bits DEF GetUserRequestTable, Row, RowIs, NewGetUserRequest, Message

LEMMA GetUserReplyRows ==
  /\ Table("GetUserReply") = {RowIs(1, "user", 1, "user")}
  /\ Fields("GetUserReply") = {"user"}
  <1>1. Table("GetUserReply") = GetUserReplyTable
    BY DEF Table
  <1>2. Fields("GetUserReply") = DOMAIN NewGetUserReply.val
    BY DEF Fields, New
  <1> QED BY <1>1, <1>2, Bits DEF GetUserReplyTable, Row, RowIs, NewGetUserReply, Message

LEMMA ListUsersRequestRows ==
  /\ Table("ListUsersRequest") = {RowIs(1, "int32", 1, "limit"),
                      RowIs(2, "int32", 2, "offset")}
  /\ Fields("ListUsersRequest") = {"limit", "offset"}
  <1>1. Table("ListUsersRequest") = ListUsersRequestTable
    BY DEF Table
  <1>2. Fields("ListUsersRequest") = DOMAIN NewListUsersRequest.val
    BY DEF Fields, New
  <1> QED BY <1>1, <1>2, Bits DEF ListUsersRequestTable, Row, RowIs, NewListUsersRequest, Message

LEMMA ListUsersReplyRows ==
  /\ Table("ListUsersReply") = {RowIs(1, "users", 1, "users"),
                      RowIs(2, "int64", 2, "total")}
  /\ Fields("ListUsersReply") = {"users", "total"}
  <1>1. Table("ListUsersReply") = ListUsersReplyTable
    BY DEF Table
  <1>2. Fields("ListUsersReply") = DOMAIN NewListUsersReply.val
    BY DEF Fields, New
  <1> QED BY <1>1, <1>2, Bits DEF ListUsersReplyTable, Row, RowIs, NewListUsersReply, Message

LEMMA GetStatsRequestRows ==
  /\ Table("GetStatsRequest") = {}
  /\ Fields("GetStatsRequest") = {}
  <1>1. Table("GetStatsRequest") = GetStatsRequestTable
    BY DEF Table
  <1>2. Fields("GetStatsRequest") = DOMAIN NewGetStatsRequest.val
    BY DEF Fields, New
  <1> QED BY <1>1, <1>2, Bits DEF GetStatsRequestTable, Row, RowIs, NewGetStatsRequest, Message

LEMMA GetStatsReplyRows ==
  /\ Table("GetStatsReply") = {RowIs(1, "int64", 1, "total_users"),
                      RowIs(2, "int64", 2, "request_count")}
  /\ Fields("GetStatsReply") = {"total_users", "request_count"}
  <1>1. Table("GetStatsReply") = GetStatsReplyTable
    BY DEF Table
  <1>2. Fields("GetStatsReply") = DOMAIN NewGetStatsReply.val
    BY DEF Fields, New
  <1> QED BY <1>1, <1>2, Bits DEF GetStatsReplyTable, Row, RowIs, NewGetStatsReply, Message

\* Every field has one row and one bit.
LEMMA TableKeys ==
  ASSUME NEW k \in Kinds
  PROVE /\ \A r \in Table(k) : r.bit \in Nat /\ r.field \in Fields(k) /\ r.type \in Types
        /\ \A r \in Table(k) : \A q \in Table(k) : (r.bit = q.bit \/ r.field = q.field) => r = q
        /\ \A f \in Fields(k) : \E r \in Table(k) : r.field = f
  <1>1. CASE k = "User"
    <2>1. /\ \A r \in Table(k) : r.bit \in Nat /\ r.field \in Fields(k) /\ r.type \in Types
          /\ \A r \in Table(k) : \A q \in Table(k) : (r.bit = q.bit \/ r.field = q.field) => r = q
      BY <1>1, UserRows DEF Types, RowIs
    <2>2. RowIs(1, "text", 1, "id") \in Table(k) /\ RowIs(1, "text", 1, "id").field = "id"
      BY <1>1, UserRows DEF RowIs
    <2>3. RowIs(2, "text", 2, "name") \in Table(k) /\ RowIs(2, "text", 2, "name").field = "name"
      BY <1>1, UserRows DEF RowIs
    <2>4. RowIs(3, "text", 4, "email") \in Table(k) /\ RowIs(3, "text", 4, "email").field = "email"
      BY <1>1, UserRows DEF RowIs
    <2>5. /\ RowIs(4, "int64", 8, "created_at") \in Table(k)
          /\ RowIs(4, "int64", 8, "created_at").field = "created_at"
      BY <1>1, UserRows DEF RowIs
    <2> QED BY <2>1, <2>2, <2>3, <2>4, <2>5, <1>1, UserRows
  <1>2. CASE k = "CreateUserRequest"
    <2>1. /\ \A r \in Table(k) : r.bit \in Nat /\ r.field \in Fields(k) /\ r.type \in Types
          /\ \A r \in Table(k) : \A q \in Table(k) : (r.bit = q.bit \/ r.field = q.field) => r = q
      BY <1>2, CreateUserRequestRows DEF Types, RowIs
    <2>2. RowIs(1, "text", 1, "name") \in Table(k) /\ RowIs(1, "text", 1, "name").field = "name"
      BY <1>2, CreateUserRequestRows DEF RowIs
    <2>3. RowIs(2, "text", 2, "email") \in Table(k) /\ RowIs(2, "text", 2, "email").field = "email"
      BY <1>2, CreateUserRequestRows DEF RowIs
    <2> QED BY <2>1, <2>2, <2>3, <1>2, CreateUserRequestRows
  <1>3. CASE k = "CreateUserReply"
    <2>1. /\ \A r \in Table(k) : r.bit \in Nat /\ r.field \in Fields(k) /\ r.type \in Types
          /\ \A r \in Table(k) : \A q \in Table(k) : (r.bit = q.bit \/ r.field = q.field) => r = q
      BY <1>3, CreateUserReplyRows DEF Types, RowIs
    <2>2. RowIs(1, "user", 1, "user") \in Table(k) /\ RowIs(1, "user", 1, "user").field = "user"
      BY <1>3, CreateUserReplyRows DEF RowIs
    <2> QED BY <2>1, <2>2, <1>3, CreateUserReplyRows
  <1>4. CASE k = "GetUserRequest"
    <2>1. /\ \A r \in Table(k) : r.bit \in Nat /\ r.field \in Fields(k) /\ r.type \in Types
          /\ \A r \in Table(k) : \A q \in Table(k) : (r.bit = q.bit \/ r.field = q.field) => r = q
      BY <1>4, GetUserRequestRows DEF Types, RowIs
    <2>2. RowIs(1, "text", 1, "id") \in Table(k) /\ RowIs(1, "text", 1, "id").field = "id"
      BY <1>4, GetUserRequestRows DEF RowIs
    <2> QED BY <2>1, <2>2, <1>4, GetUserRequestRows
  <1>5. CASE k = "GetUserReply"
    <2>1. /\ \A r \in Table(k) : r.bit \in Nat /\ r.field \in Fields(k) /\ r.type \in Types
          /\ \A r \in Table(k) : \A q \in Table(k) : (r.bit = q.bit \/ r.field = q.field) => r = q
      BY <1>5, GetUserReplyRows DEF Types, RowIs
    <2>2. RowIs(1, "user", 1, "user") \in Table(k) /\ RowIs(1, "user", 1, "user").field = "user"
      BY <1>5, GetUserReplyRows DEF RowIs
    <2> QED BY <2>1, <2>2, <1>5, GetUserReplyRows
  <1>6. CASE k = "ListUsersRequest"
    <2>1. /\ \A r \in Table(k) : r.bit \in Nat /\ r.field \in Fields(k) /\ r.type \in Types
          /\ \A r \in Table(k) : \A q \in Table(k) : (r.bit = q.bit \/ r.field = q.field) => r = q
      BY <1>6, ListUsersRequestRows DEF Types, RowIs
    <2>2. RowIs(1, "int32", 1, "limit") \in Table(k) /\ RowIs(1, "int32", 1, "limit").field = "limit"
      BY <1>6, ListUsersRequestRows DEF RowIs
    <2>3. RowIs(2, "int32", 2, "offset") \in Table(k) /\ RowIs(2, "int32", 2, "offset").field = "offset"
      BY <1>6, ListUsersRequestRows DEF RowIs
    <2> QED BY <2>1, <2>2, <2>3, <1>6, ListUsersRequestRows
  <1>7. CASE k = "ListUsersReply"
    <2>1. /\ \A r \in Table(k) : r.bit \in Nat /\ r.field \in Fields(k) /\ r.type \in Types
          /\ \A r \in Table(k) : \A q \in Table(k) : (r.bit = q.bit \/ r.field = q.field) => r = q
      BY <1>7, ListUsersReplyRows DEF Types, RowIs
    <2>2. RowIs(1, "users", 1, "users") \in Table(k) /\ RowIs(1, "users", 1, "users").field = "users"
      BY <1>7, ListUsersReplyRows DEF RowIs
    <2>3. RowIs(2, "int64", 2, "total") \in Table(k) /\ RowIs(2, "int64", 2, "total").field = "total"
      BY <1>7, ListUsersReplyRows DEF RowIs
    <2> QED BY <2>1, <2>2, <2>3, <1>7, ListUsersReplyRows
  <1>8. CASE k = "GetStatsRequest"
    <2>1. /\ \A r \in Table(k) : r.bit \in Nat /\ r.field \in Fields(k) /\ r.type \in Types
          /\ \A r \in Table(k) : \A q \in Table(k) : (r.bit = q.bit \/ r.field = q.field) => r = q
      BY <1>8, GetStatsRequestRows DEF Types, RowIs
    <2> QED BY <2>1, <1>8, GetStatsRequestRows
  <1>9. CASE k = "GetStatsReply"
    <2>1. /\ \A r \in Table(k) : r.bit \in Nat /\ r.field \in Fields(k) /\ r.type \in Types
          /\ \A r \in Table(k) : \A q \in Table(k) : (r.bit = q.bit \/ r.field = q.field) => r = q
      BY <1>9, GetStatsReplyRows DEF Types, RowIs
    <2>2. /\ RowIs(1, "int64", 1, "total_users") \in Table(k)
          /\ RowIs(1, "int64", 1, "total_users").field = "total_users"
      BY <1>9, GetStatsReplyRows DEF RowIs
    <2>3. /\ RowIs(2, "int64", 2, "request_count") \in Table(k)
          /\ RowIs(2, "int64", 2, "request_count").field = "request_count"
      BY <1>9, GetStatsReplyRows DEF RowIs
    <2> QED BY <2>1, <2>2, <2>3, <1>9, GetStatsReplyRows
  <1> QED BY <1>1, <1>2, <1>3, <1>4, <1>5, <1>6, <1>7, <1>8, <1>9 DEF Kinds

\* A message is made of good values.
LEMMA MessageParts ==
  ASSUME NEW k, NEW m \in Messages(k)
  PROVE /\ m.bits \in SUBSET Nat /\ m.val \in [Fields(k) -> AnyValue]
        /\ m.unknown \in Seq(UnknownOf(k))
        /\ m = [bits |-> m.bits, val |-> m.val, unknown |-> m.unknown]
        /\ \A r \in Table(k) : ValueGood(r.type, m.bits, r.bit, m.val[r.field])
  BY DEF Messages, Shapes

LEMMA Widths == ASSUME NEW type PROVE Width(type) \in {Bits32, Bits64}
  BY DEF Width

LEMMA ValuesAreAny ==
  ASSUME NEW type \in Types, NEW bits, NEW bit, NEW v, ValueGood(type, bits, bit, v)
  PROVE v \in AnyValue
  BY Widths, IntsAreInts DEF Types, ValueGood, AnyValue, TextGood, IntGood

\* Good values make a message.
LEMMA MessageOf ==
  ASSUME NEW k \in Kinds, NEW bits \in SUBSET Nat, NEW val, NEW unknown \in Seq(UnknownOf(k)),
         val = [f \in Fields(k) |-> val[f]],
         \A r \in Table(k) : ValueGood(r.type, bits, r.bit, val[r.field])
  PROVE [bits |-> bits, val |-> val, unknown |-> unknown] \in Messages(k)
  <1>1. ASSUME NEW f \in Fields(k) PROVE val[f] \in AnyValue
    <2>1. PICK r \in Table(k) : r.field = f
      BY TableKeys
    <2> QED BY <2>1, TableKeys, ValuesAreAny
  <1>2. val \in [Fields(k) -> AnyValue]
    BY <1>1
  <1> QED BY <1>2 DEF Messages, Shapes

-----------------------------------------------------------------------------
(* The accessors                                                           *)

\* Setting a field with its bit keeps a message good, and so does resetting it.
LEMMA SetFieldGood ==
  ASSUME NEW k \in Kinds, NEW m \in Messages(k), NEW r \in Table(k), NEW v,
         ValueGood(r.type, m.bits \cup {r.bit}, r.bit, v)
  PROVE SetField(m, r.bit, r.field, v) \in Messages(k)
  <1> DEFINE bits == m.bits \cup {r.bit}
             val == [m.val EXCEPT ![r.field] = v]
  <1>1. SetField(m, r.bit, r.field, v) = [bits |-> bits, val |-> val, unknown |-> m.unknown]
    BY DEF SetField
  <1>2. bits \in SUBSET Nat /\ val = [f \in Fields(k) |-> val[f]] /\ m.unknown \in Seq(UnknownOf(k))
    <2>1. r.bit \in Nat /\ r.field \in Fields(k)
      BY TableKeys
    <2>2. m.bits \in SUBSET Nat /\ m.val \in [Fields(k) -> AnyValue] /\ m.unknown \in Seq(UnknownOf(k))
      BY MessageParts
    <2> QED BY <2>1, <2>2
  <1>3. ASSUME NEW q \in Table(k) PROVE ValueGood(q.type, bits, q.bit, val[q.field])
    <2>1. CASE q = r
      BY <2>1, MessageParts, TableKeys
    <2>2. CASE q # r
      <3>1. q.bit # r.bit /\ q.field # r.field /\ q.field \in Fields(k)
        BY <2>2, TableKeys
      <3>2. val[q.field] = m.val[q.field] /\ (q.bit \in bits <=> q.bit \in m.bits)
        BY <3>1, MessageParts
      <3>3. ValueGood(q.type, m.bits, q.bit, m.val[q.field])
        BY MessageParts
      <3> HIDE DEF bits, val
      <3> QED BY <3>2, <3>3 DEF ValueGood, TextGood, IntGood
    <2> QED BY <2>1, <2>2
  <1> HIDE DEF bits, val
  <1> QED BY <1>1, <1>2, <1>3, MessageOf

LEMMA UnsetFieldGood ==
  ASSUME NEW k \in Kinds, NEW m \in Messages(k), NEW r \in Table(k), NEW v,
         ValueGood(r.type, m.bits \ {r.bit}, r.bit, v)
  PROVE UnsetField(m, r.bit, r.field, v) \in Messages(k)
  <1> DEFINE bits == m.bits \ {r.bit}
             val == [m.val EXCEPT ![r.field] = v]
  <1>1. UnsetField(m, r.bit, r.field, v) = [bits |-> bits, val |-> val, unknown |-> m.unknown]
    BY DEF UnsetField
  <1>2. bits \in SUBSET Nat /\ val = [f \in Fields(k) |-> val[f]] /\ m.unknown \in Seq(UnknownOf(k))
    <2>1. r.bit \in Nat /\ r.field \in Fields(k)
      BY TableKeys
    <2>2. m.bits \in SUBSET Nat /\ m.val \in [Fields(k) -> AnyValue] /\ m.unknown \in Seq(UnknownOf(k))
      BY MessageParts
    <2> QED BY <2>1, <2>2
  <1>3. ASSUME NEW q \in Table(k) PROVE ValueGood(q.type, bits, q.bit, val[q.field])
    <2>1. CASE q = r
      BY <2>1, MessageParts, TableKeys
    <2>2. CASE q # r
      <3>1. q.bit # r.bit /\ q.field # r.field /\ q.field \in Fields(k)
        BY <2>2, TableKeys
      <3>2. val[q.field] = m.val[q.field] /\ (q.bit \in bits <=> q.bit \in m.bits)
        BY <3>1, MessageParts
      <3>3. ValueGood(q.type, m.bits, q.bit, m.val[q.field])
        BY MessageParts
      <3> HIDE DEF bits, val
      <3> QED BY <3>2, <3>3 DEF ValueGood, TextGood, IntGood
    <2> QED BY <2>1, <2>2
  <1> HIDE DEF bits, val
  <1> QED BY <1>1, <1>2, <1>3, MessageOf

\* The accessors of one field keep a message good.
LEMMA TextEditsGood ==
  ASSUME NEW k \in Kinds, NEW m \in Messages(k), NEW r \in Table(k), r.type = "text",
         NEW n \in TextEdits(m, r.bit, r.field)
  PROVE n \in Messages(k)
  <1> DEFINE v == m.val[r.field]
  <1>1. TextGood(m.bits, r.bit, v)
    BY MessageParts DEF ValueGood
  <1>2. r.bit \in m.bits \cup {r.bit} /\ r.bit \notin m.bits \ {r.bit}
    OBVIOUS
  <1> HIDE DEF v
  <1>3. CASE \E t \in Texts : n = SetField(m, r.bit, r.field, Text(t))
    <2>1. PICK t \in Texts : n = SetField(m, r.bit, r.field, Text(t))
      BY <1>3
    <2>2. TextGood(m.bits \cup {r.bit}, r.bit, Text(t))
      BY <1>2 DEF TextGood, Text, TextValues
    <2> QED BY <2>1, <2>2, SetFieldGood DEF ValueGood
  <1>4. CASE n = UnsetField(m, r.bit, r.field, [v EXCEPT !.text = Empty])
    <2>1. TextGood(m.bits \ {r.bit}, r.bit, [v EXCEPT !.text = Empty])
      BY <1>1, <1>2, MessagesAssumption DEF TextGood, TextValues
    <2> QED BY <1>4, <2>1, UnsetFieldGood DEF ValueGood
  <1>5. CASE n = SetField(m, r.bit, r.field, [v EXCEPT !.own = TRUE])
    <2>1. TextGood(m.bits \cup {r.bit}, r.bit, [v EXCEPT !.own = TRUE])
      BY <1>1, <1>2 DEF TextGood, TextValues
    <2> QED BY <1>5, <2>1, SetFieldGood DEF ValueGood
  <1>6. CASE n = UnsetField(m, r.bit, r.field, SharedEmpty)
    <2>1. TextGood(m.bits \ {r.bit}, r.bit, SharedEmpty)
      BY <1>2, MessagesAssumption DEF TextGood, TextValues, SharedEmpty
    <2> QED BY <1>6, <2>1, UnsetFieldGood DEF ValueGood
  <1>7. CASE n = m
    BY <1>7
  <1> QED BY <1>3, <1>4, <1>5, <1>6, <1>7 DEF TextEdits, v

LEMMA IntEditsGood ==
  ASSUME NEW k \in Kinds, NEW m \in Messages(k), NEW r \in Table(k), r.type \in {"int32", "int64"},
         NEW n \in IntEdits(m, r.bit, r.field, Width(r.type))
  PROVE n \in Messages(k)
  <1>2. r.bit \in m.bits \cup {r.bit} /\ r.bit \notin m.bits \ {r.bit}
    OBVIOUS
  <1>3. CASE \E i \in IntsOf(Width(r.type)) : n = SetField(m, r.bit, r.field, i)
    <2>1. PICK i \in IntsOf(Width(r.type)) : n = SetField(m, r.bit, r.field, i)
      BY <1>3
    <2>2. IntGood(Width(r.type), m.bits \cup {r.bit}, r.bit, i)
      BY <1>2 DEF IntGood
    <2> QED BY <2>1, <2>2, SetFieldGood DEF ValueGood
  <1>4. CASE n = UnsetField(m, r.bit, r.field, 0)
    <2>1. IntGood(Width(r.type), m.bits \ {r.bit}, r.bit, 0)
      BY Widths, IntsAreInts DEF IntGood
    <2> QED BY <1>4, <2>1, UnsetFieldGood DEF ValueGood
  <1> QED BY <1>3, <1>4 DEF IntEdits

LEMMA NullIsNoUser == NULL \notin GoodUsers
  BY NullAssumption DEF GoodUsers

LEMMA OneUserEditsGood ==
  ASSUME NEW k \in Kinds, NEW m \in Messages(k), NEW r \in Table(k), r.type = "user",
         NEW users \in SUBSET GoodUsers,
         NEW n \in OneUserEdits(m, r.bit, r.field, users)
  PROVE n \in Messages(k)
  <1> DEFINE v == m.val[r.field]
             there == IF v = NULL THEN NewUser ELSE v
  <1>1. v \in GoodUsers \cup {NULL}
    BY MessageParts DEF ValueGood
  <1>2. r.bit \in m.bits \cup {r.bit} /\ r.bit \notin m.bits \ {r.bit}
    OBVIOUS
  <1>3. there \in GoodUsers
    BY <1>1, NewUserGood
  <1> HIDE DEF v, there
  <1>4. ASSUME NEW u \in GoodUsers, n = SetField(m, r.bit, r.field, u)
        PROVE n \in Messages(k)
    <2>1. ValueGood(r.type, m.bits \cup {r.bit}, r.bit, u)
      BY <1>2, NullIsNoUser DEF ValueGood
    <2> QED BY <1>4, <2>1, SetFieldGood
  <1>5. ASSUME NEW u \in GoodUsers \cup {NULL}, u # NULL => UserContents(u) = UserContents(NewUser),
               n = UnsetField(m, r.bit, r.field, u)
        PROVE n \in Messages(k)
    <2>1. ValueGood(r.type, m.bits \ {r.bit}, r.bit, u)
      BY <1>2, <1>5 DEF ValueGood
    <2> QED BY <1>5, <2>1, UnsetFieldGood
  <1>6. CASE n = SetField(m, r.bit, r.field, there)
    BY <1>3, <1>4, <1>6
  <1>7. CASE \E u \in users : n = SetField(m, r.bit, r.field, MergeUser(ClearUser(there), u))
    <2>1. PICK u \in users : n = SetField(m, r.bit, r.field, MergeUser(ClearUser(there), u))
      BY <1>7
    <2>2. MergeUser(ClearUser(there), u) \in GoodUsers
      BY <1>3, ClearUserGood, MergeUserGood
    <2> QED BY <1>4, <2>1, <2>2
  <1>8. CASE \E u \in users : n = SetField(m, r.bit, r.field, MergeUser(there, u))
    <2>1. PICK u \in users : n = SetField(m, r.bit, r.field, MergeUser(there, u))
      BY <1>8
    <2>2. MergeUser(there, u) \in GoodUsers
      BY <1>3, MergeUserGood
    <2> QED BY <1>4, <2>1, <2>2
  <1>9. CASE n = UnsetField(m, r.bit, r.field, IF v = NULL THEN NULL ELSE ClearUser(v))
    <2> DEFINE u == IF v = NULL THEN NULL ELSE ClearUser(v)
    <2>1. u \in GoodUsers \cup {NULL} /\ (u # NULL => UserContents(u) = UserContents(NewUser))
      BY <1>1, ClearUserGood
    <2> QED BY <1>5, <1>9, <2>1
  <1>10. CASE n = UnsetField(m, r.bit, r.field, NULL)
    BY <1>5, <1>10
  <1>11. CASE \E u \in users : n = SetField(m, r.bit, r.field, u)
    BY <1>4, <1>11
  <1> QED BY <1>6, <1>7, <1>8, <1>9, <1>10, <1>11 DEF OneUserEdits, v, there

LEMMA UserListEditsGood ==
  ASSUME NEW k \in Kinds, NEW m \in Messages(k), NEW r \in Table(k), r.type = "users",
         NEW users \in SUBSET GoodUsers,
         NEW n \in UserListEdits(m, r.bit, r.field, users)
  PROVE n \in Messages(k)
  <1> DEFINE v == m.val[r.field]
  <1>1. v \in Seq(GoodUsers)
    BY MessageParts DEF ValueGood
  <1>2. r.bit \in m.bits \cup {r.bit} /\ r.bit \notin m.bits \ {r.bit}
    OBVIOUS
  <1> HIDE DEF v
  <1>4. ASSUME NEW s \in Seq(GoodUsers), n = SetField(m, r.bit, r.field, s)
        PROVE n \in Messages(k)
    <2>1. ValueGood(r.type, m.bits \cup {r.bit}, r.bit, s)
      BY <1>2 DEF ValueGood
    <2> QED BY <1>4, <2>1, SetFieldGood
  <1>5. CASE \E u \in users : n = SetField(m, r.bit, r.field, Append(v, MergeUser(NewUser, u)))
    <2>1. PICK u \in users : n = SetField(m, r.bit, r.field, Append(v, MergeUser(NewUser, u)))
      BY <1>5
    <2>2. Append(v, MergeUser(NewUser, u)) \in Seq(GoodUsers)
      BY <1>1, NewUserGood, MergeUserGood
    <2> QED BY <1>4, <2>1, <2>2
  <1>6. CASE n = SetField(m, r.bit, r.field, v)
    BY <1>1, <1>4, <1>6
  <1>7. CASE n = UnsetField(m, r.bit, r.field, <<>>)
    <2>1. ValueGood(r.type, m.bits \ {r.bit}, r.bit, <<>>)
      BY DEF ValueGood
    <2> QED BY <1>7, <2>1, UnsetFieldGood
  <1> QED BY <1>5, <1>6, <1>7 DEF UserListEdits, v

-----------------------------------------------------------------------------
(* Making, merging, clearing and copying messages                          *)

\* The defaults are good without a bit, and so is what Clear() leaves.
LEMMA DefaultsGood ==
  ASSUME NEW bit
  PROVE /\ ValueGood("text", {}, bit, SharedEmpty)
        /\ ValueGood("int32", {}, bit, 0) /\ ValueGood("int64", {}, bit, 0)
        /\ ValueGood("user", {}, bit, NULL) /\ ValueGood("users", {}, bit, <<>>)
  BY SharedEmptyGood, Widths, IntsAreInts DEF ValueGood, IntGood

LEMMA ClearedGood ==
  ASSUME NEW m, NEW bit, NEW v, ValueGood("text", m.bits, bit, v)
  PROVE ValueGood("text", {}, bit, TextCleared(m, bit, v))
  BY TextClearedGood DEF ValueGood

\* What Merge() does with a user and with a list.
UserMerged(v, from, bit, w) == IF ~Has(from, bit) THEN v ELSE IF v = NULL THEN w ELSE MergeUser(v, w)
UsersMerged(v, from, bit, w) == IF Has(from, bit) THEN v \o w ELSE v

ContentsOfUsers(v) == [j \in 1..Len(v) |-> UserContents(v[j])]
LEMMA ContentsOfUsersJoin ==
  ASSUME NEW v \in Seq(GoodUsers), NEW w \in Seq(GoodUsers)
  PROVE ContentsOfUsers(v \o w) = ContentsOfUsers(v) \o ContentsOfUsers(w)
  BY DEF ContentsOfUsers

\* What the getters return of a field: a user or none, and the users of a list.
Got(type, bits, bit, v) ==
  CASE type = "text" -> v.text
    [] type \in {"int32", "int64"} -> v
    [] type = "user" -> IF bit \in bits THEN <<UserContents(v)>> ELSE <<>>
    [] type = "users" -> [j \in 1..Len(v) |-> UserContents(v[j])]
FieldOf(m, r) == Got(r.type, m.bits, r.bit, m.val[r.field])

\* What they return after w was merged, or read, into v.
Joined(type, v, w) ==
  CASE type = "text" -> IF w # Empty THEN w ELSE v
    [] type \in {"int32", "int64"} -> IF w # 0 THEN w ELSE v
    [] type = "user" -> IF w = <<>> THEN v ELSE IF v = <<>> THEN w ELSE <<UsersJoined(v[1], w[1])>>
    [] type = "users" -> v \o w

\* n has what the getters return when message from is merged, or read, into to.
Joins(k, n, to, from) ==
  /\ n.unknown = to.unknown \o from.unknown
  /\ \A r \in Table(k) : FieldOf(n, r) = Joined(r.type, FieldOf(to, r), FieldOf(from, r))

\* Merging keeps the value of a field good, and joins what the getters return.
LEMMA MergedTextGood ==
  ASSUME NEW to, NEW from, NEW bit, NEW v, NEW w,
         ValueGood("text", to.bits, bit, v), ValueGood("text", from.bits, bit, w)
  PROVE LET n == TextMerged(v, from, bit, w)
        IN  /\ ValueGood("text", to.bits \cup from.bits, bit, n)
            /\ Got("text", to.bits \cup from.bits, bit, n) =
                 Joined("text", Got("text", to.bits, bit, v), Got("text", from.bits, bit, w))
  <1>1. /\ TextGood(to.bits \cup from.bits, bit, TextMerged(v, from, bit, w))
        /\ TextMerged(v, from, bit, w).text = IF w.text # Empty THEN w.text ELSE v.text
    BY TextMergedGood DEF ValueGood
  <1> QED BY <1>1 DEF ValueGood, Got, Joined

LEMMA MergedIntGood ==
  ASSUME NEW to, NEW from, NEW bit, NEW v, NEW w, NEW type \in {"int32", "int64"},
         ValueGood(type, to.bits, bit, v), ValueGood(type, from.bits, bit, w)
  PROVE LET n == IntMerged(v, from, bit, w)
        IN  /\ ValueGood(type, to.bits \cup from.bits, bit, n)
            /\ Got(type, to.bits \cup from.bits, bit, n) =
                 Joined(type, Got(type, to.bits, bit, v), Got(type, from.bits, bit, w))
  <1>0. IntGood(Width(type), to.bits, bit, v) /\ IntGood(Width(type), from.bits, bit, w)
    BY DEF ValueGood
  <1>1. /\ IntGood(Width(type), to.bits \cup from.bits, bit, IntMerged(v, from, bit, w))
        /\ IntMerged(v, from, bit, w) = IF w # 0 THEN w ELSE v
    BY <1>0, IntMergedGood
  <1> QED BY <1>1 DEF ValueGood, Got, Joined

LEMMA MergedUserGood ==
  ASSUME NEW to, NEW from, NEW bit, NEW v, NEW w,
         ValueGood("user", to.bits, bit, v), ValueGood("user", from.bits, bit, w)
  PROVE LET n == UserMerged(v, from, bit, w)
        IN  /\ ValueGood("user", to.bits \cup from.bits, bit, n)
            /\ Got("user", to.bits \cup from.bits, bit, n) =
                 Joined("user", Got("user", to.bits, bit, v), Got("user", from.bits, bit, w))
  <1> DEFINE n == UserMerged(v, from, bit, w)
  <1>1. v \in GoodUsers \cup {NULL} /\ w \in GoodUsers \cup {NULL}
    BY DEF ValueGood
  <1>2. CASE bit \notin from.bits
    <2>1. n = v
      BY <1>2 DEF UserMerged, Has
    <2>2. ValueGood("user", to.bits \cup from.bits, bit, v)
      BY <1>2 DEF ValueGood
    <2>3. Got("user", from.bits, bit, w) = <<>>
      BY <1>2 DEF Got
    <2> QED BY <1>2, <2>1, <2>2, <2>3 DEF Got, Joined
  <1>3. CASE bit \in from.bits /\ v = NULL
    <2>1. n = w /\ w # NULL /\ bit \notin to.bits
      BY <1>3 DEF UserMerged, Has, ValueGood
    <2>2. ValueGood("user", to.bits \cup from.bits, bit, w)
      BY <1>1, <1>3, <2>1 DEF ValueGood
    <2> QED BY <1>3, <2>1, <2>2 DEF Got, Joined
  <1>4. CASE bit \in from.bits /\ v # NULL
    <2>1. n = MergeUser(v, w) /\ w # NULL
      BY <1>4 DEF UserMerged, Has, ValueGood
    <2>2. v \in GoodUsers /\ w \in GoodUsers
      BY <1>1, <1>4, <2>1
    <2>3. /\ n \in GoodUsers /\ n # NULL
          /\ UserContents(n) = UsersJoined(UserContents(v), UserContents(w))
      BY <2>1, <2>2, MergeUserGood, NullIsNoUser
    <2>4. bit \notin to.bits => UserContents(n) = UserContents(w)
      <3>1. bit \notin to.bits => UserContents(v) = UserContents(NewUser)
        BY <1>4 DEF ValueGood
      <3> QED BY <3>1, <2>2, <2>3, JoinedWithNew
    <2> HIDE DEF n
    <2>5. ValueGood("user", to.bits \cup from.bits, bit, n)
      BY <1>4, <2>3 DEF ValueGood
    <2>6. Got("user", to.bits \cup from.bits, bit, n) = <<UserContents(n)>>
      BY <1>4 DEF Got
    <2>7. Got("user", from.bits, bit, w) = <<UserContents(w)>>
      BY <1>4 DEF Got
    <2>8. Got("user", to.bits, bit, v) = IF bit \in to.bits THEN <<UserContents(v)>> ELSE <<>>
      BY DEF Got
    <2> QED BY <2>3, <2>4, <2>5, <2>6, <2>7, <2>8 DEF Joined, n
  <1> QED BY <1>2, <1>3, <1>4

LEMMA MergedUsersGood ==
  ASSUME NEW to, NEW from, NEW bit, NEW v, NEW w,
         ValueGood("users", to.bits, bit, v), ValueGood("users", from.bits, bit, w)
  PROVE LET n == UsersMerged(v, from, bit, w)
        IN  /\ ValueGood("users", to.bits \cup from.bits, bit, n)
            /\ Got("users", to.bits \cup from.bits, bit, n) =
                 Joined("users", Got("users", to.bits, bit, v), Got("users", from.bits, bit, w))
  <1> DEFINE n == UsersMerged(v, from, bit, w)
  <1>1. v \in Seq(GoodUsers) /\ w \in Seq(GoodUsers)
    BY DEF ValueGood
  <1>2. n \in Seq(GoodUsers) /\ (n # <<>> => bit \in to.bits \cup from.bits)
    BY <1>1 DEF UsersMerged, Has, ValueGood
  <1>3. n = v \o w
    <2>1. bit \notin from.bits => w = <<>>
      BY DEF ValueGood
    <2> QED BY <1>1, <2>1 DEF UsersMerged, Has
  <1>4. ContentsOfUsers(v \o w) = ContentsOfUsers(v) \o ContentsOfUsers(w)
    BY <1>1, ContentsOfUsersJoin
  <1> HIDE DEF n
  <1> QED BY <1>2, <1>3, <1>4 DEF ValueGood, Got, Joined, ContentsOfUsers, n

\* The getters of n return what those of m return.
SameMessage(k, n, m) ==
  n.unknown = m.unknown /\ \A r \in Table(k) : FieldOf(n, r) = FieldOf(m, r)

\* A message without fields.
Cleared(c) == c.bits = {} /\ c.unknown = <<>>

\* What Merge() makes of the field of a row.
Merged(type, v, from, bit, w) ==
  CASE type = "text" -> TextMerged(v, from, bit, w)
    [] type \in {"int32", "int64"} -> IntMerged(v, from, bit, w)
    [] type = "user" -> UserMerged(v, from, bit, w)
    [] type = "users" -> UsersMerged(v, from, bit, w)

\* The same for the field of any row.
LEMMA MergedGood ==
  ASSUME NEW k \in Kinds, NEW to \in Messages(k), NEW from \in Messages(k), NEW r \in Table(k)
  PROVE LET v == Merged(r.type, to.val[r.field], from, r.bit, from.val[r.field])
        IN  /\ ValueGood(r.type, to.bits \cup from.bits, r.bit, v)
            /\ Got(r.type, to.bits \cup from.bits, r.bit, v) =
                 Joined(r.type, FieldOf(to, r), FieldOf(from, r))
  <1> DEFINE v == to.val[r.field]
             w == from.val[r.field]
  <1>1. ValueGood(r.type, to.bits, r.bit, v) /\ ValueGood(r.type, from.bits, r.bit, w) /\ r.type \in Types
    BY MessageParts, TableKeys
  <1>0. /\ FieldOf(to, r) = Got(r.type, to.bits, r.bit, v)
        /\ FieldOf(from, r) = Got(r.type, from.bits, r.bit, w)
    BY DEF FieldOf
  <1> HIDE DEF v, w
  <1>2. CASE r.type = "text"
    BY <1>0, <1>1, <1>2, MergedTextGood DEF Merged, v, w
  <1>3. CASE r.type \in {"int32", "int64"}
    <2>1. Merged(r.type, v, from, r.bit, w) = IntMerged(v, from, r.bit, w)
      BY <1>3 DEF Merged
    <2> QED BY <1>0, <1>1, <1>3, <2>1, MergedIntGood DEF v, w
  <1>4. CASE r.type = "user"
    <2>1. Merged(r.type, v, from, r.bit, w) = UserMerged(v, from, r.bit, w)
      BY <1>4 DEF Merged
    <2> QED BY <1>0, <1>1, <1>4, <2>1, MergedUserGood DEF v, w
  <1>5. CASE r.type = "users"
    <2>1. Merged(r.type, v, from, r.bit, w) = UsersMerged(v, from, r.bit, w)
      BY <1>5 DEF Merged
    <2> QED BY <1>0, <1>1, <1>5, <2>1, MergedUsersGood DEF v, w
  <1> QED BY <1>1, <1>2, <1>3, <1>4, <1>5 DEF Types

\* Merging keeps a message good, and joins what the getters return.
LEMMA MergedMessage ==
  ASSUME NEW k \in Kinds, NEW to \in Messages(k), NEW from \in Messages(k),
         NEW val, val = [f \in Fields(k) |-> val[f]],
         \A r \in Table(k) :
           val[r.field] = Merged(r.type, to.val[r.field], from, r.bit, from.val[r.field]),
         NEW n, n = [bits |-> to.bits \cup from.bits, val |-> val, unknown |-> to.unknown \o from.unknown]
  PROVE n \in Messages(k) /\ Joins(k, n, to, from)
  <1>1. /\ to.bits \in SUBSET Nat /\ from.bits \in SUBSET Nat
        /\ to.unknown \in Seq(UnknownOf(k)) /\ from.unknown \in Seq(UnknownOf(k))
    BY MessageParts
  <1>2. /\ to.bits \cup from.bits \in SUBSET Nat
        /\ to.unknown \o from.unknown \in Seq(UnknownOf(k))
    BY <1>1
  <1>3. ASSUME NEW r \in Table(k)
        PROVE /\ ValueGood(r.type, to.bits \cup from.bits, r.bit, val[r.field])
              /\ Got(r.type, to.bits \cup from.bits, r.bit, val[r.field]) =
                   Joined(r.type, FieldOf(to, r), FieldOf(from, r))
    BY MergedGood
  <1>4. n \in Messages(k)
    BY <1>2, <1>3, MessageOf
  <1>5. Joins(k, n, to, from)
    <2>1. n.bits = to.bits \cup from.bits /\ n.val = val /\ n.unknown = to.unknown \o from.unknown
      OBVIOUS
    <2>2. ASSUME NEW r \in Table(k)
          PROVE FieldOf(n, r) = Joined(r.type, FieldOf(to, r), FieldOf(from, r))
      <3>1. FieldOf(n, r) = Got(r.type, to.bits \cup from.bits, r.bit, val[r.field])
        BY <2>1 DEF FieldOf
      <3> QED BY <1>3, <3>1
    <2> QED BY <2>1, <2>2 DEF Joins
  <1> QED BY <1>4, <1>5

\* Values that are good without a bit make an empty message.
LEMMA ClearedMessage ==
  ASSUME NEW k \in Kinds, NEW val, val = [f \in Fields(k) |-> val[f]],
         \A r \in Table(k) : ValueGood(r.type, {}, r.bit, val[r.field])
  PROVE Message(val) \in Messages(k) /\ Cleared(Message(val))
  <1>1. {} \in SUBSET Nat /\ <<>> \in Seq(UnknownOf(k))
    OBVIOUS
  <1>2. Message(val) \in Messages(k)
    BY <1>1, MessageOf DEF Message
  <1> QED BY <1>2 DEF Message, Cleared

\* A user, a list and an int after Clear().
LEMMA ClearedUserGood ==
  ASSUME NEW m, NEW bit, NEW v, ValueGood("user", m.bits, bit, v)
  PROVE ValueGood("user", {}, bit, IF Has(m, bit) THEN ClearUser(v) ELSE v)
  <1>1. CASE Has(m, bit)
    <2>1. v \in GoodUsers
      BY <1>1 DEF ValueGood, Has
    <2> QED BY <1>1, <2>1, ClearUserGood DEF ValueGood
  <1>2. CASE ~Has(m, bit)
    BY <1>2 DEF ValueGood, Has
  <1> QED BY <1>1, <1>2

LEMMA ClearedUsersGood ==
  ASSUME NEW m, NEW bit, NEW v, ValueGood("users", m.bits, bit, v)
  PROVE ValueGood("users", {}, bit, IF Has(m, bit) THEN <<>> ELSE v)
  BY DEF ValueGood, Has

LEMMA IntWithoutBit ==
  ASSUME NEW type \in {"int32", "int64"}, NEW bits, NEW bit, NEW v, ValueGood(type, bits, bit, v),
         bit \notin bits
  PROVE ValueGood(type, {}, bit, v)
  BY DEF ValueGood, IntGood

\* Each type has its constructor, its Clear() and its MergeFrom(); the copy
\* constructor of a reply takes no user without its bit.
LEMMA NewGood ==
  ASSUME NEW k \in Kinds
  PROVE New(k) \in Messages(k) /\ Cleared(New(k))
  <1>1. CASE k = "User"
    <2> DEFINE val == [id |-> SharedEmpty, name |-> SharedEmpty, email |-> SharedEmpty, created_at |-> 0]
    <2>1. New(k) = Message(val)
      BY <1>1 DEF New, NewUser
    <2>2. /\ val = [f \in Fields(k) |-> val[f]]
          /\ \A r \in Table(k) : ValueGood(r.type, {}, r.bit, val[r.field])
      BY <1>1, UserRows, DefaultsGood DEF RowIs
    <2> HIDE DEF val
    <2> QED BY <2>1, <2>2, ClearedMessage
  <1>2. CASE k = "CreateUserRequest"
    <2> DEFINE val == [name |-> SharedEmpty, email |-> SharedEmpty]
    <2>1. New(k) = Message(val)
      BY <1>2 DEF New, NewCreateUserRequest
    <2>2. /\ val = [f \in Fields(k) |-> val[f]]
          /\ \A r \in Table(k) : ValueGood(r.type, {}, r.bit, val[r.field])
      BY <1>2, CreateUserRequestRows, DefaultsGood DEF RowIs
    <2> HIDE DEF val
    <2> QED BY <2>1, <2>2, ClearedMessage
  <1>3. CASE k = "CreateUserReply"
    <2> DEFINE val == [user |-> NULL]
    <2>1. New(k) = Message(val)
      BY <1>3 DEF New, NewCreateUserReply
    <2>2. /\ val = [f \in Fields(k) |-> val[f]]
          /\ \A r \in Table(k) : ValueGood(r.type, {}, r.bit, val[r.field])
      BY <1>3, CreateUserReplyRows, DefaultsGood DEF RowIs
    <2> HIDE DEF val
    <2> QED BY <2>1, <2>2, ClearedMessage
  <1>4. CASE k = "GetUserRequest"
    <2> DEFINE val == [id |-> SharedEmpty]
    <2>1. New(k) = Message(val)
      BY <1>4 DEF New, NewGetUserRequest
    <2>2. /\ val = [f \in Fields(k) |-> val[f]]
          /\ \A r \in Table(k) : ValueGood(r.type, {}, r.bit, val[r.field])
      BY <1>4, GetUserRequestRows, DefaultsGood DEF RowIs
    <2> HIDE DEF val
    <2> QED BY <2>1, <2>2, ClearedMessage
  <1>5. CASE k = "GetUserReply"
    <2> DEFINE val == [user |-> NULL]
    <2>1. New(k) = Message(val)
      BY <1>5 DEF New, NewGetUserReply
    <2>2. /\ val = [f \in Fields(k) |-> val[f]]
          /\ \A r \in Table(k) : ValueGood(r.type, {}, r.bit, val[r.field])
      BY <1>5, GetUserReplyRows, DefaultsGood DEF RowIs
    <2> HIDE DEF val
    <2> QED BY <2>1, <2>2, ClearedMessage
  <1>6. CASE k = "ListUsersRequest"
    <2> DEFINE val == [limit |-> 0, offset |-> 0]
    <2>1. New(k) = Message(val)
      BY <1>6 DEF New, NewListUsersRequest
    <2>2. /\ val = [f \in Fields(k) |-> val[f]]
          /\ \A r \in Table(k) : ValueGood(r.type, {}, r.bit, val[r.field])
      BY <1>6, ListUsersRequestRows, DefaultsGood DEF RowIs
    <2> HIDE DEF val
    <2> QED BY <2>1, <2>2, ClearedMessage
  <1>7. CASE k = "ListUsersReply"
    <2> DEFINE val == [users |-> <<>>, total |-> 0]
    <2>1. New(k) = Message(val)
      BY <1>7 DEF New, NewListUsersReply
    <2>2. /\ val = [f \in Fields(k) |-> val[f]]
          /\ \A r \in Table(k) : ValueGood(r.type, {}, r.bit, val[r.field])
      BY <1>7, ListUsersReplyRows, DefaultsGood DEF RowIs
    <2> HIDE DEF val
    <2> QED BY <2>1, <2>2, ClearedMessage
  <1>8. CASE k = "GetStatsRequest"
    <2> DEFINE val == <<>>
    <2>1. New(k) = Message(val)
      BY <1>8 DEF New, NewGetStatsRequest
    <2>2. /\ val = [f \in Fields(k) |-> val[f]]
          /\ \A r \in Table(k) : ValueGood(r.type, {}, r.bit, val[r.field])
      BY <1>8, GetStatsRequestRows, DefaultsGood DEF RowIs
    <2> HIDE DEF val
    <2> QED BY <2>1, <2>2, ClearedMessage
  <1>9. CASE k = "GetStatsReply"
    <2> DEFINE val == [total_users |-> 0, request_count |-> 0]
    <2>1. New(k) = Message(val)
      BY <1>9 DEF New, NewGetStatsReply
    <2>2. /\ val = [f \in Fields(k) |-> val[f]]
          /\ \A r \in Table(k) : ValueGood(r.type, {}, r.bit, val[r.field])
      BY <1>9, GetStatsReplyRows, DefaultsGood DEF RowIs
    <2> HIDE DEF val
    <2> QED BY <2>1, <2>2, ClearedMessage
  <1> QED BY <1>1, <1>2, <1>3, <1>4, <1>5, <1>6, <1>7, <1>8, <1>9 DEF Kinds

LEMMA ClearGood ==
  ASSUME NEW k \in Kinds, NEW m \in Messages(k)
  PROVE Clear(k, m) \in Messages(k) /\ Cleared(Clear(k, m))
  <1>0. \A r \in Table(k) : ValueGood(r.type, m.bits, r.bit, m.val[r.field])
    BY MessageParts
  <1>1. CASE k = "User"
    <2> DEFINE val == [id |-> TextCleared(m, 1, m.val.id),
                    name |-> TextCleared(m, 2, m.val.name),
                    email |-> TextCleared(m, 4, m.val.email),
                    created_at |-> 0]
    <2>1. Clear(k, m) = Message(val)
      BY <1>1 DEF Clear, ClearUser
    <2>2. /\ val = [f \in Fields(k) |-> val[f]]
          /\ \A r \in Table(k) : ValueGood(r.type, {}, r.bit, val[r.field])
      BY <1>0, <1>1, UserRows, ClearedGood, DefaultsGood DEF RowIs
    <2> HIDE DEF val
    <2> QED BY <2>1, <2>2, ClearedMessage
  <1>2. CASE k = "CreateUserRequest"
    <2> DEFINE val == [name |-> TextCleared(m, 1, m.val.name),
                    email |-> TextCleared(m, 2, m.val.email)]
    <2>1. Clear(k, m) = Message(val)
      BY <1>2 DEF Clear, ClearCreateUserRequest
    <2>2. /\ val = [f \in Fields(k) |-> val[f]]
          /\ \A r \in Table(k) : ValueGood(r.type, {}, r.bit, val[r.field])
      BY <1>0, <1>2, CreateUserRequestRows, ClearedGood DEF RowIs
    <2> HIDE DEF val
    <2> QED BY <2>1, <2>2, ClearedMessage
  <1>3. CASE k = "CreateUserReply"
    <2> DEFINE val == [user |-> IF Has(m, 1) THEN ClearUser(m.val.user) ELSE m.val.user]
    <2>1. Clear(k, m) = Message(val)
      BY <1>3 DEF Clear, ClearCreateUserReply
    <2>2. /\ val = [f \in Fields(k) |-> val[f]]
          /\ \A r \in Table(k) : ValueGood(r.type, {}, r.bit, val[r.field])
      BY <1>0, <1>3, CreateUserReplyRows, ClearedUserGood DEF RowIs
    <2> HIDE DEF val
    <2> QED BY <2>1, <2>2, ClearedMessage
  <1>4. CASE k = "GetUserRequest"
    <2> DEFINE val == [id |-> TextCleared(m, 1, m.val.id)]
    <2>1. Clear(k, m) = Message(val)
      BY <1>4 DEF Clear, ClearGetUserRequest
    <2>2. /\ val = [f \in Fields(k) |-> val[f]]
          /\ \A r \in Table(k) : ValueGood(r.type, {}, r.bit, val[r.field])
      BY <1>0, <1>4, GetUserRequestRows, ClearedGood DEF RowIs
    <2> HIDE DEF val
    <2> QED BY <2>1, <2>2, ClearedMessage
  <1>5. CASE k = "GetUserReply"
    <2> DEFINE val == [user |-> IF Has(m, 1) THEN ClearUser(m.val.user) ELSE m.val.user]
    <2>1. Clear(k, m) = Message(val)
      BY <1>5 DEF Clear, ClearGetUserReply
    <2>2. /\ val = [f \in Fields(k) |-> val[f]]
          /\ \A r \in Table(k) : ValueGood(r.type, {}, r.bit, val[r.field])
      BY <1>0, <1>5, GetUserReplyRows, ClearedUserGood DEF RowIs
    <2> HIDE DEF val
    <2> QED BY <2>1, <2>2, ClearedMessage
  <1>6. CASE k = "ListUsersRequest"
    <2> DEFINE val == [limit |-> 0, offset |-> 0]
    <2>1. CASE Has(m, 1) \/ Has(m, 2)
      <3>1. Clear(k, m) = Message(val)
        BY <1>6, <2>1 DEF Clear, ClearListUsersRequest
      <3>2. New(k) = Message(val)
        BY <1>6 DEF New, NewListUsersRequest
      <3> QED BY <3>1, <3>2, NewGood
    <2>2. CASE ~(Has(m, 1) \/ Has(m, 2))
      <3>1. Clear(k, m) = Message(m.val)
        BY <1>6, <2>2 DEF Clear, ClearListUsersRequest
      <3>2. /\ m.val = [f \in Fields(k) |-> m.val[f]]
            /\ \A r \in Table(k) : ValueGood(r.type, {}, r.bit, m.val[r.field])
        BY <1>0, <1>6, <2>2, MessageParts, ListUsersRequestRows, IntWithoutBit DEF Has, RowIs
      <3> QED BY <3>1, <3>2, ClearedMessage
    <2> QED BY <2>1, <2>2
  <1>7. CASE k = "ListUsersReply"
    <2> DEFINE val == [users |-> IF Has(m, 1) THEN <<>> ELSE m.val.users,
                    total |-> 0]
    <2>1. Clear(k, m) = Message(val)
      BY <1>7 DEF Clear, ClearListUsersReply
    <2>2. /\ val = [f \in Fields(k) |-> val[f]]
          /\ \A r \in Table(k) : ValueGood(r.type, {}, r.bit, val[r.field])
      BY <1>0, <1>7, ListUsersReplyRows, ClearedUsersGood, DefaultsGood DEF RowIs
    <2> HIDE DEF val
    <2> QED BY <2>1, <2>2, ClearedMessage
  <1>8. CASE k = "GetStatsRequest"
    <2>1. Clear(k, m) = New(k)
      BY <1>8 DEF Clear, New
    <2> QED BY <2>1, NewGood
  <1>9. CASE k = "GetStatsReply"
    <2> DEFINE val == [total_users |-> 0, request_count |-> 0]
    <2>1. CASE Has(m, 1) \/ Has(m, 2)
      <3>1. Clear(k, m) = Message(val)
        BY <1>9, <2>1 DEF Clear, ClearGetStatsReply
      <3>2. New(k) = Message(val)
        BY <1>9 DEF New, NewGetStatsReply
      <3> QED BY <3>1, <3>2, NewGood
    <2>2. CASE ~(Has(m, 1) \/ Has(m, 2))
      <3>1. Clear(k, m) = Message(m.val)
        BY <1>9, <2>2 DEF Clear, ClearGetStatsReply
      <3>2. /\ m.val = [f \in Fields(k) |-> m.val[f]]
            /\ \A r \in Table(k) : ValueGood(r.type, {}, r.bit, m.val[r.field])
        BY <1>0, <1>9, <2>2, MessageParts, GetStatsReplyRows, IntWithoutBit DEF Has, RowIs
      <3> QED BY <3>1, <3>2, ClearedMessage
    <2> QED BY <2>1, <2>2
  <1> QED BY <1>1, <1>2, <1>3, <1>4, <1>5, <1>6, <1>7, <1>8, <1>9 DEF Kinds

LEMMA MergeGood ==
  ASSUME NEW k \in Kinds, NEW to \in Messages(k), NEW from \in Messages(k)
  PROVE /\ Merge(k, to, from) \in Messages(k)
        /\ Joins(k, Merge(k, to, from), to, from)
  <1> DEFINE bits == to.bits \cup from.bits
             unknown == to.unknown \o from.unknown
  <1>1. CASE k = "User"
    <2> DEFINE val == [id |-> TextMerged(to.val.id, from, 1, from.val.id),
                    name |-> TextMerged(to.val.name, from, 2, from.val.name),
                    email |-> TextMerged(to.val.email, from, 4, from.val.email),
                    created_at |-> IntMerged(to.val.created_at, from, 8, from.val.created_at)]
    <2>1. Merge(k, to, from) = [bits |-> bits, val |-> val, unknown |-> unknown]
      BY <1>1 DEF Merge, MergeUser
    <2>2. /\ val = [f \in Fields(k) |-> val[f]]
          /\ \A r \in Table(k) :
               val[r.field] = Merged(r.type, to.val[r.field], from, r.bit, from.val[r.field])
      BY <1>1, UserRows DEF RowIs, Merged
    <2> HIDE DEF val
    <2> QED BY <2>1, <2>2, MergedMessage
  <1>2. CASE k = "CreateUserRequest"
    <2> DEFINE val == [name |-> TextMerged(to.val.name, from, 1, from.val.name),
                    email |-> TextMerged(to.val.email, from, 2, from.val.email)]
    <2>1. Merge(k, to, from) = [bits |-> bits, val |-> val, unknown |-> unknown]
      BY <1>2 DEF Merge, MergeCreateUserRequest
    <2>2. /\ val = [f \in Fields(k) |-> val[f]]
          /\ \A r \in Table(k) :
               val[r.field] = Merged(r.type, to.val[r.field], from, r.bit, from.val[r.field])
      BY <1>2, CreateUserRequestRows DEF RowIs, Merged
    <2> HIDE DEF val
    <2> QED BY <2>1, <2>2, MergedMessage
  <1>3. CASE k = "CreateUserReply"
    <2> DEFINE val == [user |-> UserMerged(to.val.user, from, 1, from.val.user)]
    <2>1. Merge(k, to, from) = [bits |-> bits, val |-> val, unknown |-> unknown]
      BY <1>3 DEF Merge, MergeCreateUserReply, UserMerged
    <2>2. /\ val = [f \in Fields(k) |-> val[f]]
          /\ \A r \in Table(k) :
               val[r.field] = Merged(r.type, to.val[r.field], from, r.bit, from.val[r.field])
      BY <1>3, CreateUserReplyRows DEF RowIs, Merged
    <2> HIDE DEF val
    <2> QED BY <2>1, <2>2, MergedMessage
  <1>4. CASE k = "GetUserRequest"
    <2> DEFINE val == [id |-> TextMerged(to.val.id, from, 1, from.val.id)]
    <2>1. Merge(k, to, from) = [bits |-> bits, val |-> val, unknown |-> unknown]
      BY <1>4 DEF Merge, MergeGetUserRequest
    <2>2. /\ val = [f \in Fields(k) |-> val[f]]
          /\ \A r \in Table(k) :
               val[r.field] = Merged(r.type, to.val[r.field], from, r.bit, from.val[r.field])
      BY <1>4, GetUserRequestRows DEF RowIs, Merged
    <2> HIDE DEF val
    <2> QED BY <2>1, <2>2, MergedMessage
  <1>5. CASE k = "GetUserReply"
    <2> DEFINE val == [user |-> UserMerged(to.val.user, from, 1, from.val.user)]
    <2>1. Merge(k, to, from) = [bits |-> bits, val |-> val, unknown |-> unknown]
      BY <1>5 DEF Merge, MergeGetUserReply, UserMerged
    <2>2. /\ val = [f \in Fields(k) |-> val[f]]
          /\ \A r \in Table(k) :
               val[r.field] = Merged(r.type, to.val[r.field], from, r.bit, from.val[r.field])
      BY <1>5, GetUserReplyRows DEF RowIs, Merged
    <2> HIDE DEF val
    <2> QED BY <2>1, <2>2, MergedMessage
  <1>6. CASE k = "ListUsersRequest"
    <2> DEFINE val == [limit |-> IntMerged(to.val.limit, from, 1, from.val.limit),
                    offset |-> IntMerged(to.val.offset, from, 2, from.val.offset)]
    <2>1. Merge(k, to, from) = [bits |-> bits, val |-> val, unknown |-> unknown]
      BY <1>6 DEF Merge, MergeListUsersRequest
    <2>2. /\ val = [f \in Fields(k) |-> val[f]]
          /\ \A r \in Table(k) :
               val[r.field] = Merged(r.type, to.val[r.field], from, r.bit, from.val[r.field])
      BY <1>6, ListUsersRequestRows DEF RowIs, Merged
    <2> HIDE DEF val
    <2> QED BY <2>1, <2>2, MergedMessage
  <1>7. CASE k = "ListUsersReply"
    <2> DEFINE val == [users |-> UsersMerged(to.val.users, from, 1, from.val.users),
                    total |-> IntMerged(to.val.total, from, 2, from.val.total)]
    <2>1. Merge(k, to, from) = [bits |-> bits, val |-> val, unknown |-> unknown]
      BY <1>7 DEF Merge, MergeListUsersReply, UsersMerged
    <2>2. /\ val = [f \in Fields(k) |-> val[f]]
          /\ \A r \in Table(k) :
               val[r.field] = Merged(r.type, to.val[r.field], from, r.bit, from.val[r.field])
      BY <1>7, ListUsersReplyRows DEF RowIs, Merged
    <2> HIDE DEF val
    <2> QED BY <2>1, <2>2, MergedMessage
  <1>8. CASE k = "GetStatsRequest"
    <2>1. to \in Shapes(k) /\ to.bits \in SUBSET Nat
      BY DEF Messages, Shapes
    <2>2. Merge(k, to, from) = [bits |-> to.bits, val |-> to.val, unknown |-> unknown]
      BY <1>8, <2>1 DEF Merge, Shapes
    <2>3. /\ to.unknown \in Seq(UnknownOf(k)) /\ from.unknown \in Seq(UnknownOf(k))
          /\ to.val = [f \in Fields(k) |-> to.val[f]]
      BY MessageParts
    <2>4. unknown \in Seq(UnknownOf(k))
      BY <2>3
    <2>6. Joins(k, Merge(k, to, from), to, from)
      <3>1. Merge(k, to, from).unknown = unknown
        <4> HIDE DEF unknown
        <4> QED BY <2>2
      <3>2. Table(k) = {}
        BY <1>8, GetStatsRequestRows
      <3> QED BY <3>1, <3>2 DEF Joins
    <2> HIDE DEF unknown
    <2>5. Merge(k, to, from) \in Messages(k)
      <3>1. Table(k) = {}
        BY <1>8, GetStatsRequestRows
      <3>2. [bits |-> to.bits, val |-> to.val, unknown |-> unknown] \in Messages(k)
        BY <2>1, <2>3, <2>4, <3>1, MessageOf
      <3> QED BY <2>2, <3>2
    <2> QED BY <2>5, <2>6
  <1>9. CASE k = "GetStatsReply"
    <2> DEFINE val == [total_users |-> IntMerged(to.val.total_users, from, 1, from.val.total_users),
                    request_count |-> IntMerged(to.val.request_count, from, 2, from.val.request_count)]
    <2>1. Merge(k, to, from) = [bits |-> bits, val |-> val, unknown |-> unknown]
      BY <1>9 DEF Merge, MergeGetStatsReply
    <2>2. /\ val = [f \in Fields(k) |-> val[f]]
          /\ \A r \in Table(k) :
               val[r.field] = Merged(r.type, to.val[r.field], from, r.bit, from.val[r.field])
      BY <1>9, GetStatsReplyRows DEF RowIs, Merged
    <2> HIDE DEF val
    <2> QED BY <2>1, <2>2, MergedMessage
  <1> QED BY <1>1, <1>2, <1>3, <1>4, <1>5, <1>6, <1>7, <1>8, <1>9 DEF Kinds

\* Joining with an empty message changes nothing.
LEMMA JoinedWithCleared ==
  ASSUME NEW k \in Kinds, NEW c \in Messages(k), Cleared(c), NEW m \in Messages(k), NEW n, Joins(k, n, c, m)
  PROVE SameMessage(k, n, m)
  <1>1. n.unknown = m.unknown
    <2>1. m.unknown \in Seq(UnknownOf(k)) /\ c.unknown = <<>>
      BY MessageParts DEF Cleared
    <2>2. <<>> \o m.unknown = m.unknown
      BY <2>1
    <2> QED BY <2>1, <2>2 DEF Joins
  <1>2. ASSUME NEW r \in Table(k) PROVE FieldOf(n, r) = FieldOf(m, r)
    <2> DEFINE v == c.val[r.field]
               w == m.val[r.field]
    <2>1. /\ ValueGood(r.type, {}, r.bit, v) /\ ValueGood(r.type, m.bits, r.bit, w) /\ r.type \in Types
          /\ FieldOf(c, r) = Got(r.type, {}, r.bit, v) /\ FieldOf(m, r) = Got(r.type, m.bits, r.bit, w)
          /\ FieldOf(n, r) = Joined(r.type, FieldOf(c, r), FieldOf(m, r))
      <3>1. c.bits = {}
        BY DEF Cleared
      <3>2. FieldOf(c, r) = Got(r.type, {}, r.bit, v) /\ FieldOf(m, r) = Got(r.type, m.bits, r.bit, w)
        BY <3>1 DEF FieldOf
      <3>3. ValueGood(r.type, c.bits, r.bit, v) /\ ValueGood(r.type, m.bits, r.bit, w)
        BY MessageParts
      <3>4. FieldOf(n, r) = Joined(r.type, FieldOf(c, r), FieldOf(m, r))
        BY DEF Joins
      <3>5. r.type \in Types
        BY TableKeys
      <3> QED BY <3>1, <3>2, <3>3, <3>4, <3>5
    <2> HIDE DEF v, w
    <2>2. CASE r.type = "text"
      BY <2>1, <2>2 DEF ValueGood, TextGood, Got, Joined
    <2>3. CASE r.type \in {"int32", "int64"}
      BY <2>1, <2>3 DEF ValueGood, IntGood, Got, Joined
    <2>4. CASE r.type = "user"
      <3>1. FieldOf(c, r) = <<>>
        BY <2>1, <2>4 DEF Got
      <3> QED BY <2>1, <2>4, <3>1 DEF Joined
    <2>5. CASE r.type = "users"
      <3>1. v = <<>> /\ w \in Seq(GoodUsers)
        BY <2>1, <2>5 DEF ValueGood
      <3>2. FieldOf(n, r) = ContentsOfUsers(v) \o ContentsOfUsers(w)
        BY <2>1, <2>5 DEF Got, Joined, ContentsOfUsers
      <3>3. v \in Seq(GoodUsers) /\ v \o w = w
        BY <3>1
      <3>4. FieldOf(n, r) = ContentsOfUsers(w)
        BY <3>1, <3>2, <3>3, ContentsOfUsersJoin
      <3> QED BY <2>1, <2>5, <3>4 DEF Got, ContentsOfUsers
    <2> QED BY <2>1, <2>2, <2>3, <2>4, <2>5 DEF Types
  <1> QED BY <1>1, <1>2 DEF SameMessage

\* An assignment makes a good message with the contents of the other one.
LEMMA CopyFromGood ==
  ASSUME NEW k \in Kinds, NEW to \in Messages(k), NEW from \in Messages(k)
  PROVE CopyFrom(k, to, from) \in Messages(k) /\ SameMessage(k, CopyFrom(k, to, from), from)
  BY ClearGood, MergeGood, JoinedWithCleared DEF CopyFrom

LEMMA CopyGood ==
  ASSUME NEW k \in Kinds, NEW m \in Messages(k)
  PROVE Copy(k, m) \in Messages(k)
  <1>1. CASE k \in {"CreateUserReply", "GetUserReply"}
    <2> DEFINE val == [user |-> IF Has(m, 1) THEN m.val.user ELSE NULL]
    <2>1. Copy(k, m) = [bits |-> m.bits, val |-> val, unknown |-> m.unknown]
      BY <1>1, MessageParts DEF Copy, CopyCreateUserReply, CopyGetUserReply
    <2>2. Table(k) = {RowIs(1, "user", 1, "user")} /\ Fields(k) = {"user"}
      BY <1>1, CreateUserReplyRows, GetUserReplyRows
    <2>3. ValueGood("user", m.bits, 1, m.val.user)
      <3>1. RowIs(1, "user", 1, "user") \in Table(k)
        BY <2>2
      <3> QED BY <3>1, MessageParts DEF RowIs
    <2>4. ValueGood("user", m.bits, 1, val.user)
      BY <2>3 DEF ValueGood, Has
    <2>5. /\ val = [f \in Fields(k) |-> val[f]]
          /\ \A r \in Table(k) : ValueGood(r.type, m.bits, r.bit, val[r.field])
      BY <2>2, <2>4 DEF RowIs
    <2>6. m.bits \in SUBSET Nat /\ m.unknown \in Seq(UnknownOf(k))
      BY MessageParts
    <2> HIDE DEF val
    <2> QED BY <2>1, <2>5, <2>6, MessageOf
  <1>2. CASE k \notin {"CreateUserReply", "GetUserReply"}
    BY <1>2 DEF Copy
  <1> QED BY <1>1, <1>2

\* What the getters return is what Contents compares.
LEMMA SameContents ==
  ASSUME NEW k \in Kinds, NEW n, NEW m, SameMessage(k, n, m)
  PROVE Contents(k, n) = Contents(k, m)
  <1>1. ASSUME NEW f \in Fields(k)
        PROVE Contents(k, n).fields[f] = Contents(k, m).fields[f]
    <2> DEFINE r == RowOf(k, f)
    <2>1. r \in Table(k) /\ r.field = f
      BY TableKeys DEF RowOf
    <2>2. Got(r.type, n.bits, r.bit, n.val[f]) = Got(r.type, m.bits, r.bit, m.val[f])
      BY <2>1 DEF SameMessage, FieldOf
    <2>3. Contents(k, n).fields[f] = Got(r.type, n.bits, r.bit, n.val[f])
      BY DEF Contents, Got, Has
    <2>4. Contents(k, m).fields[f] = Got(r.type, m.bits, r.bit, m.val[f])
      BY DEF Contents, Got, Has
    <2> QED BY <2>2, <2>3, <2>4
  <1>2. n.unknown = m.unknown
    BY DEF SameMessage
  <1> QED BY <1>1, <1>2 DEF Contents

-----------------------------------------------------------------------------
(* The parser                                                              *)

\* Unknown fields are entries like the others.
LEMMA UnknownAreEntries ==
  ASSUME NEW k, NEW s \in Seq(UnknownOf(k))
  PROVE s \in Seq(EntriesOf(k))
  BY DEF UnknownOf

\* The users inside of messages are messages too.
LEMMA UserIsMessage == GoodUsers = Messages("User")
  <1>0. /\ "User" \in Kinds
        /\ EntriesOf("User") = FlatEntries
        /\ Fields("User") = {"id", "name", "email", "created_at"}
    BY UserRows DEF Kinds, EntriesOf
  <1>1. ASSUME NEW u \in GoodUsers PROVE u \in Messages("User")
    <2>1. u \in Users /\ UserGood(u)
      BY DEF GoodUsers
    <2>2. /\ u = [bits |-> u.bits, val |-> u.val, unknown |-> u.unknown]
          /\ u.val = [f \in Fields("User") |-> u.val[f]]
      BY <1>0, <2>1 DEF Users
    <2>3. u.bits \in SUBSET Nat /\ u.unknown \in Seq(UnknownOf("User"))
      BY <2>1, UserFields DEF UserGood
    <2>4. \A r \in Table("User") : ValueGood(r.type, u.bits, r.bit, u.val[r.field])
      BY <2>1, UserRows DEF UserGood, ValueGood, RowIs, Width
    <2>5. [bits |-> u.bits, val |-> u.val, unknown |-> u.unknown] \in Messages("User")
      BY <1>0, <2>2, <2>3, <2>4, MessageOf
    <2> QED BY <2>2, <2>5
  <1>2. ASSUME NEW m \in Messages("User") PROVE m \in GoodUsers
    <2>1. UserGood(m)
      <3>1. /\ RowIs(1, "text", 1, "id") \in Table("User") /\ RowIs(2, "text", 2, "name") \in Table("User")
            /\ RowIs(3, "text", 4, "email") \in Table("User")
            /\ RowIs(4, "int64", 8, "created_at") \in Table("User")
        BY UserRows
      <3>2. /\ ValueGood("text", m.bits, 1, m.val.id) /\ ValueGood("text", m.bits, 2, m.val.name)
            /\ ValueGood("text", m.bits, 4, m.val.email) /\ ValueGood("int64", m.bits, 8, m.val.created_at)
        BY <3>1, MessageParts DEF RowIs
      <3>3. IntGood(Bits64, m.bits, 8, m.val.created_at)
        BY <3>2 DEF ValueGood, Width
      <3>4. m.unknown \in Seq(UnknownOf("User"))
        BY MessageParts
      <3> QED BY <3>2, <3>3, <3>4 DEF ValueGood, UserGood
    <2>2. m.val \in [{"id", "name", "email", "created_at"} -> AnyValue]
      BY <1>0, MessageParts
    <2>3. m.val = [id |-> m.val.id, name |-> m.val.name, email |-> m.val.email, created_at |-> m.val.created_at]
      BY <2>2
    <2>4. m.val \in [id : TextValues, name : TextValues, email : TextValues, created_at : Int]
      BY <2>1, <2>3, IntsAreInts DEF UserGood, TextGood, IntGood
    <2>5. /\ m.bits \in SUBSET Nat /\ m.unknown \in Seq(FlatEntries)
          /\ m = [bits |-> m.bits, val |-> m.val, unknown |-> m.unknown]
      <3>1. m.unknown \in Seq(EntriesOf("User"))
        BY MessageParts, UnknownAreEntries
      <3> QED BY <1>0, <3>1, MessageParts
    <2>6. m \in Users
      BY <2>4, <2>5 DEF Users
    <2> QED BY <2>1, <2>6 DEF GoodUsers
  <1> QED BY <1>1, <1>2

\* The entries on the wire by their forms.
LEMMA EntryParts ==
  /\ \A e \in FlatEntries : \/ Form(e) = "text" /\ Val(e) \in Texts
                            \/ Form(e) = "varint" /\ Val(e) \in Int
  /\ \A e \in WireEntries : \/ e \in FlatEntries
                            \/ Form(e) = "message" /\ Val(e) \in Seq(FlatEntries)
  /\ \A n \in Nat : /\ \A t \in Texts : Entry(n, "text", t) \in FlatEntries
                    /\ \A i \in Int : Entry(n, "varint", i) \in FlatEntries
                    /\ \A s \in Seq(FlatEntries) : Entry(n, "message", s) \in WireEntries
  BY DEF FlatEntries, WireEntries, Entry, Form, Val

\* A string or an int from the wire is good with its bit.
LEMMA ReadPlainGood ==
  ASSUME NEW e \in FlatEntries, NEW type \in {"text", "int32", "int64"}, FormOf(type) = Form(e),
         NEW bits, NEW bit \in bits
  PROVE /\ type = "text" => ValueGood(type, bits, bit, Text(Val(e)))
        /\ type = "int32" => ValueGood(type, bits, bit, FromWire(Val(e), Bits32))
        /\ type = "int64" => ValueGood(type, bits, bit, FromWire(Val(e), Bits64))
  <1>1. CASE type = "text"
    <2>1. Val(e) \in Texts
      BY <1>1, EntryParts DEF FormOf
    <2>2. TextGood(bits, bit, Text(Val(e)))
      BY <2>1 DEF TextGood, Text, TextValues
    <2> QED BY <1>1, <2>2 DEF ValueGood
  <1>2. CASE type \in {"int32", "int64"}
    <2>1. Val(e) \in Int
      BY <1>2, EntryParts DEF FormOf
    <2>2. /\ FromWire(Val(e), Bits32) \in IntsOf(Bits32)
          /\ FromWire(Val(e), Bits64) \in IntsOf(Bits64)
      BY <2>1, IntsAreInts
    <2> QED BY <1>2, <2>2 DEF ValueGood, IntGood, Width
  <1> QED BY <1>1, <1>2

\* One entry read into a user.
LEMMA ReadUserEntryGood ==
  ASSUME NEW u \in GoodUsers, NEW e \in FlatEntries
  PROVE ReadUserEntry(u, e) \in GoodUsers
  <1> DEFINE rows == {r \in UserTable : r.num = Num(e) /\ FormOf(r.type) = Form(e)}
             r == CHOOSE r \in rows : TRUE
  <1>0. u \in Messages("User") /\ "User" \in Kinds /\ UserTable = Table("User")
    BY UserIsMessage DEF Kinds, Table
  <1>1. CASE rows = {}
    <2>1. ReadUserEntry(u, e) = [u EXCEPT !.unknown = Append(u.unknown, e)]
      BY <1>1 DEF ReadUserEntry, ReadEntry
    <2>2. Append(u.unknown, e) \in Seq(FlatEntries) /\ u \in Users
      BY UserFields DEF GoodUsers
    <2>5. Append(u.unknown, e) \in Seq(UnknownOf("User"))
      <3>1. e \in UnknownOf("User")
        BY <1>0, <1>1 DEF UnknownOf, EntriesOf
      <3>2. u.unknown \in Seq(UnknownOf("User"))
        BY DEF GoodUsers, UserGood
      <3> QED BY <3>1, <3>2
    <2>3. ReadUserEntry(u, e) \in Users
      BY <2>1, <2>2 DEF Users
    <2>4. /\ ReadUserEntry(u, e).bits = u.bits /\ ReadUserEntry(u, e).val = u.val
          /\ ReadUserEntry(u, e).unknown = Append(u.unknown, e)
      BY <2>1, <2>2 DEF Users
    <2> QED BY <2>3, <2>4, <2>5 DEF GoodUsers, UserGood
  <1>2. CASE rows # {}
    <2>1. r \in Table("User") /\ FormOf(r.type) = Form(e)
      BY <1>0, <1>2
    <2>2. r.type \in {"text", "int64"}
      BY <2>1, UserRows DEF RowIs
    <2>3. r.bit \in u.bits \cup {r.bit}
      OBVIOUS
    <2> DEFINE v == CASE r.type = "text" -> Text(Val(e))
                      [] r.type = "int64" -> FromWire(Val(e), Bits64)
    <2>4. ReadUserEntry(u, e) = SetField(u, r.bit, r.field, v)
      BY <1>2, <2>2 DEF ReadUserEntry, ReadEntry, ReadInto
    <2> HIDE DEF r
    <2>5. ValueGood(r.type, u.bits \cup {r.bit}, r.bit, v)
      BY <2>1, <2>2, <2>3, ReadPlainGood
    <2> HIDE DEF v
    <2> QED BY <1>0, <2>1, <2>4, <2>5, SetFieldGood, UserIsMessage
  <1> QED BY <1>1, <1>2

\* A user is read entry by entry: g[i] is the user after the first i of them.
RunOfUser(u, s, g) == g[0] = u /\ \A i \in 1..Len(s) : g[i] = ReadUserEntry(g[i - 1], s[i])

LEMMA ParseUserRuns ==
  ASSUME NEW u \in GoodUsers, NEW s \in Seq(FlatEntries)
  PROVE \E g : RunOfUser(u, s, g) /\ ParseUser(u, s) = g[Len(s)]
  <1> DEFINE n == Len(s)
             Body(g) == [z \in SUBSET (1..n) |-> IF z = {} THEN u ELSE ReadUserEntry(g[z \ {Max(z)}], s[Max(z)])]
             h == CHOOSE g : g = Body(g)
  <1>0. n \in Nat /\ DOMAIN s = 1..n
    OBVIOUS
  <1>1. ParseUser(u, s) = h[1..n]
    BY <1>0 DEF ParseUser, FoldLeft, MapThenFoldSet
  <1>2. \E g : g = Body(g)
    <2> DEFINE F == [p \in (1..n) \X GoodUsers |-> ReadUserEntry(p[2], s[p[1]])]
    <2>1. F \in [(1..n) \X GoodUsers -> GoodUsers]
      <3>1. ASSUME NEW i \in 1..n, NEW v \in GoodUsers PROVE ReadUserEntry(v, s[i]) \in GoodUsers
        <4>1. s[i] \in FlatEntries
          BY <1>0
        <4> QED BY <4>1, ReadUserEntryGood
      <3> HIDE DEF n
      <3> QED BY <3>1
    <2> HIDE DEF F, n
    <2>3. PICK g \in [SUBSET (1..n) -> GoodUsers] : FoldOf(g, u, n, F)
      BY <1>0, <2>1, FoldExists
    <2>4. ASSUME NEW z \in SUBSET (1..n) PROVE g[z] = Body(g)[z]
      <3>1. CASE z = {}
        BY <2>3, <3>1 DEF FoldOf
      <3>2. CASE z # {}
        <4>1. Max(z) \in 1..n /\ z \ {Max(z)} \in SUBSET (1..n)
          BY <3>2, <1>0, Below
        <4>2. F[<<Max(z), g[z \ {Max(z)}]>>] = ReadUserEntry(g[z \ {Max(z)}], s[Max(z)])
          BY <4>1, <2>3 DEF F
        <4> QED BY <2>3, <3>2, <4>2 DEF FoldOf
      <3> QED BY <3>1, <3>2
    <2> QED BY <2>3, <2>4
  <1>3. h = Body(h)
    BY <1>2
  <1> HIDE DEF h
  <1>4. h[{}] = u
    BY <1>3
  <1>5. ASSUME NEW i \in 1..n PROVE h[1..i] = ReadUserEntry(h[1..i-1], s[i])
    <2>1. 1..i # {} /\ 1..i \in SUBSET (1..n)
      BY <1>0
    <2>2. Max(1..i) = i /\ 1..i \ {i} = 1..i-1
      BY <1>0, MaxOfFirst
    <2> QED BY <1>3, <2>1, <2>2
  <1> DEFINE g == [i \in 0..n |-> h[1..i]]
  <1>6. g[0] = u
    <2>1. 1..0 = {} /\ 0 \in 0..n
      BY <1>0
    <2> QED BY <1>4, <2>1
  <1>7. ASSUME NEW i \in 1..n PROVE g[i] = ReadUserEntry(g[i - 1], s[i])
    <2>1. i \in 0..n /\ i - 1 \in 0..n
      BY <1>0
    <2> QED BY <1>5, <2>1
  <1>8. ParseUser(u, s) = g[n]
    BY <1>0, <1>1
  <1> HIDE DEF g
  <1> QED BY <1>6, <1>7, <1>8 DEF RunOfUser

LEMMA RunOfUserGood ==
  ASSUME NEW u \in GoodUsers, NEW s \in Seq(FlatEntries), NEW g, RunOfUser(u, s, g),
         NEW c \in 0..Len(s)
  PROVE g[c] \in GoodUsers
  <1> DEFINE n == Len(s)
             T == {i \in 0..n : g[i] \in GoodUsers}
  <1>0. n \in Nat /\ c \in Nat /\ c <= n
    OBVIOUS
  <1>1. 0 \in T
    BY <1>0 DEF RunOfUser
  <1>2. ASSUME NEW i \in 1..c, i - 1 \in T PROVE i \in T
    <2>1. i \in 0..n /\ i \in 1..n /\ g[i - 1] \in GoodUsers /\ s[i] \in FlatEntries
      BY <1>0, <1>2
    <2> QED BY <2>1, ReadUserEntryGood DEF RunOfUser
  <1>3. c \in T
    <2> HIDE DEF T, n
    <2> QED BY <1>0, <1>1, <1>2, NatSteps
  <1> QED BY <1>3

\* A whole user read from the wire.
LEMMA ParseUserGood ==
  ASSUME NEW u \in GoodUsers, NEW s \in Seq(FlatEntries)
  PROVE ParseUser(u, s) \in GoodUsers
  <1>1. PICK g : RunOfUser(u, s, g) /\ ParseUser(u, s) = g[Len(s)]
    BY ParseUserRuns
  <1>2. Len(s) \in 0..Len(s)
    OBVIOUS
  <1> QED BY <1>1, <1>2, RunOfUserGood

\* One entry read into a message.
Read(k, m, e) == ReadEntry(Table(k), m, e, ParseUser)

\* Whatever the entry is, the message stays good.
LEMMA ReadGood ==
  ASSUME NEW k \in Kinds, NEW m \in Messages(k), NEW e \in EntriesOf(k)
  PROVE Read(k, m, e) \in Messages(k)
  <1> DEFINE rows == {r \in Table(k) : r.num = Num(e) /\ FormOf(r.type) = Form(e)}
             r == CHOOSE r \in rows : TRUE
             v == ReadInto(r, m.val[r.field], e, ParseUser)
  <1>0. /\ m.unknown \in Seq(UnknownOf(k)) /\ m.bits \in SUBSET Nat /\ m \in Shapes(k)
        /\ m = [bits |-> m.bits, val |-> m.val, unknown |-> m.unknown]
    BY MessageParts DEF Messages
  <1>1. CASE rows = {}
    <2>1. Read(k, m, e) = [m EXCEPT !.unknown = Append(m.unknown, e)]
      BY <1>1 DEF Read, ReadEntry
    <2>2. Append(m.unknown, e) \in Seq(UnknownOf(k))
      <3>1. e \in UnknownOf(k)
        BY <1>1 DEF UnknownOf
      <3> QED BY <1>0, <3>1
    <2>3. Read(k, m, e) \in Shapes(k) /\ Read(k, m, e).bits = m.bits /\ Read(k, m, e).val = m.val
      BY <1>0, <2>1, <2>2 DEF Shapes
    <2> QED BY <2>3, MessageParts DEF Messages
  <1>2. CASE rows # {}
    <2>1. r \in Table(k) /\ FormOf(r.type) = Form(e)
      BY <1>2
    <2>2. r.type \in Types /\ r.bit \in m.bits \cup {r.bit}
      BY <2>1, TableKeys
    <2>3. Read(k, m, e) = SetField(m, r.bit, r.field, v)
      BY <1>2 DEF Read, ReadEntry
    <2>4. e \in WireEntries
      BY DEF EntriesOf, WireEntries
    <2> HIDE DEF r
    <2>5. CASE r.type \in {"text", "int32", "int64"}
      <3>1. e \in FlatEntries
        BY <2>1, <2>4, <2>5, EntryParts DEF FormOf
      <3>2. /\ r.type = "text" => v = Text(Val(e))
            /\ r.type = "int32" => v = FromWire(Val(e), Bits32)
            /\ r.type = "int64" => v = FromWire(Val(e), Bits64)
        BY DEF ReadInto
      <3> HIDE DEF v
      <3>3. ValueGood(r.type, m.bits \cup {r.bit}, r.bit, v)
        BY <2>1, <2>2, <2>5, <3>1, <3>2, ReadPlainGood
      <3> QED BY <2>1, <2>3, <3>3, SetFieldGood
    <2>6. CASE r.type \in {"user", "users"}
      <3>1. Val(e) \in Seq(FlatEntries)
        BY <2>1, <2>4, <2>6, EntryParts DEF FormOf
      <3>2. ValueGood(r.type, m.bits, r.bit, m.val[r.field])
        BY <2>1, MessageParts
      <3>3. CASE r.type = "user"
        <4>1. v = ParseUser(IF m.val[r.field] = NULL THEN NewUser ELSE m.val[r.field], Val(e))
          BY <3>3 DEF ReadInto
        <4>2. (IF m.val[r.field] = NULL THEN NewUser ELSE m.val[r.field]) \in GoodUsers
          BY <3>2, <3>3, NewUserGood DEF ValueGood
        <4>3. v \in GoodUsers
          BY <3>1, <4>1, <4>2, ParseUserGood
        <4> HIDE DEF v
        <4>4. ValueGood(r.type, m.bits \cup {r.bit}, r.bit, v)
          BY <2>2, <3>3, <4>3, NullIsNoUser DEF ValueGood
        <4> QED BY <2>1, <2>3, <4>4, SetFieldGood
      <3>4. CASE r.type = "users"
        <4>1. v = Append(m.val[r.field], ParseUser(NewUser, Val(e)))
          BY <3>4 DEF ReadInto
        <4>2. m.val[r.field] \in Seq(GoodUsers)
          BY <3>2, <3>4 DEF ValueGood
        <4>3. v \in Seq(GoodUsers)
          BY <3>1, <4>1, <4>2, NewUserGood, ParseUserGood
        <4> HIDE DEF v
        <4>4. ValueGood(r.type, m.bits \cup {r.bit}, r.bit, v)
          BY <2>2, <3>4, <4>3 DEF ValueGood
        <4> QED BY <2>1, <2>3, <4>4, SetFieldGood
      <3> QED BY <2>6, <3>3, <3>4
    <2> QED BY <2>2, <2>5, <2>6 DEF Types
  <1> QED BY <1>1, <1>2

\* g[i] is the message after the first i entries.
Run(k, m, s, g) == g[0] = m /\ \A i \in 1..Len(s) : g[i] = Read(k, g[i - 1], s[i])

\* The parser makes such a run.
LEMMA ParseRuns ==
  ASSUME NEW k \in Kinds, NEW m \in Messages(k), NEW s \in Seq(EntriesOf(k))
  PROVE \E g : Run(k, m, s, g) /\ Parse(k, m, s) = g[Len(s)]
  <1> DEFINE n == Len(s)
             Body(g) == [z \in SUBSET (1..n) |-> IF z = {} THEN m ELSE Read(k, g[z \ {Max(z)}], s[Max(z)])]
             h == CHOOSE g : g = Body(g)
  <1>0. n \in Nat /\ DOMAIN s = 1..n
    OBVIOUS
  <1>1. Parse(k, m, s) = h[1..n]
    BY <1>0 DEF Parse, FoldLeft, MapThenFoldSet, Read
  <1>2. \E g : g = Body(g)
    <2> DEFINE F == [p \in (1..n) \X Messages(k) |-> Read(k, p[2], s[p[1]])]
    <2>1. F \in [(1..n) \X Messages(k) -> Messages(k)]
      <3>1. ASSUME NEW i \in 1..n, NEW v \in Messages(k) PROVE Read(k, v, s[i]) \in Messages(k)
        <4>1. s[i] \in EntriesOf(k)
          BY <1>0
        <4> QED BY <4>1, ReadGood
      <3> HIDE DEF n
      <3> QED BY <3>1
    <2> HIDE DEF F, n
    <2>3. PICK g \in [SUBSET (1..n) -> Messages(k)] : FoldOf(g, m, n, F)
      BY <1>0, <2>1, FoldExists
    <2>4. ASSUME NEW z \in SUBSET (1..n) PROVE g[z] = Body(g)[z]
      <3>1. CASE z = {}
        BY <2>3, <3>1 DEF FoldOf
      <3>2. CASE z # {}
        <4>1. Max(z) \in 1..n /\ z \ {Max(z)} \in SUBSET (1..n)
          BY <3>2, <1>0, Below
        <4>2. F[<<Max(z), g[z \ {Max(z)}]>>] = Read(k, g[z \ {Max(z)}], s[Max(z)])
          BY <4>1, <2>3 DEF F
        <4> QED BY <2>3, <3>2, <4>2 DEF FoldOf
      <3> QED BY <3>1, <3>2
    <2> QED BY <2>3, <2>4
  <1>3. h = Body(h)
    BY <1>2
  <1> HIDE DEF h
  <1>4. h[{}] = m
    BY <1>3
  <1>5. ASSUME NEW i \in 1..n PROVE h[1..i] = Read(k, h[1..i-1], s[i])
    <2>1. 1..i # {} /\ 1..i \in SUBSET (1..n)
      BY <1>0
    <2>2. Max(1..i) = i /\ 1..i \ {i} = 1..i-1
      BY <1>0, MaxOfFirst
    <2> QED BY <1>3, <2>1, <2>2
  <1> DEFINE g == [i \in 0..n |-> h[1..i]]
  <1>6. g[0] = m
    <2>1. 1..0 = {} /\ 0 \in 0..n
      BY <1>0
    <2> QED BY <1>4, <2>1
  <1>7. ASSUME NEW i \in 1..n PROVE g[i] = Read(k, g[i - 1], s[i])
    <2>1. i \in 0..n /\ i - 1 \in 0..n
      BY <1>0
    <2> QED BY <1>5, <2>1
  <1>8. Parse(k, m, s) = g[n]
    BY <1>0, <1>1
  <1> HIDE DEF g
  <1> QED BY <1>6, <1>7, <1>8 DEF Run

\* Any run ends with what the parser returns.
LEMMA RunEnds ==
  ASSUME NEW k \in Kinds, NEW m \in Messages(k), NEW s \in Seq(EntriesOf(k)), NEW g, Run(k, m, s, g)
  PROVE Parse(k, m, s) = g[Len(s)]
  <1> DEFINE n == Len(s)
  <1>0. n \in Nat
    OBVIOUS
  <1>1. PICK h : Run(k, m, s, h) /\ Parse(k, m, s) = h[n]
    BY ParseRuns
  <1> DEFINE T == {i \in 0..n : g[i] = h[i]}
  <1>2. 0 \in T
    BY <1>0, <1>1 DEF Run
  <1>3. ASSUME NEW i \in 1..n, i - 1 \in T PROVE i \in T
    <2>1. i \in 0..n /\ g[i - 1] = h[i - 1]
      BY <1>0, <1>3
    <2> QED BY <1>1, <2>1 DEF Run
  <1>4. n \in T
    <2> HIDE DEF T, n
    <2> QED BY <1>0, <1>2, <1>3, NatSteps
  <1> QED BY <1>1, <1>4

\* A run stays among the messages.
LEMMA RunGood ==
  ASSUME NEW k \in Kinds, NEW m \in Messages(k), NEW s \in Seq(EntriesOf(k)), NEW g, Run(k, m, s, g)
  PROVE g[Len(s)] \in Messages(k)
  <1> DEFINE n == Len(s)
             T == {i \in 0..n : g[i] \in Messages(k)}
  <1>0. n \in Nat
    OBVIOUS
  <1>2. 0 \in T
    BY <1>0 DEF Run
  <1>3. ASSUME NEW i \in 1..n, i - 1 \in T PROVE i \in T
    <2>1. i \in 0..n /\ g[i - 1] \in Messages(k) /\ s[i] \in EntriesOf(k)
      BY <1>0, <1>3
    <2> QED BY <2>1, ReadGood DEF Run
  <1>4. n \in T
    <2> HIDE DEF T, n
    <2> QED BY <1>0, <1>2, <1>3, NatSteps
  <1> QED BY <1>4

\* A whole message read from the wire.
LEMMA ParseGood ==
  ASSUME NEW k \in Kinds, NEW m \in Messages(k), NEW s \in Seq(EntriesOf(k))
  PROVE Parse(k, m, s) \in Messages(k)
  BY ParseRuns, RunGood

\* Reading no entry and one entry.
LEMMA ParseFew ==
  ASSUME NEW k \in Kinds, NEW m \in Messages(k)
  PROVE /\ Parse(k, m, <<>>) = m
        /\ \A e \in EntriesOf(k) : Parse(k, m, <<e>>) = Read(k, m, e)
  <1>1. Parse(k, m, <<>>) = m
    <2> DEFINE g == [i \in 0..0 |-> m]
    <2>1. <<>> \in Seq(EntriesOf(k)) /\ Len(<<>>) = 0 /\ g[0] = m
      OBVIOUS
    <2> HIDE DEF g
    <2>2. Run(k, m, <<>>, g)
      BY <2>1 DEF Run
    <2> QED BY <2>1, <2>2, RunEnds
  <1>2. ASSUME NEW e \in EntriesOf(k) PROVE Parse(k, m, <<e>>) = Read(k, m, e)
    <2> DEFINE g == [i \in 0..1 |-> IF i = 0 THEN m ELSE Read(k, m, e)]
               s == <<e>>
    <2>1. s \in Seq(EntriesOf(k)) /\ Len(s) = 1 /\ s[1] = e /\ g[0] = m /\ g[1] = Read(k, m, e)
      OBVIOUS
    <2> HIDE DEF g, s
    <2>2. ASSUME NEW i \in 1..Len(s) PROVE g[i] = Read(k, g[i - 1], s[i])
      <3>1. i = 1 /\ i - 1 = 0
        BY <2>1
      <3> QED BY <2>1, <3>1
    <2>3. Run(k, m, s, g)
      BY <2>1, <2>2 DEF Run
    <2>4. Parse(k, m, s) = Read(k, m, e)
      BY <2>1, <2>3, RunEnds
    <2> QED BY <2>4 DEF s
  <1> QED BY <1>1, <1>2

\* Reading two parts of the bytes one after the other.
LEMMA ParseConcat ==
  ASSUME NEW k \in Kinds, NEW m \in Messages(k), NEW s \in Seq(EntriesOf(k)), NEW t \in Seq(EntriesOf(k))
  PROVE Parse(k, m, s \o t) = Parse(k, Parse(k, m, s), t)
  <1> DEFINE c == Len(s)
             d == Len(t)
             st == s \o t
  <1>0. c \in Nat /\ d \in Nat
    OBVIOUS
  <1>1. PICK g : Run(k, m, s, g) /\ Parse(k, m, s) = g[c]
    BY ParseRuns
  <1>2. g[c] \in Messages(k)
    BY <1>1, RunGood
  <1>3. PICK h : Run(k, g[c], t, h) /\ Parse(k, g[c], t) = h[d]
    BY <1>2, ParseRuns
  <1> DEFINE q == [i \in 0..c + d |-> IF i <= c THEN g[i] ELSE h[i - c]]
  <1>4. st \in Seq(EntriesOf(k)) /\ Len(st) = c + d
    OBVIOUS
  <1>5. /\ \A i \in 1..c : st[i] = s[i]
        /\ \A i \in 1..c + d : i > c => st[i] = t[i - c]
    OBVIOUS
  <1>6. \A i \in 0..c : q[i] = g[i]
    BY <1>0
  <1>7. \A i \in 0..c + d : i >= c => q[i] = h[i - c]
    <2>1. h[0] = g[c]
      BY <1>3 DEF Run
    <2> SUFFICES ASSUME NEW i \in 0..c + d, i >= c PROVE q[i] = h[i - c]
      OBVIOUS
    <2>2. CASE i = c
      <3>1. q[i] = g[c] /\ i - c = 0
        BY <1>0, <2>2
      <3> QED BY <2>1, <3>1
    <2>3. CASE i > c
      BY <1>0, <2>3
    <2> QED BY <1>0, <2>2, <2>3
  <1> HIDE DEF q, c, d, st
  <1>8. ASSUME NEW i \in 1..c + d PROVE q[i] = Read(k, q[i - 1], st[i])
    <2>1. CASE i <= c
      <3>1. i \in 1..c /\ i \in 0..c /\ i - 1 \in 0..c
        BY <1>0, <2>1
      <3>2. g[i] = Read(k, g[i - 1], s[i])
        BY <1>1, <3>1 DEF Run, c
      <3> QED BY <1>5, <1>6, <3>1, <3>2
    <2>2. CASE i > c
      <3>1. i \in 0..c + d /\ i - 1 \in 0..c + d /\ i - 1 >= c /\ i - c \in 1..d
        BY <1>0, <2>2
      <3>2. h[i - c] = Read(k, h[(i - c) - 1], t[i - c])
        BY <1>3, <3>1 DEF Run, d
      <3>3. (i - c) - 1 = (i - 1) - c
        BY <1>0
      <3>4. q[i] = h[i - c] /\ q[i - 1] = h[(i - 1) - c]
        BY <1>0, <1>7, <2>2, <3>1
      <3> QED BY <1>5, <2>2, <3>2, <3>3, <3>4
    <2> QED BY <1>0, <2>1, <2>2
  <1>9. q[0] = m /\ q[c + d] = h[d]
    <2>1. 0 \in 0..c /\ c + d \in 0..c + d /\ c + d >= c /\ (c + d) - c = d
      BY <1>0
    <2>2. q[0] = g[0] /\ g[0] = m
      BY <1>1, <1>6, <2>1 DEF Run
    <2> QED BY <1>7, <2>1, <2>2
  <1>10. Run(k, m, st, q)
    BY <1>4, <1>8, <1>9 DEF Run
  <1>11. Parse(k, m, st) = q[c + d]
    BY <1>4, <1>10, RunEnds
  <1> QED BY <1>1, <1>3, <1>9, <1>11 DEF st

-----------------------------------------------------------------------------
(* The serializer                                                          *)

LEMMA ToWireIsInt == ASSUME NEW n \in Int PROVE ToWire(n) \in Int
  <1>1. 2^Bits64 \in Nat \ {0}
    BY PowersAssumption
  <1> DEFINE w == 2^Bits64
  <1>2. ToWire(n) = n % w
    BY DEF ToWire
  <1> HIDE DEF w
  <1> QED BY <1>1, <1>2 DEF w

\* A field on the wire.
LEMMA PutPlain ==
  ASSUME NEW m, NEW bit, NEW num \in Nat, NEW v
  PROVE /\ v \in TextValues => PutText(m, bit, num, v) \in Seq(FlatEntries)
        /\ v \in Int => PutInt(m, bit, num, v) \in Seq(FlatEntries)
  <1>1. ASSUME v \in TextValues PROVE PutText(m, bit, num, v) \in Seq(FlatEntries)
    <2>1. Entry(num, "text", v.text) \in FlatEntries
      BY <1>1, EntryParts DEF TextValues
    <2> QED
      BY <2>1 DEF PutText
  <1>2. ASSUME v \in Int PROVE PutInt(m, bit, num, v) \in Seq(FlatEntries)
    <2>1. Entry(num, "varint", ToWire(v)) \in FlatEntries
      BY <1>2, ToWireIsInt, EntryParts
    <2> QED
      BY <2>1 DEF PutInt
  <1> QED
    BY <1>1, <1>2

LEMMA ValueTypes ==
  ASSUME NEW bits, NEW bit, NEW v
  PROVE /\ ValueGood("text", bits, bit, v) => v \in TextValues
        /\ ValueGood("int32", bits, bit, v) => v \in Int
        /\ ValueGood("int64", bits, bit, v) => v \in Int
  BY Widths, IntsAreInts DEF ValueGood, TextGood, IntGood

LEMMA SerializeUserGood ==
  ASSUME NEW u \in GoodUsers
  PROVE SerializeUser(u) \in Seq(FlatEntries)
  <1>1. /\ PutText(u, 1, 1, u.val.id) \in Seq(FlatEntries)
        /\ PutText(u, 2, 2, u.val.name) \in Seq(FlatEntries)
        /\ PutText(u, 4, 3, u.val.email) \in Seq(FlatEntries)
        /\ PutInt(u, 8, 4, u.val.created_at) \in Seq(FlatEntries)
        /\ u.unknown \in Seq(FlatEntries)
    BY UserFields, PutPlain DEF GoodUsers
  <1> QED BY <1>1 DEF SerializeUser

LEMMA FlatIsWire == ASSUME NEW s \in Seq(FlatEntries) PROVE s \in Seq(WireEntries)
  BY DEF WireEntries

\* Only messages that are no users have users inside.
LEMMA TableNums ==
  ASSUME NEW k \in Kinds, NEW r \in Table(k)
  PROVE r.num \in Nat /\ r.num \in 1..15 /\ (r.type \in {"user", "users"} => k # "User")
  <1>1. CASE k = "User"
    BY <1>1, UserRows DEF RowIs
  <1>2. CASE k = "CreateUserRequest"
    BY <1>2, CreateUserRequestRows DEF RowIs
  <1>3. CASE k = "CreateUserReply"
    BY <1>3, CreateUserReplyRows DEF RowIs
  <1>4. CASE k = "GetUserRequest"
    BY <1>4, GetUserRequestRows DEF RowIs
  <1>5. CASE k = "GetUserReply"
    BY <1>5, GetUserReplyRows DEF RowIs
  <1>6. CASE k = "ListUsersRequest"
    BY <1>6, ListUsersRequestRows DEF RowIs
  <1>7. CASE k = "ListUsersReply"
    BY <1>7, ListUsersReplyRows DEF RowIs
  <1>8. CASE k = "GetStatsRequest"
    BY <1>8, GetStatsRequestRows
  <1>9. CASE k = "GetStatsReply"
    BY <1>9, GetStatsReplyRows DEF RowIs
  <1> QED BY <1>1, <1>2, <1>3, <1>4, <1>5, <1>6, <1>7, <1>8, <1>9 DEF Kinds

\* What a row of message m gives on the wire.
Wire(m, r) ==
  CASE r.type = "text" -> PutText(m, r.bit, r.num, m.val[r.field])
    [] r.type \in {"int32", "int64"} -> PutInt(m, r.bit, r.num, m.val[r.field])
    [] r.type = "user" ->
         (IF Has(m, r.bit) THEN <<Entry(r.num, "message", SerializeUser(m.val[r.field]))>> ELSE <<>>)
    [] r.type = "users" ->
         (IF Has(m, r.bit) THEN [j \in 1..Len(m.val[r.field]) |->
                                   Entry(r.num, "message", SerializeUser(m.val[r.field][j]))]
          ELSE <<>>)

LEMMA WireGood ==
  ASSUME NEW k \in Kinds, NEW m \in Messages(k), NEW r \in Table(k)
  PROVE Wire(m, r) \in Seq(EntriesOf(k))
  <1> DEFINE w == m.val[r.field]
  <1>1. ValueGood(r.type, m.bits, r.bit, w) /\ r.num \in Nat /\ r.type \in Types
    BY MessageParts, TableNums, TableKeys
  <1>2. ASSUME NEW s \in Seq(FlatEntries) PROVE s \in Seq(EntriesOf(k))
    BY FlatIsWire DEF EntriesOf
  <1>3. r.type \in {"user", "users"} => EntriesOf(k) = WireEntries
    BY TableNums DEF EntriesOf
  <1> HIDE DEF w
  <1>4. CASE r.type = "text"
    <2>1. Wire(m, r) = PutText(m, r.bit, r.num, w)
      BY <1>4 DEF Wire, w
    <2>2. w \in TextValues
      BY <1>1, <1>4, ValueTypes
    <2> QED BY <1>1, <1>2, <2>1, <2>2, PutPlain
  <1>5. CASE r.type \in {"int32", "int64"}
    <2>1. Wire(m, r) = PutInt(m, r.bit, r.num, w)
      BY <1>5 DEF Wire, w
    <2>2. w \in Int
      BY <1>1, <1>5, ValueTypes
    <2> QED BY <1>1, <1>2, <2>1, <2>2, PutPlain
  <1>6. CASE r.type = "user"
    <2>1. Wire(m, r) = IF Has(m, r.bit) THEN <<Entry(r.num, "message", SerializeUser(w))>> ELSE <<>>
      BY <1>6 DEF Wire, w
    <2>2. Has(m, r.bit) => w \in GoodUsers
      BY <1>1, <1>6 DEF ValueGood, Has
    <2>3. Has(m, r.bit) => Entry(r.num, "message", SerializeUser(w)) \in WireEntries
      BY <1>1, <2>2, SerializeUserGood, EntryParts
    <2> QED BY <1>3, <1>6, <2>1, <2>3
  <1>7. CASE r.type = "users"
    <2>1. Wire(m, r) = IF Has(m, r.bit)
                       THEN [j \in 1..Len(w) |-> Entry(r.num, "message", SerializeUser(w[j]))] ELSE <<>>
      BY <1>7 DEF Wire, w
    <2>2. w \in Seq(GoodUsers)
      BY <1>1, <1>7 DEF ValueGood
    <2>3. \A j \in 1..Len(w) : Entry(r.num, "message", SerializeUser(w[j])) \in WireEntries
      BY <1>1, <2>2, SerializeUserGood, EntryParts
    <2> QED BY <1>3, <1>7, <2>1, <2>2, <2>3
  <1> QED BY <1>1, <1>4, <1>5, <1>6, <1>7 DEF Types

-----------------------------------------------------------------------------
(* What one process sends, and another one reads                           *)

\* No two fields of a message have the same number.
LEMMA NumsDiffer ==
  ASSUME NEW k \in Kinds, NEW r \in Table(k), NEW q \in Table(k), r.num = q.num
  PROVE r = q
  <1>1. CASE k = "User"
    BY <1>1, UserRows DEF RowIs
  <1>2. CASE k = "CreateUserRequest"
    BY <1>2, CreateUserRequestRows DEF RowIs
  <1>3. CASE k = "CreateUserReply"
    BY <1>3, CreateUserReplyRows DEF RowIs
  <1>4. CASE k = "GetUserRequest"
    BY <1>4, GetUserRequestRows DEF RowIs
  <1>5. CASE k = "GetUserReply"
    BY <1>5, GetUserReplyRows DEF RowIs
  <1>6. CASE k = "ListUsersRequest"
    BY <1>6, ListUsersRequestRows DEF RowIs
  <1>7. CASE k = "ListUsersReply"
    BY <1>7, ListUsersReplyRows DEF RowIs
  <1>8. CASE k = "GetStatsRequest"
    BY <1>8, GetStatsRequestRows
  <1>9. CASE k = "GetStatsReply"
    BY <1>9, GetStatsReplyRows DEF RowIs
  <1> QED BY <1>1, <1>2, <1>3, <1>4, <1>5, <1>6, <1>7, <1>8, <1>9 DEF Kinds

\* An entry of a row is read into its field, and sets its bit.
LEMMA ReadKnown ==
  ASSUME NEW k \in Kinds, NEW m, NEW r \in Table(k), NEW e, Num(e) = r.num, Form(e) = FormOf(r.type)
  PROVE Read(k, m, e) = SetField(m, r.bit, r.field, ReadInto(r, m.val[r.field], e, ParseUser))
  <1> DEFINE rows == {q \in Table(k) : q.num = Num(e) /\ FormOf(q.type) = Form(e)}
  <1>1. rows = {r}
    BY NumsDiffer
  <1>2. (CHOOSE q \in rows : TRUE) = r /\ rows # {}
    BY <1>1
  <1> QED BY <1>2 DEF Read, ReadEntry

\* Any other entry is added to the unknown fields.
LEMMA ReadUnknown ==
  ASSUME NEW k, NEW bits, NEW val, NEW unknown, NEW e \in UnknownOf(k)
  PROVE Read(k, [bits |-> bits, val |-> val, unknown |-> unknown], e) =
          [bits |-> bits, val |-> val, unknown |-> Append(unknown, e)]
  <1> DEFINE rows == {r \in Table(k) : r.num = Num(e) /\ FormOf(r.type) = Form(e)}
  <1>1. rows = {}
    BY DEF UnknownOf
  <1> QED BY <1>1 DEF Read, ReadEntry

\* A sequence to which another one is appended element by element.
LEMMA AppendSubSeq ==
  ASSUME NEW S, NEW c \in Seq(S), NEW t \in Seq(S), NEW i \in 1..Len(t)
  PROVE Append(c \o SubSeq(t, 1, i - 1), t[i]) = c \o SubSeq(t, 1, i)
  <1> DEFINE u == SubSeq(t, 1, i - 1)
  <1>1. SubSeq(t, 1, i) = u \o <<t[i]>>
    <2>1. 1 \in 1..Len(t) /\ i \in 1..Len(t)
      OBVIOUS
    <2> QED BY <2>1, SubSeqRecursiveSecond
  <1>2. u \in Seq(S) /\ t[i] \in S
    <2>1. i - 1 \in Int /\ \A j \in 1..i - 1 : t[j] \in S
      OBVIOUS
    <2> QED BY <2>1, SubSeqProperties
  <1> HIDE DEF u
  <1>3. Append(c \o u, t[i]) = c \o (u \o <<t[i]>>)
    <2>1. <<t[i]>> \in Seq(S)
      BY <1>2
    <2>2. (c \o u) \o <<t[i]>> = c \o (u \o <<t[i]>>)
      BY <1>2, <2>1, ConcatAssociative
    <2>3. c \o u \in Seq(S)
      BY <1>2
    <2>4. Append(c \o u, t[i]) = (c \o u) \o <<t[i]>>
      BY <1>2, <2>3, AppendIsConcat
    <2> QED BY <2>2, <2>4
  <1> QED BY <1>1, <1>3 DEF u

\* The field that is set is the only one that changes.
FieldSet(k, n, m, r, v) ==
  /\ n.unknown = m.unknown
  /\ FieldOf(n, r) = Got(r.type, m.bits \cup {r.bit}, r.bit, v)
  /\ \A q \in Table(k) \ {r} : FieldOf(n, q) = FieldOf(m, q)

LEMMA SetFieldOf ==
  ASSUME NEW k \in Kinds, NEW m \in Messages(k), NEW r \in Table(k), NEW v
  PROVE FieldSet(k, SetField(m, r.bit, r.field, v), m, r, v)
  <1> DEFINE n == SetField(m, r.bit, r.field, v)
  <1>1. n.unknown = m.unknown /\ n.bits = m.bits \cup {r.bit} /\ n.val = [m.val EXCEPT ![r.field] = v]
    BY DEF SetField
  <1>2. r.field \in Fields(k) /\ m.val \in [Fields(k) -> AnyValue]
    BY TableKeys, MessageParts
  <1> HIDE DEF n
  <1>3. n.val[r.field] = v
    BY <1>1, <1>2
  <1>4. FieldOf(n, r) = Got(r.type, m.bits \cup {r.bit}, r.bit, v)
    BY <1>1, <1>3 DEF FieldOf
  <1>5. ASSUME NEW q \in Table(k) \ {r} PROVE FieldOf(n, q) = FieldOf(m, q)
    <2>1. q.bit # r.bit /\ q.field # r.field /\ q.field \in Fields(k)
      BY TableKeys
    <2>2. n.val[q.field] = m.val[q.field] /\ (q.bit \in n.bits <=> q.bit \in m.bits)
      BY <1>1, <1>2, <2>1
    <2> QED BY <2>2 DEF FieldOf, Got
  <1> QED BY <1>1, <1>4, <1>5 DEF FieldSet, n

\* n is message p after it has read what row r of m gives.
RowRead(k, n, p, m, r) ==
  /\ n \in Messages(k) /\ n.unknown = p.unknown
  /\ FieldOf(n, r) = Joined(r.type, FieldOf(p, r), FieldOf(m, r))
  /\ \A q \in Table(k) \ {r} : FieldOf(n, q) = FieldOf(p, q)

\* When one entry is read.
LEMMA OneEntryRead ==
  ASSUME NEW k \in Kinds, NEW p \in Messages(k), NEW m \in Messages(k), NEW r \in Table(k),
         NEW e, Wire(m, r) = <<e>>, Num(e) = r.num, Form(e) = FormOf(r.type)
  PROVE Parse(k, p, Wire(m, r)) = SetField(p, r.bit, r.field, ReadInto(r, p.val[r.field], e, ParseUser))
  <1>1. <<e>> \in Seq(EntriesOf(k))
    BY WireGood
  <1>2. e \in EntriesOf(k)
    BY <1>1
  <1> QED BY <1>2, ParseFew, ReadKnown

LEMMA RowSet ==
  ASSUME NEW k \in Kinds, NEW p \in Messages(k), NEW m \in Messages(k), NEW r \in Table(k), NEW v,
         Parse(k, p, Wire(m, r)) = SetField(p, r.bit, r.field, v),
         Got(r.type, p.bits \cup {r.bit}, r.bit, v) = Joined(r.type, FieldOf(p, r), FieldOf(m, r))
  PROVE RowRead(k, Parse(k, p, Wire(m, r)), p, m, r)
  <1>1. Parse(k, p, Wire(m, r)) \in Messages(k)
    BY WireGood, ParseGood
  <1>2. FieldSet(k, Parse(k, p, Wire(m, r)), p, r, v)
    BY SetFieldOf
  <1> QED BY <1>1, <1>2 DEF RowRead, FieldSet

LEMMA NoEntryRead ==
  ASSUME NEW k \in Kinds, NEW p \in Messages(k), NEW m \in Messages(k), NEW r \in Table(k),
         Wire(m, r) = <<>>, FieldOf(p, r) = Joined(r.type, FieldOf(p, r), FieldOf(m, r))
  PROVE RowRead(k, Parse(k, p, Wire(m, r)), p, m, r)
  BY ParseFew DEF RowRead

\* A string or an int.
LEMMA PlainRead ==
  ASSUME NEW k \in Kinds, NEW p \in Messages(k), NEW m \in Messages(k), NEW r \in Table(k),
         r.type \in {"text", "int32", "int64"}
  PROVE RowRead(k, Parse(k, p, Wire(m, r)), p, m, r)
  <1> DEFINE w == m.val[r.field]
  <1>1. /\ ValueGood(r.type, m.bits, r.bit, w)
        /\ FieldOf(m, r) = Got(r.type, m.bits, r.bit, w)
    BY MessageParts DEF FieldOf
  <1>2. CASE r.type = "text"
    <2>1. Wire(m, r) = PutText(m, r.bit, r.num, w) /\ FieldOf(m, r) = w.text
      BY <1>1, <1>2 DEF Wire, Got
    <2>2. TextGood(m.bits, r.bit, w)
      BY <1>1, <1>2 DEF ValueGood
    <2> HIDE DEF w
    <2>3. CASE w.text = Empty
      <3>1. Wire(m, r) = <<>>
        BY <2>1, <2>3 DEF PutText
      <3>2. FieldOf(p, r) = Joined(r.type, FieldOf(p, r), FieldOf(m, r))
        BY <1>2, <2>1, <2>3 DEF Joined
      <3> QED BY <3>1, <3>2, NoEntryRead
    <2>4. CASE w.text # Empty
      <3> DEFINE e == Entry(r.num, "text", w.text)
      <3>1. Wire(m, r) = <<e>>
        BY <2>1, <2>2, <2>4 DEF PutText, TextGood, Has
      <3>2. Num(e) = r.num /\ Form(e) = FormOf(r.type) /\ Val(e) = w.text
        BY <1>2 DEF Entry, Num, Form, Val, FormOf
      <3>3. ReadInto(r, p.val[r.field], e, ParseUser) = Text(w.text)
        BY <1>2, <3>2 DEF ReadInto
      <3>4. Got(r.type, p.bits \cup {r.bit}, r.bit, Text(w.text)) =
              Joined(r.type, FieldOf(p, r), FieldOf(m, r))
        BY <1>2, <2>1, <2>4 DEF Got, Joined, Text
      <3> HIDE DEF e
      <3>5. Parse(k, p, Wire(m, r)) =
              SetField(p, r.bit, r.field, ReadInto(r, p.val[r.field], e, ParseUser))
        BY <3>1, <3>2, OneEntryRead
      <3>6. Parse(k, p, Wire(m, r)) = SetField(p, r.bit, r.field, Text(w.text))
        BY <3>3, <3>5
      <3> QED BY <3>4, <3>6, RowSet
    <2> QED BY <2>3, <2>4
  <1>3. CASE r.type \in {"int32", "int64"}
    <2>1. Wire(m, r) = PutInt(m, r.bit, r.num, w) /\ FieldOf(m, r) = w
      BY <1>1, <1>3 DEF Wire, Got
    <2>2. IntGood(Width(r.type), m.bits, r.bit, w)
      BY <1>1, <1>3 DEF ValueGood
    <2> HIDE DEF w
    <2>3. CASE w = 0
      <3>1. Wire(m, r) = <<>>
        BY <2>1, <2>3 DEF PutInt
      <3>2. FieldOf(p, r) = Joined(r.type, FieldOf(p, r), FieldOf(m, r))
        BY <1>3, <2>1, <2>3 DEF Joined
      <3> QED BY <3>1, <3>2, NoEntryRead
    <2>4. CASE w # 0
      <3> DEFINE e == Entry(r.num, "varint", ToWire(w))
      <3>1. Wire(m, r) = <<e>>
        BY <2>1, <2>2, <2>4 DEF PutInt, IntGood, Has
      <3>2. Num(e) = r.num /\ Form(e) = FormOf(r.type) /\ Val(e) = ToWire(w)
        BY <1>3 DEF Entry, Num, Form, Val, FormOf
      <3>3. ReadInto(r, p.val[r.field], e, ParseUser) = w
        <4>1. ReadInto(r, p.val[r.field], e, ParseUser) = FromWire(ToWire(w), Width(r.type))
          BY <1>3, <3>2 DEF ReadInto, Width
        <4>2. w \in IntsOf(Width(r.type))
          BY <2>2 DEF IntGood
        <4> QED BY <4>1, <4>2, Widths, WireKeepsInts
      <3>4. Got(r.type, p.bits \cup {r.bit}, r.bit, w) =
              Joined(r.type, FieldOf(p, r), FieldOf(m, r))
        BY <1>3, <2>1, <2>4 DEF Got, Joined
      <3> HIDE DEF e
      <3>5. Parse(k, p, Wire(m, r)) =
              SetField(p, r.bit, r.field, ReadInto(r, p.val[r.field], e, ParseUser))
        BY <3>1, <3>2, OneEntryRead
      <3>6. Parse(k, p, Wire(m, r)) = SetField(p, r.bit, r.field, w)
        BY <3>3, <3>5
      <3> QED BY <3>4, <3>6, RowSet
    <2> QED BY <2>3, <2>4
  <1> QED BY <1>2, <1>3

\* p is message n after it has read what the rows in done of m give.
Partly(k, p, n, m, done) ==
  /\ p \in Messages(k) /\ p.unknown = n.unknown
  /\ \A q \in Table(k) : FieldOf(p, q) = IF q \in done THEN Joined(q.type, FieldOf(n, q), FieldOf(m, q))
                                         ELSE FieldOf(n, q)

LEMMA OneMore ==
  ASSUME NEW k, NEW p, NEW n, NEW m, NEW done, Partly(k, p, n, m, done),
         NEW r \in Table(k) \ done, NEW p2, RowRead(k, p2, p, m, r)
  PROVE Partly(k, p2, n, m, done \cup {r})
  BY DEF Partly, RowRead

\* The unknown fields are taken over at last.
LEMMA UnknownRead ==
  ASSUME NEW k \in Kinds, NEW n \in Messages(k), NEW m \in Messages(k),
         NEW p, Partly(k, p, n, m, Table(k))
  PROVE Joins(k, Parse(k, p, m.unknown), n, m)
  <1> DEFINE t == m.unknown
             g == [i \in 0..Len(t) |->
                     [bits |-> p.bits, val |-> p.val, unknown |-> p.unknown \o SubSeq(t, 1, i)]]
  <1>1. /\ p \in Messages(k) /\ t \in Seq(UnknownOf(k)) /\ t \in Seq(EntriesOf(k))
        /\ p.unknown \in Seq(UnknownOf(k))
        /\ p = [bits |-> p.bits, val |-> p.val, unknown |-> p.unknown]
    BY MessageParts, UnknownAreEntries DEF Partly
  <1>2. g[0] = p
    <2>1. p.unknown \o SubSeq(t, 1, 0) = p.unknown
      BY <1>1
    <2> QED BY <1>1, <2>1
  <1>3. ASSUME NEW i \in 1..Len(t) PROVE g[i] = Read(k, g[i - 1], t[i])
    <2>1. i \in 0..Len(t) /\ i - 1 \in 0..Len(t) /\ t[i] \in UnknownOf(k)
      BY <1>1
    <2> DEFINE c == p.unknown \o SubSeq(t, 1, i - 1)
               d == p.unknown \o SubSeq(t, 1, i)
    <2>2. Append(c, t[i]) = d
      BY <1>1, AppendSubSeq
    <2> HIDE DEF c, d
    <2>3. g[i] = [bits |-> p.bits, val |-> p.val, unknown |-> d]
      BY <2>1 DEF d
    <2>4. g[i - 1] = [bits |-> p.bits, val |-> p.val, unknown |-> c]
      BY <2>1 DEF c
    <2> HIDE DEF g
    <2>7. Read(k, g[i - 1], t[i]) = [bits |-> p.bits, val |-> p.val, unknown |-> Append(c, t[i])]
      BY <2>1, <2>4, ReadUnknown
    <2> QED BY <2>2, <2>3, <2>7
  <1>4. Len(t) \in Nat /\ Len(t) \in 0..Len(t)
    BY <1>1
  <1>5. g[Len(t)] = [bits |-> p.bits, val |-> p.val, unknown |-> p.unknown \o t]
    <2>1. SubSeq(t, 1, Len(t)) = t
      BY <1>1
    <2> QED BY <1>4, <2>1
  <1> HIDE DEF g
  <1>6. Run(k, p, t, g)
    BY <1>2, <1>3 DEF Run
  <1>7. Parse(k, p, t) = [bits |-> p.bits, val |-> p.val, unknown |-> p.unknown \o t]
    BY <1>1, <1>5, <1>6, RunEnds
  <1>8. \A q \in Table(k) : FieldOf(Parse(k, p, t), q) = FieldOf(p, q)
    BY <1>7 DEF FieldOf
  <1>9. Parse(k, p, t).unknown = n.unknown \o t
    <2>1. p.unknown = n.unknown
      BY DEF Partly
    <2>2. Parse(k, p, t).unknown = p.unknown \o t
      <3> DEFINE u == p.unknown \o t
      <3> HIDE DEF u
      <3>1. Parse(k, p, t) = [bits |-> p.bits, val |-> p.val, unknown |-> u]
        BY <1>7 DEF u
      <3>2. Parse(k, p, t).unknown = u
        BY <3>1
      <3> QED BY <3>2 DEF u
    <2> QED BY <2>1, <2>2
  <1> QED BY <1>8, <1>9 DEF Joins, Partly

\* Entries s of the wire give what the rows in done of m give.
PartRead(k, s, n, m, done) ==
  s \in Seq(EntriesOf(k)) /\ Partly(k, Parse(k, n, s), n, m, done)

\* What row r of m gives is read right, into any message.
RowReads(k, m, r) == \A p \in Messages(k) : RowRead(k, Parse(k, p, Wire(m, r)), p, m, r)

LEMMA FirstRow ==
  ASSUME NEW k \in Kinds, NEW n \in Messages(k), NEW m \in Messages(k),
         NEW r \in Table(k), RowReads(k, m, r)
  PROVE PartRead(k, Wire(m, r), n, m, {r})
  <1> DEFINE n1 == Parse(k, n, Wire(m, r))
  <1>1. Partly(k, n, n, m, {})
    BY DEF Partly
  <1>2. RowRead(k, n1, n, m, r)
    BY DEF RowReads
  <1>3. Wire(m, r) \in Seq(EntriesOf(k))
    BY WireGood
  <1> HIDE DEF n1
  <1>4. Partly(k, n1, n, m, {} \cup {r})
    BY <1>1, <1>2, OneMore
  <1>5. {} \cup {r} = {r}
    OBVIOUS
  <1> QED BY <1>3, <1>4, <1>5 DEF PartRead, n1

LEMMA NextRow ==
  ASSUME NEW k \in Kinds, NEW n \in Messages(k), NEW m \in Messages(k),
         NEW s, NEW done, PartRead(k, s, n, m, done),
         NEW r \in Table(k) \ done, RowReads(k, m, r)
  PROVE PartRead(k, s \o Wire(m, r), n, m, done \cup {r})
  <1> DEFINE n1 == Parse(k, n, s)
             w == Wire(m, r)
             n2 == Parse(k, n1, w)
  <1>1. s \in Seq(EntriesOf(k)) /\ Partly(k, n1, n, m, done)
    BY DEF PartRead
  <1>2. n1 \in Messages(k)
    BY <1>1 DEF Partly
  <1>3. RowRead(k, n2, n1, m, r)
    BY <1>2 DEF RowReads
  <1>4. w \in Seq(EntriesOf(k))
    BY WireGood
  <1> HIDE DEF w
  <1>5. Parse(k, n, s \o w) = n2
    BY <1>1, <1>4, ParseConcat
  <1> HIDE DEF n1, n2
  <1>6. Partly(k, n2, n, m, done \cup {r})
    BY <1>1, <1>3, OneMore
  <1>7. s \o w \in Seq(EntriesOf(k))
    BY <1>1, <1>4
  <1>8. PartRead(k, s \o w, n, m, done \cup {r})
    BY <1>5, <1>6, <1>7 DEF PartRead
  <1> QED BY <1>8 DEF w

\* Entries s of the wire are message m: whoever reads them has both afterwards.
Carries(k, s, n, m) == s \in Seq(EntriesOf(k)) /\ Joins(k, Parse(k, n, s), n, m)

LEMMA LastRow ==
  ASSUME NEW k \in Kinds, NEW n \in Messages(k), NEW m \in Messages(k),
         NEW s, PartRead(k, s, n, m, Table(k))
  PROVE Carries(k, s \o m.unknown, n, m)
  <1> DEFINE p == Parse(k, n, s)
  <1>1. s \in Seq(EntriesOf(k)) /\ Partly(k, p, n, m, Table(k))
    BY DEF PartRead
  <1>2. m.unknown \in Seq(EntriesOf(k))
    BY MessageParts, UnknownAreEntries
  <1>3. Parse(k, n, s \o m.unknown) = Parse(k, p, m.unknown)
    BY <1>1, <1>2, ParseConcat
  <1>4. s \o m.unknown \in Seq(EntriesOf(k))
    BY <1>1, <1>2
  <1> HIDE DEF p
  <1> QED BY <1>1, <1>3, <1>4, UnknownRead DEF Carries

\* Users.
LEMMA UserCarries ==
  ASSUME NEW n \in Messages("User"), NEW m \in Messages("User")
  PROVE Carries("User", SerializeUser(m), n, m)
  <1> DEFINE k == "User"
             r1 == RowIs(1, "text", 1, "id")
             r2 == RowIs(2, "text", 2, "name")
             r3 == RowIs(3, "text", 4, "email")
             r4 == RowIs(4, "int64", 8, "created_at")
  <1>0. k \in Kinds
    BY DEF Kinds
  <1>1. Table(k) = {r1, r2, r3, r4}
    BY UserRows
  <1>2. /\ Wire(m, r1) = PutText(m, 1, 1, m.val.id) /\ Wire(m, r2) = PutText(m, 2, 2, m.val.name)
        /\ Wire(m, r3) = PutText(m, 4, 3, m.val.email) /\ Wire(m, r4) = PutInt(m, 8, 4, m.val.created_at)
    BY DEF Wire, RowIs
  <1>3. SerializeUser(m) = Wire(m, r1) \o Wire(m, r2) \o Wire(m, r3) \o Wire(m, r4) \o m.unknown
    BY <1>2 DEF SerializeUser
  <1>4. RowReads(k, m, r1) /\ RowReads(k, m, r2) /\ RowReads(k, m, r3) /\ RowReads(k, m, r4)
    BY <1>0, <1>1, PlainRead DEF RowReads, RowIs
  <1>5. r1 # r2 /\ r1 # r3 /\ r1 # r4 /\ r2 # r3 /\ r2 # r4 /\ r3 # r4
    BY DEF RowIs
  <1> HIDE DEF k, r1, r2, r3, r4
  <1> DEFINE s1 == Wire(m, r1)
             s2 == s1 \o Wire(m, r2)
             s3 == s2 \o Wire(m, r3)
             s4 == s3 \o Wire(m, r4)
  <1>6. PartRead(k, s1, n, m, {r1})
    BY <1>0, <1>1, <1>4, FirstRow DEF k
  <1>7. PartRead(k, s2, n, m, {r1} \cup {r2})
    <2> HIDE DEF s1
    <2> QED BY <1>0, <1>1, <1>4, <1>5, <1>6, NextRow DEF k
  <1>8. PartRead(k, s3, n, m, {r1} \cup {r2} \cup {r3})
    <2> HIDE DEF s2
    <2> QED BY <1>0, <1>1, <1>4, <1>5, <1>7, NextRow DEF k
  <1>9. PartRead(k, s4, n, m, {r1} \cup {r2} \cup {r3} \cup {r4})
    <2> HIDE DEF s3
    <2> QED BY <1>0, <1>1, <1>4, <1>5, <1>8, NextRow DEF k
  <1>10. {r1} \cup {r2} \cup {r3} \cup {r4} = Table(k)
    BY <1>1
  <1>11. Carries(k, s4 \o m.unknown, n, m)
    <2> HIDE DEF s4
    <2> QED BY <1>0, <1>9, <1>10, LastRow DEF k
  <1> QED BY <1>3, <1>11 DEF k

\* A user inside of a message is read like a message.
LEMMA UserEntryIsRead ==
  ASSUME NEW u \in GoodUsers, NEW e \in FlatEntries
  PROVE ReadUserEntry(u, e) = Read("User", u, e)
  <1> DEFINE rows == {r \in UserTable : r.num = Num(e) /\ FormOf(r.type) = Form(e)}
             r == CHOOSE r \in rows : TRUE
  <1>0. UserTable = Table("User")
    BY DEF Table
  <1>1. CASE rows = {}
    BY <1>0, <1>1 DEF ReadUserEntry, Read, ReadEntry
  <1>2. CASE rows # {}
    <2>1. r \in Table("User")
      BY <1>0, <1>2
    <2>2. r.type \in {"text", "int64"}
      BY <2>1, UserRows DEF RowIs
    <2> DEFINE v == CASE r.type = "text" -> Text(Val(e))
                      [] r.type = "int64" -> FromWire(Val(e), Bits64)
    <2>3. ReadUserEntry(u, e) = SetField(u, r.bit, r.field, v)
      BY <1>2, <2>2 DEF ReadUserEntry, ReadEntry, ReadInto
    <2>4. Read("User", u, e) = SetField(u, r.bit, r.field, v)
      BY <1>0, <1>2, <2>2 DEF Read, ReadEntry, ReadInto
    <2> QED BY <2>3, <2>4
  <1> QED BY <1>1, <1>2

LEMMA ParseUserIsParse ==
  ASSUME NEW u \in GoodUsers, NEW s \in Seq(FlatEntries)
  PROVE ParseUser(u, s) = Parse("User", u, s)
  <1>1. PICK g : RunOfUser(u, s, g) /\ ParseUser(u, s) = g[Len(s)]
    BY ParseUserRuns
  <1> DEFINE n == Len(s)
  <1>0. n \in Nat
    OBVIOUS
  <1>4. \A i \in 0..n : g[i] \in GoodUsers
    BY <1>1, RunOfUserGood
  <1>5. Run("User", u, s, g)
    <2>1. ASSUME NEW i \in 1..n PROVE g[i] = Read("User", g[i - 1], s[i])
      <3>1. i - 1 \in 0..n /\ s[i] \in FlatEntries
        BY <1>0
      <3>2. g[i] = ReadUserEntry(g[i - 1], s[i])
        BY <1>1 DEF RunOfUser
      <3> QED BY <1>4, <3>1, <3>2, UserEntryIsRead
    <2> QED BY <1>1, <2>1 DEF Run, RunOfUser
  <1>6. "User" \in Kinds /\ EntriesOf("User") = FlatEntries
    BY DEF Kinds, EntriesOf
  <1> QED BY <1>1, <1>5, <1>6, RunEnds, UserIsMessage

\* It joins what is there.
LEMMA ReadUser ==
  ASSUME NEW u \in GoodUsers, NEW w \in GoodUsers
  PROVE /\ ParseUser(u, SerializeUser(w)) \in GoodUsers
        /\ UserContents(ParseUser(u, SerializeUser(w))) = UsersJoined(UserContents(u), UserContents(w))
  <1> DEFINE c == ParseUser(u, SerializeUser(w))
  <1>1. SerializeUser(w) \in Seq(FlatEntries)
    BY SerializeUserGood
  <1>2. c \in GoodUsers
    BY <1>1, ParseUserGood
  <1>3. c = Parse("User", u, SerializeUser(w))
    BY <1>1, ParseUserIsParse
  <1>4. Joins("User", c, u, w)
    BY <1>3, UserIsMessage, UserCarries DEF Carries
  <1> HIDE DEF c
  <1>5. c.unknown = u.unknown \o w.unknown
    BY <1>4 DEF Joins
  <1>6. /\ RowIs(1, "text", 1, "id") \in Table("User") /\ RowIs(2, "text", 2, "name") \in Table("User")
        /\ RowIs(3, "text", 4, "email") \in Table("User")
        /\ RowIs(4, "int64", 8, "created_at") \in Table("User")
    BY UserRows
  <1>7. /\ c.val.id.text = Joined("text", u.val.id.text, w.val.id.text)
        /\ c.val.name.text = Joined("text", u.val.name.text, w.val.name.text)
        /\ c.val.email.text = Joined("text", u.val.email.text, w.val.email.text)
        /\ c.val.created_at = Joined("int64", u.val.created_at, w.val.created_at)
    <2>1. \A r \in Table("User") : FieldOf(c, r) = Joined(r.type, FieldOf(u, r), FieldOf(w, r))
      BY <1>4 DEF Joins
    <2> QED BY <1>6, <2>1 DEF FieldOf, Got, RowIs
  <1>8. /\ c.val.id.text = IF w.val.id.text # Empty THEN w.val.id.text ELSE u.val.id.text
        /\ c.val.name.text = IF w.val.name.text # Empty THEN w.val.name.text ELSE u.val.name.text
        /\ c.val.email.text = IF w.val.email.text # Empty THEN w.val.email.text ELSE u.val.email.text
        /\ c.val.created_at = IF w.val.created_at # 0 THEN w.val.created_at ELSE u.val.created_at
    BY <1>7 DEF Joined
  <1>9. UserContents(c) = UsersJoined(UserContents(u), UserContents(w))
    BY <1>5, <1>8 DEF UserContents, UsersJoined
  <1> QED BY <1>2, <1>9 DEF c

\* A user of its own.
LEMMA UserRead ==
  ASSUME NEW k \in Kinds, NEW p \in Messages(k), NEW m \in Messages(k), NEW r \in Table(k),
         r.type = "user"
  PROVE RowRead(k, Parse(k, p, Wire(m, r)), p, m, r)
  <1> DEFINE w == m.val[r.field]
             v == p.val[r.field]
             t == IF v = NULL THEN NewUser ELSE v
  <1>1. /\ ValueGood(r.type, m.bits, r.bit, w) /\ ValueGood(r.type, p.bits, r.bit, v)
        /\ FieldOf(m, r) = Got("user", m.bits, r.bit, w)
        /\ FieldOf(p, r) = Got("user", p.bits, r.bit, v)
    BY MessageParts DEF FieldOf
  <1>2. Wire(m, r) = IF Has(m, r.bit) THEN <<Entry(r.num, "message", SerializeUser(w))>> ELSE <<>>
    BY DEF Wire
  <1> HIDE DEF w, v
  <1>3. CASE ~Has(m, r.bit)
    <2>1. Wire(m, r) = <<>> /\ FieldOf(m, r) = <<>>
      BY <1>1, <1>2, <1>3 DEF Has, Got
    <2>2. FieldOf(p, r) = Joined(r.type, FieldOf(p, r), FieldOf(m, r))
      BY <2>1 DEF Joined
    <2> QED BY <2>1, <2>2, NoEntryRead
  <1>4. CASE Has(m, r.bit)
    <2> DEFINE e == Entry(r.num, "message", SerializeUser(w))
               c == ParseUser(t, SerializeUser(w))
    <2>1. Wire(m, r) = <<e>>
      BY <1>2, <1>4
    <2>2. Num(e) = r.num /\ Form(e) = FormOf(r.type) /\ Val(e) = SerializeUser(w)
      BY DEF Entry, Num, Form, Val, FormOf
    <2>3. w \in GoodUsers /\ FieldOf(m, r) = <<UserContents(w)>>
      BY <1>1, <1>4 DEF ValueGood, Has, Got
    <2>4. t \in GoodUsers /\ (r.bit \notin p.bits => UserContents(t) = UserContents(NewUser))
      BY <1>1, NewUserGood DEF ValueGood
    <2>5. r.bit \in p.bits => t = v
      BY <1>1, NullIsNoUser DEF ValueGood
    <2>6. UserContents(c) = UsersJoined(UserContents(t), UserContents(w))
      <3> HIDE DEF t
      <3> QED BY <2>3, <2>4, ReadUser
    <2>7. ReadInto(r, v, e, ParseUser) = c
      BY <2>2 DEF ReadInto
    <2>8. Parse(k, p, Wire(m, r)) = SetField(p, r.bit, r.field, ReadInto(r, v, e, ParseUser))
      <3> HIDE DEF e
      <3> QED BY <2>1, <2>2, OneEntryRead DEF v
    <2>9. Parse(k, p, Wire(m, r)) = SetField(p, r.bit, r.field, c)
      BY <2>7, <2>8
    <2> HIDE DEF e, c, t
    <2>10. Got(r.type, p.bits \cup {r.bit}, r.bit, c) = <<UserContents(c)>>
      BY DEF Got
    <2>11. Joined(r.type, FieldOf(p, r), FieldOf(m, r)) = <<UserContents(c)>>
      <3>1. CASE r.bit \in p.bits
        <4>1. FieldOf(p, r) = <<UserContents(t)>>
          BY <1>1, <2>5, <3>1 DEF Got
        <4> QED BY <2>3, <2>6, <4>1 DEF Joined
      <3>2. CASE r.bit \notin p.bits
        <4>1. FieldOf(p, r) = <<>>
          BY <1>1, <3>2 DEF Got
        <4>2. UserContents(c) = UserContents(w)
          BY <2>3, <2>4, <2>6, <3>2, JoinedWithNew
        <4> QED BY <2>3, <4>1, <4>2 DEF Joined
      <3> QED BY <3>1, <3>2
    <2> QED BY <2>9, <2>10, <2>11, RowSet
  <1> QED BY <1>3, <1>4

\* A field that was set, and is set again.
LEMMA FieldWasSet ==
  ASSUME NEW k \in Kinds, NEW m \in Messages(k), NEW r \in Table(k), NEW v
  PROVE SetField(m, r.bit, r.field, v).val[r.field] = v
  <1>1. r.field \in Fields(k) /\ m.val \in [Fields(k) -> AnyValue]
    BY TableKeys, MessageParts
  <1>2. SetField(m, r.bit, r.field, v).val = [m.val EXCEPT ![r.field] = v]
    BY DEF SetField
  <1> QED BY <1>1, <1>2

LEMMA SetAgain ==
  ASSUME NEW k \in Kinds, NEW m \in Messages(k), NEW r \in Table(k), NEW v, NEW w
  PROVE SetField(SetField(m, r.bit, r.field, v), r.bit, r.field, w) = SetField(m, r.bit, r.field, w)
  <1>1. r.field \in Fields(k) /\ m.val \in [Fields(k) -> AnyValue]
    BY TableKeys, MessageParts
  <1>2. [[m.val EXCEPT ![r.field] = v] EXCEPT ![r.field] = w] = [m.val EXCEPT ![r.field] = w]
    BY <1>1
  <1>3. (m.bits \cup {r.bit}) \cup {r.bit} = m.bits \cup {r.bit}
    OBVIOUS
  <1> QED BY <1>2, <1>3 DEF SetField

\* A list of users: g[i] is the message after the first i of them.
LEMMA UsersRead ==
  ASSUME NEW k \in Kinds, NEW p \in Messages(k), NEW m \in Messages(k), NEW r \in Table(k),
         r.type = "users"
  PROVE RowRead(k, Parse(k, p, Wire(m, r)), p, m, r)
  <1> DEFINE w == m.val[r.field]
             v == p.val[r.field]
             d == Len(w)
             us == [j \in 1..d |-> ParseUser(NewUser, SerializeUser(w[j]))]
             e == [j \in 1..d |-> Entry(r.num, "message", SerializeUser(w[j]))]
  <1>1. /\ ValueGood(r.type, m.bits, r.bit, w) /\ ValueGood(r.type, p.bits, r.bit, v)
        /\ FieldOf(m, r) = ContentsOfUsers(w) /\ FieldOf(p, r) = ContentsOfUsers(v)
    BY MessageParts DEF FieldOf, Got, ContentsOfUsers
  <1>2. Wire(m, r) = IF Has(m, r.bit) THEN e ELSE <<>>
    BY DEF Wire
  <1>3. /\ v \in Seq(GoodUsers) /\ w \in Seq(GoodUsers)
        /\ (w # <<>> => r.bit \in m.bits)
    BY <1>1 DEF ValueGood
  <1> HIDE DEF w, v
  <1>4. CASE d = 0
    <2>1. w = <<>> /\ Wire(m, r) = <<>>
      BY <1>2, <1>3, <1>4
    <2>2. FieldOf(p, r) = Joined(r.type, FieldOf(p, r), FieldOf(m, r))
      <3>1. FieldOf(m, r) = <<>>
        BY <1>1, <2>1 DEF ContentsOfUsers
      <3>2. FieldOf(p, r) \o <<>> = FieldOf(p, r)
        BY <1>1, <1>3 DEF ContentsOfUsers
      <3> QED BY <3>1, <3>2 DEF Joined
    <2> QED BY <2>1, <2>2, NoEntryRead
  <1>5. CASE d # 0
    <2>0. d \in Nat /\ 1 <= d /\ w # <<>>
      BY <1>3, <1>5
    <2>1. Wire(m, r) = e
      BY <1>2, <1>3, <2>0 DEF Has
    <2>2. \A j \in 1..d : us[j] \in GoodUsers /\ UserContents(us[j]) = UserContents(w[j])
      <3> SUFFICES ASSUME NEW j \in 1..d
                   PROVE us[j] \in GoodUsers /\ UserContents(us[j]) = UserContents(w[j])
        OBVIOUS
      <3>1. w[j] \in GoodUsers
        BY <1>3
      <3> QED BY <3>1, NewUserGood, ReadUser, JoinedWithNew
    <2>3. us \in Seq(GoodUsers) /\ Len(us) = d
      BY <2>0, <2>2
    <2>4. ContentsOfUsers(us) = ContentsOfUsers(w)
      BY <2>2, <2>3 DEF ContentsOfUsers
    <2> DEFINE g == [i \in 0..d |-> IF i = 0 THEN p
                                    ELSE SetField(p, r.bit, r.field, v \o SubSeq(us, 1, i))]
    <2>5. e \in Seq(EntriesOf(k)) /\ Len(e) = d
      BY <2>0, <2>1, WireGood
    <2>6. ASSUME NEW i \in 1..d PROVE g[i] = Read(k, g[i - 1], e[i])
      <3>1. Num(e[i]) = r.num /\ Form(e[i]) = FormOf(r.type) /\ Val(e[i]) = SerializeUser(w[i])
        BY DEF Entry, Num, Form, Val, FormOf
      <3>2. i \in 0..d /\ i - 1 \in 0..d
        BY <2>0
      <3> DEFINE c == v \o SubSeq(us, 1, i - 1)
      <3>3. g[i - 1].val[r.field] = c
        <4>1. CASE i = 1
          <5>1. v \o SubSeq(us, 1, 0) = v
            BY <1>3, <2>3
          <5> QED BY <4>1, <5>1, <3>2 DEF v
        <4>2. CASE i # 1
          <5>1. g[i - 1] = SetField(p, r.bit, r.field, c)
            BY <3>2, <4>2
          <5> HIDE DEF c, g
          <5> QED BY <5>1, FieldWasSet
        <4> QED BY <4>1, <4>2
      <3>4. ReadInto(r, c, e[i], ParseUser) = Append(c, us[i])
        <4>1. us[i] = ParseUser(NewUser, Val(e[i]))
          BY <3>1
        <4> HIDE DEF c, us, e
        <4> QED BY <4>1 DEF ReadInto
      <3>5. Append(c, us[i]) = v \o SubSeq(us, 1, i)
        <4> HIDE DEF us
        <4> QED BY <1>3, <2>3, AppendSubSeq
      <3>6. Read(k, g[i - 1], e[i]) =
              SetField(g[i - 1], r.bit, r.field, ReadInto(r, g[i - 1].val[r.field], e[i], ParseUser))
        <4> HIDE DEF g, e
        <4> QED BY <3>1, ReadKnown
      <3>7. SetField(g[i - 1], r.bit, r.field, v \o SubSeq(us, 1, i)) =
              SetField(p, r.bit, r.field, v \o SubSeq(us, 1, i))
        <4>1. CASE i = 1
          BY <4>1, <3>2
        <4>2. CASE i # 1
          <5>1. g[i - 1] = SetField(p, r.bit, r.field, c)
            BY <3>2, <4>2
          <5> HIDE DEF c, g, us
          <5> QED BY <5>1, SetAgain
        <4> QED BY <4>1, <4>2
      <3>8. g[i] = SetField(p, r.bit, r.field, v \o SubSeq(us, 1, i))
        BY <3>2
      <3> HIDE DEF g, us, e, c
      <3> QED BY <3>3, <3>4, <3>5, <3>6, <3>7, <3>8
    <2>7. Run(k, p, e, g)
      <3>1. g[0] = p
        BY <2>0
      <3> HIDE DEF g, e
      <3> QED BY <2>5, <2>6, <3>1 DEF Run
    <2>8. g[d] = SetField(p, r.bit, r.field, v \o us)
      <3>1. SubSeq(us, 1, d) = us /\ d \in 0..d
        BY <2>0, <2>3
      <3>2. g[d] = IF d = 0 THEN p ELSE SetField(p, r.bit, r.field, v \o SubSeq(us, 1, d))
        <4> HIDE DEF d, us
        <4> QED BY <3>1
      <3> HIDE DEF g, us, d
      <3> QED BY <1>5, <3>1, <3>2
    <2> HIDE DEF g, us, e
    <2>9. Parse(k, p, Wire(m, r)) = SetField(p, r.bit, r.field, v \o us)
      BY <2>1, <2>5, <2>7, <2>8, RunEnds
    <2>10. Got(r.type, p.bits \cup {r.bit}, r.bit, v \o us) = ContentsOfUsers(v \o us)
      BY DEF Got, ContentsOfUsers
    <2>11. ContentsOfUsers(v \o us) = ContentsOfUsers(v) \o ContentsOfUsers(w)
      BY <1>3, <2>3, <2>4, ContentsOfUsersJoin
    <2>12. Joined(r.type, FieldOf(p, r), FieldOf(m, r)) = ContentsOfUsers(v) \o ContentsOfUsers(w)
      BY <1>1 DEF Joined
    <2> QED BY <2>9, <2>10, <2>11, <2>12, RowSet
  <1> QED BY <1>4, <1>5

LEMMA EveryRowReads ==
  ASSUME NEW k \in Kinds, NEW m \in Messages(k), NEW r \in Table(k)
  PROVE RowReads(k, m, r)
  <1>1. r.type \in Types
    BY TableKeys
  <1> QED BY <1>1, PlainRead, UserRead, UsersRead DEF Types, RowReads

\* Messages with one field and with two.
LEMMA OneRow ==
  ASSUME NEW k \in Kinds, NEW n \in Messages(k), NEW m \in Messages(k), NEW r, Table(k) = {r}
  PROVE Carries(k, Wire(m, r) \o m.unknown, n, m)
  <1>1. r \in Table(k) /\ RowReads(k, m, r)
    BY EveryRowReads
  <1>2. PartRead(k, Wire(m, r), n, m, {r})
    BY <1>1, FirstRow
  <1> QED BY <1>2, LastRow

LEMMA TwoRows ==
  ASSUME NEW k \in Kinds, NEW n \in Messages(k), NEW m \in Messages(k), NEW r, NEW q,
         Table(k) = {r, q}, r # q
  PROVE Carries(k, Wire(m, r) \o Wire(m, q) \o m.unknown, n, m)
  <1>1. r \in Table(k) /\ q \in Table(k) /\ RowReads(k, m, r) /\ RowReads(k, m, q)
    BY EveryRowReads
  <1>2. PartRead(k, Wire(m, r), n, m, {r})
    BY <1>1, FirstRow
  <1> DEFINE s == Wire(m, r)
  <1> HIDE DEF s
  <1>3. PartRead(k, s \o Wire(m, q), n, m, {r} \cup {q})
    BY <1>1, <1>2, NextRow DEF s
  <1>4. {r} \cup {q} = Table(k)
    OBVIOUS
  <1> DEFINE t == s \o Wire(m, q)
  <1>5. PartRead(k, t, n, m, Table(k))
    BY <1>3, <1>4
  <1> HIDE DEF t
  <1>6. Carries(k, t \o m.unknown, n, m)
    BY <1>5, LastRow
  <1> QED BY <1>6 DEF s, t

\* Any message, read into any other one of its type.
LEMMA SerializeCarries ==
  ASSUME NEW k \in Kinds, NEW n \in Messages(k), NEW m \in Messages(k)
  PROVE Carries(k, Serialize(k, m), n, m)
  <1>1. CASE k = "User"
    <2>1. Serialize(k, m) = SerializeUser(m)
      BY <1>1 DEF Serialize
    <2> QED BY <1>1, <2>1, UserCarries
  <1>2. CASE k = "GetStatsRequest"
    <2>1. Serialize(k, m) = m.unknown /\ Table(k) = {}
      BY <1>2, GetStatsRequestRows DEF Serialize
    <2>2. Partly(k, n, n, m, Table(k))
      BY <2>1 DEF Partly
    <2>3. m.unknown \in Seq(EntriesOf(k))
      BY MessageParts, UnknownAreEntries
    <2> QED BY <2>1, <2>2, <2>3, UnknownRead DEF Carries
  <1>3. CASE k = "CreateUserRequest"
    <2> DEFINE r == RowIs(1, "text", 1, "name")
               q == RowIs(2, "text", 2, "email")
    <2>1. Serialize(k, m) = SerializeCreateUserRequest(m)
      BY <1>3 DEF Serialize
    <2>2. Table(k) = {r, q} /\ r # q
      BY <1>3, CreateUserRequestRows DEF RowIs
    <2>3. SerializeCreateUserRequest(m) = Wire(m, r) \o Wire(m, q) \o m.unknown
      BY DEF SerializeCreateUserRequest, Wire, RowIs
    <2> HIDE DEF r, q
    <2> QED BY <2>1, <2>2, <2>3, TwoRows
  <1>4. CASE k = "CreateUserReply"
    <2> DEFINE r == RowIs(1, "user", 1, "user")
    <2>1. Serialize(k, m) = SerializeCreateUserReply(m)
      BY <1>4 DEF Serialize
    <2>2. Table(k) = {r}
      BY <1>4, CreateUserReplyRows
    <2>3. SerializeCreateUserReply(m) = Wire(m, r) \o m.unknown
      BY DEF SerializeCreateUserReply, Wire, RowIs
    <2> HIDE DEF r
    <2> QED BY <2>1, <2>2, <2>3, OneRow
  <1>5. CASE k = "GetUserRequest"
    <2> DEFINE r == RowIs(1, "text", 1, "id")
    <2>1. Serialize(k, m) = SerializeGetUserRequest(m)
      BY <1>5 DEF Serialize
    <2>2. Table(k) = {r}
      BY <1>5, GetUserRequestRows
    <2>3. SerializeGetUserRequest(m) = Wire(m, r) \o m.unknown
      BY DEF SerializeGetUserRequest, Wire, RowIs
    <2> HIDE DEF r
    <2> QED BY <2>1, <2>2, <2>3, OneRow
  <1>6. CASE k = "GetUserReply"
    <2> DEFINE r == RowIs(1, "user", 1, "user")
    <2>1. Serialize(k, m) = SerializeGetUserReply(m)
      BY <1>6 DEF Serialize
    <2>2. Table(k) = {r}
      BY <1>6, GetUserReplyRows
    <2>3. SerializeGetUserReply(m) = Wire(m, r) \o m.unknown
      BY DEF SerializeGetUserReply, Wire, RowIs
    <2> HIDE DEF r
    <2> QED BY <2>1, <2>2, <2>3, OneRow
  <1>7. CASE k = "ListUsersRequest"
    <2> DEFINE r == RowIs(1, "int32", 1, "limit")
               q == RowIs(2, "int32", 2, "offset")
    <2>1. Serialize(k, m) = SerializeListUsersRequest(m)
      BY <1>7 DEF Serialize
    <2>2. Table(k) = {r, q} /\ r # q
      BY <1>7, ListUsersRequestRows DEF RowIs
    <2>3. SerializeListUsersRequest(m) = Wire(m, r) \o Wire(m, q) \o m.unknown
      BY DEF SerializeListUsersRequest, Wire, RowIs
    <2> HIDE DEF r, q
    <2> QED BY <2>1, <2>2, <2>3, TwoRows
  <1>8. CASE k = "ListUsersReply"
    <2> DEFINE r == RowIs(1, "users", 1, "users")
               q == RowIs(2, "int64", 2, "total")
    <2>1. Serialize(k, m) = SerializeListUsersReply(m)
      BY <1>8 DEF Serialize
    <2>2. Table(k) = {r, q} /\ r # q
      BY <1>8, ListUsersReplyRows DEF RowIs
    <2>3. SerializeListUsersReply(m) = Wire(m, r) \o Wire(m, q) \o m.unknown
      BY DEF SerializeListUsersReply, Wire, RowIs
    <2> HIDE DEF r, q
    <2> QED BY <2>1, <2>2, <2>3, TwoRows
  <1>9. CASE k = "GetStatsReply"
    <2> DEFINE r == RowIs(1, "int64", 1, "total_users")
               q == RowIs(2, "int64", 2, "request_count")
    <2>1. Serialize(k, m) = SerializeGetStatsReply(m)
      BY <1>9 DEF Serialize
    <2>2. Table(k) = {r, q} /\ r # q
      BY <1>9, GetStatsReplyRows DEF RowIs
    <2>3. SerializeGetStatsReply(m) = Wire(m, r) \o Wire(m, q) \o m.unknown
      BY DEF SerializeGetStatsReply, Wire, RowIs
    <2> HIDE DEF r, q
    <2> QED BY <2>1, <2>2, <2>3, TwoRows
  <1> QED BY <1>1, <1>2, <1>3, <1>4, <1>5, <1>6, <1>7, <1>8, <1>9 DEF Kinds

\* A message on the wire is a sequence of entries.
LEMMA SerializeGood ==
  ASSUME NEW k \in Kinds, NEW m \in Messages(k)
  PROVE Serialize(k, m) \in Seq(EntriesOf(k))
  BY NewGood, SerializeCarries DEF Carries

\* A message that is sent and received is as it was.
LEMMA SentIsReceived ==
  ASSUME NEW k \in Kinds, NEW m \in Messages(k)
  PROVE /\ Parse(k, New(k), Serialize(k, m)) \in Messages(k)
        /\ SameMessage(k, Parse(k, New(k), Serialize(k, m)), m)
  <1>1. New(k) \in Messages(k) /\ Cleared(New(k))
    BY NewGood
  <1>2. Joins(k, Parse(k, New(k), Serialize(k, m)), New(k), m)
    BY <1>1, SerializeCarries DEF Carries
  <1>3. Serialize(k, m) \in Seq(EntriesOf(k))
    BY SerializeGood
  <1>4. Parse(k, New(k), Serialize(k, m)) \in Messages(k)
    BY <1>1, <1>3, ParseGood
  <1> QED BY <1>1, <1>2, <1>4, JoinedWithCleared

-----------------------------------------------------------------------------
(* The actions                                                             *)

\* Setting one field of a user.
LEMMA SetUserField ==
  ASSUME NEW u \in GoodUsers
  PROVE /\ \A t \in Texts : /\ SetField(u, 1, "id", Text(t)) \in GoodUsers
                            /\ SetField(u, 2, "name", Text(t)) \in GoodUsers
                            /\ SetField(u, 4, "email", Text(t)) \in GoodUsers
        /\ \A n \in IntsOf(Bits64) : SetField(u, 8, "created_at", n) \in GoodUsers
  <1>1. u \in Messages("User") /\ "User" \in Kinds
    BY UserIsMessage DEF Kinds
  <1>2. ASSUME NEW t \in Texts, NEW num, NEW bit, NEW f, RowIs(num, "text", bit, f) \in Table("User")
        PROVE SetField(u, bit, f, Text(t)) \in GoodUsers
    <2>1. bit \in u.bits \cup {bit}
      OBVIOUS
    <2>2. ValueGood("text", u.bits \cup {bit}, bit, Text(t))
      BY <2>1 DEF ValueGood, TextGood, Text, TextValues
    <2> DEFINE r == RowIs(num, "text", bit, f)
    <2>3. r \in Table("User") /\ r.type = "text" /\ r.bit = bit /\ r.field = f
      BY <1>2 DEF RowIs
    <2> HIDE DEF r
    <2> QED BY <1>1, <2>2, <2>3, SetFieldGood, UserIsMessage
  <1>3. ASSUME NEW n \in IntsOf(Bits64)
        PROVE SetField(u, 8, "created_at", n) \in GoodUsers
    <2>1. 8 \in u.bits \cup {8}
      OBVIOUS
    <2>2. ValueGood("int64", u.bits \cup {8}, 8, n)
      BY <2>1 DEF ValueGood, IntGood, Width
    <2> DEFINE r == RowIs(4, "int64", 8, "created_at")
    <2>3. r \in Table("User") /\ r.type = "int64" /\ r.bit = 8 /\ r.field = "created_at"
      BY UserRows DEF RowIs
    <2> HIDE DEF r
    <2> QED BY <1>1, <2>2, <2>3, SetFieldGood, UserIsMessage
  <1> QED BY <1>2, <1>3, UserRows

LEMMA SampleUsersGood == SampleUsers \in SUBSET GoodUsers
  <1>1. NewUser \in GoodUsers
    BY NewUserGood
  <1>2. SetField(NewUser, 2, "name", Text(Empty)) \in GoodUsers
    BY <1>1, SetUserField, MessagesAssumption
  <1>3. ASSUME NEW s \in Samples PROVE FullUser(s) \in GoodUsers
    <2> DEFINE u1 == SetField(NewUser, 1, "id", Text(s.id))
               u2 == SetField(u1, 2, "name", Text(s.name))
               u3 == SetField(u2, 4, "email", Text(s.email))
    <2>1. /\ s.id \in Texts /\ s.name \in Texts /\ s.email \in Texts
          /\ s.created_at \in IntsOf(Bits64)
      BY MessagesAssumption, IntsAreInts
    <2>2. u1 \in GoodUsers
      BY <1>1, <2>1, SetUserField
    <2>3. u2 \in GoodUsers
      <3> HIDE DEF u1
      <3> QED BY <2>1, <2>2, SetUserField
    <2>4. u3 \in GoodUsers
      <3> HIDE DEF u2
      <3> QED BY <2>1, <2>3, SetUserField
    <2>5. FullUser(s) = SetField(u3, 8, "created_at", s.created_at)
      BY DEF FullUser
    <2> HIDE DEF u3
    <2> QED BY <2>1, <2>4, <2>5, SetUserField
  <1> QED BY <1>1, <1>2, <1>3 DEF SampleUsers

\* The edits of a field, by its row.
LEMMA RowEditsGood ==
  ASSUME NEW k \in Kinds, NEW m \in Messages(k), NEW num, NEW type, NEW bit, NEW f,
         RowIs(num, type, bit, f) \in Table(k)
  PROVE /\ type = "text" => TextEdits(m, bit, f) \subseteq Messages(k)
        /\ type = "int32" => IntEdits(m, bit, f, Bits32) \subseteq Messages(k)
        /\ type = "int64" => IntEdits(m, bit, f, Bits64) \subseteq Messages(k)
        /\ type = "user" => OneUserEdits(m, bit, f, SampleUsers) \subseteq Messages(k)
        /\ type = "users" => UserListEdits(m, bit, f, SampleUsers) \subseteq Messages(k)
  <1> DEFINE r == RowIs(num, type, bit, f)
  <1>1. r \in Table(k) /\ r.type = type /\ r.bit = bit /\ r.field = f
    BY DEF RowIs
  <1> HIDE DEF r
  <1>2. Width("int32") = Bits32 /\ Width("int64") = Bits64
    BY DEF Width
  <1>3. CASE type = "int32"
    BY <1>1, <1>2, <1>3, IntEditsGood
  <1>4. CASE type = "int64"
    BY <1>1, <1>2, <1>4, IntEditsGood
  <1> QED BY <1>1, <1>3, <1>4, TextEditsGood, OneUserEditsGood, UserListEditsGood, SampleUsersGood

\* All the accessors of a message keep it good.
LEMMA EditsGood ==
  ASSUME NEW k \in Kinds, NEW m \in Messages(k), NEW f \in Fields(k)
  PROVE Edits(k, m, f) \subseteq Messages(k)
  <1>1. CASE k = "User"
    <2>1. Edits(k, m, f) = EditUser(m, f)
      BY <1>1 DEF Edits
    <2>2. CASE f = "id"
      BY <1>1, <2>1, <2>2, UserRows, RowEditsGood DEF EditUser
    <2>3. CASE f = "name"
      BY <1>1, <2>1, <2>3, UserRows, RowEditsGood DEF EditUser
    <2>4. CASE f = "email"
      BY <1>1, <2>1, <2>4, UserRows, RowEditsGood DEF EditUser
    <2>5. CASE f = "created_at"
      BY <1>1, <2>1, <2>5, UserRows, RowEditsGood DEF EditUser
    <2> QED BY <1>1, <2>2, <2>3, <2>4, <2>5, UserRows
  <1>2. CASE k = "CreateUserRequest"
    <2>1. Edits(k, m, f) = EditCreateUserRequest(m, f)
      BY <1>2 DEF Edits
    <2>2. CASE f = "name"
      BY <1>2, <2>1, <2>2, CreateUserRequestRows, RowEditsGood DEF EditCreateUserRequest
    <2>3. CASE f = "email"
      BY <1>2, <2>1, <2>3, CreateUserRequestRows, RowEditsGood DEF EditCreateUserRequest
    <2> QED BY <1>2, <2>2, <2>3, CreateUserRequestRows
  <1>3. CASE k = "CreateUserReply"
    <2>1. Edits(k, m, f) = EditCreateUserReply(m)
      BY <1>3 DEF Edits
    <2> QED BY <1>3, <2>1, CreateUserReplyRows, RowEditsGood DEF EditCreateUserReply
  <1>4. CASE k = "GetUserRequest"
    <2>1. Edits(k, m, f) = EditGetUserRequest(m)
      BY <1>4 DEF Edits
    <2> QED BY <1>4, <2>1, GetUserRequestRows, RowEditsGood DEF EditGetUserRequest
  <1>5. CASE k = "GetUserReply"
    <2>1. Edits(k, m, f) = EditGetUserReply(m)
      BY <1>5 DEF Edits
    <2> QED BY <1>5, <2>1, GetUserReplyRows, RowEditsGood DEF EditGetUserReply
  <1>6. CASE k = "ListUsersRequest"
    <2>1. Edits(k, m, f) = EditListUsersRequest(m, f)
      BY <1>6 DEF Edits
    <2>2. CASE f = "limit"
      BY <1>6, <2>1, <2>2, ListUsersRequestRows, RowEditsGood DEF EditListUsersRequest
    <2>3. CASE f = "offset"
      BY <1>6, <2>1, <2>3, ListUsersRequestRows, RowEditsGood DEF EditListUsersRequest
    <2> QED BY <1>6, <2>2, <2>3, ListUsersRequestRows
  <1>7. CASE k = "ListUsersReply"
    <2>1. Edits(k, m, f) = EditListUsersReply(m, f)
      BY <1>7 DEF Edits
    <2>2. CASE f = "users"
      BY <1>7, <2>1, <2>2, ListUsersReplyRows, RowEditsGood DEF EditListUsersReply
    <2>3. CASE f = "total"
      BY <1>7, <2>1, <2>3, ListUsersReplyRows, RowEditsGood DEF EditListUsersReply
    <2> QED BY <1>7, <2>2, <2>3, ListUsersReplyRows
  <1>8. CASE k = "GetStatsRequest"
    BY <1>8, GetStatsRequestRows
  <1>9. CASE k = "GetStatsReply"
    <2>1. Edits(k, m, f) = EditGetStatsReply(m, f)
      BY <1>9 DEF Edits
    <2>2. CASE f = "total_users"
      BY <1>9, <2>1, <2>2, GetStatsReplyRows, RowEditsGood DEF EditGetStatsReply
    <2>3. CASE f = "request_count"
      BY <1>9, <2>1, <2>3, GetStatsReplyRows, RowEditsGood DEF EditGetStatsReply
    <2> QED BY <1>9, <2>2, <2>3, GetStatsReplyRows
  <1> QED BY <1>1, <1>2, <1>3, <1>4, <1>5, <1>6, <1>7, <1>8, <1>9 DEF Kinds

\* What another process sends.
LEMMA EntriesGood ==
  ASSUME NEW k \in Kinds
  PROVE Entries(k) \subseteq EntriesOf(k)
  <1>1. FlatEntries \subseteq EntriesOf(k)
    BY DEF EntriesOf, WireEntries
  <1>2. ASSUME NEW n \in Int, NEW num \in Nat PROVE Entry(num, "varint", ToWire(n)) \in FlatEntries
    BY ToWireIsInt, EntryParts
  <1>3. UnknownEntry(k) \in EntriesOf(k)
    BY <1>1, <1>2 DEF UnknownEntry
  <1>4. ASSUME NEW r \in Table(k)
        PROVE (CASE r.type = "text" -> {Entry(r.num, "text", t) : t \in Texts}
                 [] r.type \in {"int32", "int64"} -> {Entry(r.num, "varint", ToWire(n)) : n \in Ints}
                 [] OTHER -> {Entry(r.num, "message", SerializeUser(u)) : u \in SampleUsers})
              \subseteq EntriesOf(k)
    <2>1. r.num \in Nat /\ r.type \in Types
      BY TableNums, TableKeys
    <2>2. CASE r.type = "text"
      BY <1>1, <2>1, <2>2, EntryParts
    <2>3. CASE r.type \in {"int32", "int64"}
      <3>1. \A n \in Ints : n \in Int
        BY MessagesAssumption
      <3> QED BY <1>1, <1>2, <2>1, <2>3, <3>1
    <2>4. CASE r.type \in {"user", "users"}
      <3>1. EntriesOf(k) = WireEntries
        BY <2>4, TableNums DEF EntriesOf
      <3>2. \A u \in SampleUsers : Entry(r.num, "message", SerializeUser(u)) \in WireEntries
        BY <2>1, SampleUsersGood, SerializeUserGood, EntryParts
      <3> QED BY <2>4, <3>1, <3>2
    <2> QED BY <2>1, <2>2, <2>3, <2>4 DEF Types
  <1> QED BY <1>3, <1>4 DEF Entries

\* A user that is filled from JSON is good, and has what the object has.
LEMMA LoadedUser ==
  ASSUME NEW m \in GoodUsers, NEW u \in GoodUsers, NEW keys \in SUBSET JsonKeys
  PROVE LET l == JsonToUser(Part(m, keys), u)
        IN  /\ l \in GoodUsers
            /\ \A f \in JsonKeys : UserContents(l)[f] = UserContents(IF f \in keys THEN m ELSE NewUser)[f]
  <1> DEFINE j == Part(m, keys)
             id == Value(j, "id", Empty)
             name == Value(j, "name", Empty)
             email == Value(j, "email", Empty)
             created_at == Value(j, "created_at", 0)
             t1 == SetField(u, 1, "id", Text(id))
             t2 == SetField(t1, 2, "name", Text(name))
             t3 == SetField(t2, 4, "email", Text(email))
             l == SetField(t3, 8, "created_at", created_at)
  <1>1. /\ m.val.id.text \in Texts /\ m.val.name.text \in Texts /\ m.val.email.text \in Texts
        /\ m.val.created_at \in IntsOf(Bits64)
    BY UserFields DEF GoodUsers, TextValues, UserGood, IntGood
  <1>2. /\ id = UserContents(IF "id" \in keys THEN m ELSE NewUser).id
        /\ name = UserContents(IF "name" \in keys THEN m ELSE NewUser).name
        /\ email = UserContents(IF "email" \in keys THEN m ELSE NewUser).email
        /\ created_at = UserContents(IF "created_at" \in keys THEN m ELSE NewUser).created_at
    BY DEF Value, Part, UserToJson, UserContents, NewUser, Message, SharedEmpty
  <1>3. id \in Texts /\ name \in Texts /\ email \in Texts /\ created_at \in IntsOf(Bits64)
    BY <1>1, IntsAreInts, MessagesAssumption DEF Value, Part, UserToJson
  <1>4. JsonToUser(j, u) = l
    BY DEF JsonToUser
  <1> HIDE DEF j, id, name, email, created_at
  <1>5. t1 \in GoodUsers
    BY <1>3, SetUserField
  <1>6. t2 \in GoodUsers
    <2> HIDE DEF t1
    <2> QED BY <1>3, <1>5, SetUserField
  <1>7. t3 \in GoodUsers
    <2> HIDE DEF t2
    <2> QED BY <1>3, <1>6, SetUserField
  <1>8. l \in GoodUsers
    <2> HIDE DEF t3
    <2> QED BY <1>3, <1>7, SetUserField
  <1>9. DOMAIN u.val = {"id", "name", "email", "created_at"}
    BY UserFields DEF GoodUsers
  <1>10. l.val = [[[[u.val EXCEPT !["id"] = Text(id)] EXCEPT !["name"] = Text(name)]
                    EXCEPT !["email"] = Text(email)] EXCEPT !["created_at"] = created_at]
    BY DEF SetField
  <1> HIDE DEF l
  <1>11. /\ l.val.id.text = id /\ l.val.name.text = name /\ l.val.email.text = email
         /\ l.val.created_at = created_at
    BY <1>9, <1>10 DEF Text
  <1>12. \A f \in JsonKeys : UserContents(l)[f] = UserContents(IF f \in keys THEN m ELSE NewUser)[f]
    <2>1. /\ UserContents(l).id = id /\ UserContents(l).name = name /\ UserContents(l).email = email
          /\ UserContents(l).created_at = created_at
      BY <1>11 DEF UserContents
    <2> QED BY <1>2, <2>1 DEF JsonKeys
  <1> QED BY <1>4, <1>8, <1>12 DEF j

-----------------------------------------------------------------------------
(* Sizes                                                                   *)

\* Every number has a size: the last of the ten bytes takes what is left.
LEMMA VarintSizeIs ==
  ASSUME NEW u
  PROVE /\ VarintSize(u) \in 1..10
        /\ u < 128 => VarintSize(u) = 1
  <1> DEFINE Enough(k) == k = 10 \/ u < 128^k
             T == {k \in 1..10 : Enough(k)}
             Size(k) == Enough(k) /\ \A j \in 1..k - 1 : ~(u < 128^j)
  <1>1. T \subseteq Nat /\ 10 \in T
    OBVIOUS
  <1>2. PICK k \in T : \A j \in T : k <= j
    BY <1>1, LeastNatural
  <1>3. \A j \in 1..k - 1 : ~(u < 128^j)
    <2> SUFFICES ASSUME NEW j \in 1..k - 1, u < 128^j PROVE FALSE
      OBVIOUS
    <2>1. k \in 1..10 /\ j \in 1..10 /\ j < k
      OBVIOUS
    <2>2. j \in T
      BY <2>1
    <2>3. k <= j
      BY <1>2, <2>2
    <2> QED BY <2>1, <2>3
  <1>4. k \in 1..10 /\ Size(k)
    BY <1>3
  <1>5. VarintSize(u) \in 1..10 /\ Size(VarintSize(u))
    <2> HIDE DEF T
    <2> QED BY <1>4 DEF VarintSize
  <1>6. ASSUME u < 128 PROVE VarintSize(u) = 1
    <2>1. 128^1 = 128 /\ 1 \in 1..10
      OBVIOUS
    <2>2. u < 128^1
      BY <1>6, <2>1
    <2>3. ~(1 \in 1..VarintSize(u) - 1)
      BY <1>5, <2>2
    <2> QED BY <1>5, <2>3
  <1> QED BY <1>5, <1>6

\* The tags of all fields of this program have one byte.
LEMMA TagSizeIs ==
  ASSUME NEW num \in Nat
  PROVE TagSize(num) \in Nat /\ (num < 16 => TagSize(num) = 1)
  <1>1. num < 16 => 8 * num < 128
    OBVIOUS
  <1> QED BY <1>1, VarintSizeIs DEF TagSize

\* g adds up the sizes in s.
Sums(s, g) == g[0] = 0 /\ \A i \in 1..Len(s) : g[i] = g[i - 1] + s[i]

LEMMA TotalSums ==
  ASSUME NEW s \in Seq(Nat)
  PROVE \E g : Sums(s, g) /\ Total(s) = g[Len(s)]
  <1> DEFINE n == Len(s)
             Body(g) == [z \in SUBSET (1..n) |-> IF z = {} THEN 0 ELSE g[z \ {Max(z)}] + s[Max(z)]]
             h == CHOOSE g : g = Body(g)
  <1>0. n \in Nat /\ DOMAIN s = 1..n
    OBVIOUS
  <1>1. Total(s) = h[1..n]
    BY <1>0 DEF Total, FoldLeft, MapThenFoldSet
  <1>2. \E g : g = Body(g)
    <2> DEFINE F == [p \in (1..n) \X Nat |-> p[2] + s[p[1]]]
    <2>1. F \in [(1..n) \X Nat -> Nat]
      <3>1. \A i \in 1..n : s[i] \in Nat
        BY <1>0
      <3> HIDE DEF n
      <3> QED BY <3>1
    <2> HIDE DEF F, n
    <2>3. PICK g \in [SUBSET (1..n) -> Nat] : FoldOf(g, 0, n, F)
      BY <1>0, <2>1, FoldExists
    <2>4. ASSUME NEW z \in SUBSET (1..n) PROVE g[z] = Body(g)[z]
      <3>1. CASE z = {}
        BY <2>3, <3>1 DEF FoldOf
      <3>2. CASE z # {}
        <4>1. Max(z) \in 1..n /\ z \ {Max(z)} \in SUBSET (1..n)
          BY <3>2, <1>0, Below
        <4>2. F[<<Max(z), g[z \ {Max(z)}]>>] = g[z \ {Max(z)}] + s[Max(z)]
          BY <4>1, <2>3 DEF F
        <4> QED BY <2>3, <3>2, <4>2 DEF FoldOf
      <3> QED BY <3>1, <3>2
    <2> QED BY <2>3, <2>4
  <1>3. h = Body(h)
    BY <1>2
  <1> HIDE DEF h
  <1>4. h[{}] = 0
    BY <1>3
  <1>5. ASSUME NEW i \in 1..n PROVE h[1..i] = h[1..i-1] + s[i]
    <2>1. 1..i # {} /\ 1..i \in SUBSET (1..n)
      BY <1>0
    <2>2. Max(1..i) = i /\ 1..i \ {i} = 1..i-1
      BY <1>0, MaxOfFirst
    <2> QED BY <1>3, <2>1, <2>2
  <1> DEFINE g == [i \in 0..n |-> h[1..i]]
  <1>6. g[0] = 0
    <2>1. 1..0 = {} /\ 0 \in 0..n
      BY <1>0
    <2> QED BY <1>4, <2>1
  <1>7. ASSUME NEW i \in 1..n PROVE g[i] = g[i - 1] + s[i]
    <2>1. i \in 0..n /\ i - 1 \in 0..n
      BY <1>0
    <2> QED BY <1>5, <2>1
  <1>8. Total(s) = g[n]
    BY <1>0, <1>1
  <1> HIDE DEF g
  <1> QED BY <1>6, <1>7, <1>8 DEF Sums

\* There is one way to add up.
LEMMA SumsEnd ==
  ASSUME NEW s \in Seq(Nat), NEW g, Sums(s, g)
  PROVE Total(s) = g[Len(s)]
  <1> DEFINE n == Len(s)
  <1>0. n \in Nat
    OBVIOUS
  <1>1. PICK h : Sums(s, h) /\ Total(s) = h[n]
    BY TotalSums
  <1> DEFINE T == {i \in 0..n : g[i] = h[i]}
  <1>2. 0 \in T
    BY <1>0, <1>1 DEF Sums
  <1>3. ASSUME NEW i \in 1..n, i - 1 \in T PROVE i \in T
    <2>1. i \in 0..n /\ g[i - 1] = h[i - 1]
      BY <1>0, <1>3
    <2> QED BY <1>1, <2>1 DEF Sums
  <1>4. n \in T
    <2> HIDE DEF T, n
    <2> QED BY <1>0, <1>2, <1>3, NatSteps
  <1> QED BY <1>1, <1>4

\* The sums are numbers.
LEMMA SumsAreNat ==
  ASSUME NEW s \in Seq(Nat), NEW g, Sums(s, g), NEW c \in 0..Len(s)
  PROVE g[c] \in Nat
  <1> DEFINE n == Len(s)
             T == {i \in 0..n : g[i] \in Nat}
  <1>0. n \in Nat /\ c \in Nat /\ c <= n
    OBVIOUS
  <1>1. 0 \in T
    BY <1>0 DEF Sums
  <1>2. ASSUME NEW i \in 1..c, i - 1 \in T PROVE i \in T
    <2>1. i \in 0..n /\ i \in 1..n /\ g[i - 1] \in Nat /\ s[i] \in Nat
      BY <1>0, <1>2
    <2> QED BY <2>1 DEF Sums
  <1>3. c \in T
    <2> HIDE DEF T, n
    <2> QED BY <1>0, <1>1, <1>2, NatSteps
  <1> QED BY <1>3

LEMMA TotalIsNat == ASSUME NEW s \in Seq(Nat) PROVE Total(s) \in Nat
  <1>1. Len(s) \in 0..Len(s)
    OBVIOUS
  <1> QED BY <1>1, TotalSums, SumsAreNat

\* The total of nothing, and of one size.
LEMMA TotalOfFew == Total(<<>>) = 0 /\ \A k \in Nat : Total(<<k>>) = k
  <1>1. Total(<<>>) = 0
    <2>1. <<>> \in Seq(Nat) /\ Len(<<>>) = 0
      OBVIOUS
    <2>2. PICK g : Sums(<<>>, g) /\ Total(<<>>) = g[0]
      BY <2>1, TotalSums
    <2> QED BY <2>2 DEF Sums
  <1>2. ASSUME NEW k \in Nat PROVE Total(<<k>>) = k
    <2> DEFINE s == <<k>>
    <2>1. s \in Seq(Nat) /\ Len(s) = 1 /\ s[1] = k
      OBVIOUS
    <2> HIDE DEF s
    <2>2. PICK g : Sums(s, g) /\ Total(s) = g[1]
      BY <2>1, TotalSums
    <2>3. g[1] = g[1 - 1] + s[1] /\ g[0] = 0
      BY <2>1, <2>2 DEF Sums
    <2>4. Total(s) = k
      BY <2>1, <2>2, <2>3
    <2> QED BY <2>4 DEF s
  <1> QED BY <1>1, <1>2

\* The total of two sequences, one after the other.
LEMMA TotalConcat ==
  ASSUME NEW s \in Seq(Nat), NEW t \in Seq(Nat)
  PROVE Total(s \o t) = Total(s) + Total(t)
  <1> DEFINE c == Len(s)
             d == Len(t)
             st == s \o t
  <1>0. c \in Nat /\ d \in Nat
    OBVIOUS
  <1>1. PICK g : Sums(s, g) /\ Total(s) = g[c]
    BY TotalSums
  <1>2. PICK h : Sums(t, h) /\ Total(t) = h[d]
    BY TotalSums
  <1>3. g[c] \in Nat /\ \A i \in 0..d : h[i] \in Nat
    <2>1. c \in 0..c
      BY <1>0
    <2> QED BY <1>1, <1>2, <2>1, SumsAreNat
  <1> DEFINE q == [i \in 0..c + d |-> IF i <= c THEN g[i] ELSE g[c] + h[i - c]]
  <1>4. st \in Seq(Nat) /\ Len(st) = c + d
    OBVIOUS
  <1>5. /\ \A i \in 1..c : st[i] = s[i]
        /\ \A i \in 1..c + d : i > c => st[i] = t[i - c]
        /\ \A i \in 1..d : t[i] \in Nat
    OBVIOUS
  <1>6. \A i \in 0..c : q[i] = g[i]
    BY <1>0
  <1>7. \A i \in 0..c + d : i >= c => q[i] = g[c] + h[i - c]
    <2>1. h[0] = 0
      BY <1>2 DEF Sums
    <2> SUFFICES ASSUME NEW i \in 0..c + d, i >= c PROVE q[i] = g[c] + h[i - c]
      OBVIOUS
    <2>2. CASE i = c
      <3>1. q[i] = g[c] /\ i - c = 0
        BY <1>0, <2>2
      <3> QED BY <1>3, <2>1, <3>1
    <2>3. CASE i > c
      BY <1>0, <2>3
    <2> QED BY <1>0, <2>2, <2>3
  <1> HIDE DEF q, c, d, st
  <1>8. ASSUME NEW i \in 1..c + d PROVE q[i] = q[i - 1] + st[i]
    <2>1. CASE i <= c
      <3>1. i \in 1..c /\ i \in 0..c /\ i - 1 \in 0..c
        BY <1>0, <2>1
      <3>2. g[i] = g[i - 1] + s[i]
        BY <1>1, <3>1 DEF Sums, c
      <3> QED BY <1>5, <1>6, <3>1, <3>2
    <2>2. CASE i > c
      <3>1. i \in 0..c + d /\ i - 1 \in 0..c + d /\ i - 1 >= c /\ i - c \in 1..d
        BY <1>0, <2>2
      <3>2. h[i - c] = h[(i - c) - 1] + t[i - c]
        BY <1>2, <3>1 DEF Sums, d
      <3>3. (i - c) - 1 = (i - 1) - c /\ (i - c) - 1 \in 0..d
        BY <1>0, <3>1
      <3>4. q[i] = g[c] + h[i - c] /\ q[i - 1] = g[c] + h[(i - 1) - c]
        BY <1>0, <1>7, <2>2, <3>1
      <3>5. h[(i - c) - 1] \in Nat /\ t[i - c] \in Nat
        BY <1>3, <1>5, <3>1, <3>3
      <3> QED BY <1>3, <1>5, <2>2, <3>2, <3>3, <3>4, <3>5
    <2> QED BY <1>0, <2>1, <2>2
  <1>9. q[0] = 0 /\ q[c + d] = g[c] + h[d]
    <2>1. 0 \in 0..c /\ c + d \in 0..c + d /\ c + d >= c /\ (c + d) - c = d
      BY <1>0
    <2>2. q[0] = g[0] /\ g[0] = 0
      BY <1>1, <1>6, <2>1 DEF Sums
    <2> QED BY <1>7, <2>1, <2>2
  <1>10. Sums(st, q)
    BY <1>4, <1>8, <1>9 DEF Sums
  <1>11. Total(st) = q[c + d]
    BY <1>4, <1>10, SumsEnd
  <1> QED BY <1>1, <1>2, <1>9, <1>11 DEF st

\* The sizes of entries.
LEMMA FlatSizeIsNat ==
  ASSUME NEW e \in FlatEntries
  PROVE FlatSize(e) \in Nat /\ EntrySize(e) = FlatSize(e)
  <1>1. Num(e) \in Nat
    BY DEF FlatEntries, Num
  <1>2. TagSize(Num(e)) \in Nat /\ VarintSize(Val(e)) \in Nat
    BY <1>1, TagSizeIs, VarintSizeIs
  <1>3. CASE Form(e) = "text"
    <2>1. Val(e) \in Texts
      BY <1>3, EntryParts
    <2>2. Length[Val(e)] \in Nat /\ VarintSize(Length[Val(e)]) \in Nat
      BY <2>1, MessagesAssumption, VarintSizeIs
    <2> QED BY <1>2, <1>3, <2>2 DEF FlatSize, EntrySize, StringSize
  <1>4. CASE Form(e) = "varint"
    BY <1>2, <1>4 DEF FlatSize, EntrySize
  <1> QED BY <1>3, <1>4, EntryParts

LEMMA FlatBytesIs ==
  ASSUME NEW s \in Seq(FlatEntries)
  PROVE FlatBytes(s) \in Nat /\ Bytes(s) = FlatBytes(s)
  <1>1. [i \in DOMAIN s |-> FlatSize(s[i])] \in Seq(Nat)
    BY FlatSizeIsNat
  <1>2. [i \in DOMAIN s |-> EntrySize(s[i])] = [i \in DOMAIN s |-> FlatSize(s[i])]
    BY FlatSizeIsNat
  <1> QED BY <1>1, <1>2, TotalIsNat DEF FlatBytes, Bytes

LEMMA MessageSizeIsNat == ASSUME NEW n \in Nat PROVE MessageSize(n) \in Nat
  BY VarintSizeIs DEF MessageSize

LEMMA EntrySizeIsNat == ASSUME NEW e \in WireEntries PROVE EntrySize(e) \in Nat
  <1>1. CASE e \in FlatEntries
    BY <1>1, FlatSizeIsNat
  <1>2. CASE e \in Nat \X {"message"} \X Seq(FlatEntries)
    <2>1. Num(e) \in Nat /\ Form(e) = "message" /\ Val(e) \in Seq(FlatEntries)
      BY <1>2 DEF Num, Form, Val
    <2>2. TagSize(Num(e)) \in Nat /\ MessageSize(FlatBytes(Val(e))) \in Nat
      BY <2>1, TagSizeIs, FlatBytesIs, MessageSizeIsNat
    <2> QED BY <2>1, <2>2 DEF EntrySize
  <1> QED BY <1>1, <1>2 DEF WireEntries

\* The bytes of entries, one after the other.
LEMMA BytesAre ==
  /\ Bytes(<<>>) = 0
  /\ \A e \in WireEntries : Bytes(<<e>>) = EntrySize(e)
  /\ \A s \in Seq(WireEntries) : Bytes(s) \in Nat
  /\ \A s, t \in Seq(WireEntries) : Bytes(s \o t) = Bytes(s) + Bytes(t)
  <1> DEFINE Sizes(s) == [i \in DOMAIN s |-> EntrySize(s[i])]
  <1>1. ASSUME NEW s \in Seq(WireEntries) PROVE Sizes(s) \in Seq(Nat) /\ Len(Sizes(s)) = Len(s)
    BY EntrySizeIsNat
  <1>2. Bytes(<<>>) = 0
    <2>1. Sizes(<<>>) = <<>>
      OBVIOUS
    <2> QED BY <2>1, TotalOfFew DEF Bytes
  <1>3. ASSUME NEW e \in WireEntries PROVE Bytes(<<e>>) = EntrySize(e)
    <2>1. Sizes(<<e>>) = <<EntrySize(e)>>
      OBVIOUS
    <2> QED BY <2>1, EntrySizeIsNat, TotalOfFew DEF Bytes
  <1>4. ASSUME NEW s \in Seq(WireEntries) PROVE Bytes(s) \in Nat
    BY <1>1, TotalIsNat DEF Bytes
  <1>5. ASSUME NEW s \in Seq(WireEntries), NEW t \in Seq(WireEntries)
        PROVE Bytes(s \o t) = Bytes(s) + Bytes(t)
    <2>1. Sizes(s \o t) = Sizes(s) \o Sizes(t)
      OBVIOUS
    <2> QED BY <1>1, <2>1, TotalConcat DEF Bytes
  <1> QED BY <1>2, <1>3, <1>4, <1>5

\* What ByteSizeLong() counts for a row of message m.
SizeOf(m, r) ==
  CASE r.type = "text" -> TextSize(m, r.bit, m.val[r.field])
    [] r.type \in {"int32", "int64"} -> IntSize(m, r.bit, m.val[r.field])
    [] r.type = "user" ->
         (IF Has(m, r.bit) THEN 1 + MessageSize(ByteSizeUser(m.val[r.field])) ELSE 0)
    [] r.type = "users" ->
         (IF Has(m, r.bit) THEN Total([j \in DOMAIN m.val[r.field] |->
                                         1 + MessageSize(ByteSizeUser(m.val[r.field][j]))]) ELSE 0)

\* A string and an int take the bytes that are counted for them.
LEMMA PlainSize ==
  ASSUME NEW m, NEW bit, NEW num \in 1..15, NEW v
  PROVE /\ v \in TextValues => Bytes(PutText(m, bit, num, v)) = TextSize(m, bit, v)
        /\ v \in Int => Bytes(PutInt(m, bit, num, v)) = IntSize(m, bit, v)
  <1>1. TagSize(num) = 1 /\ num \in Nat
    BY TagSizeIs
  <1>2. ASSUME v \in TextValues PROVE Bytes(PutText(m, bit, num, v)) = TextSize(m, bit, v)
    <2> DEFINE e == Entry(num, "text", v.text)
    <2>1. e \in FlatEntries /\ e \in WireEntries
      BY <1>1, <1>2, EntryParts DEF TextValues, WireEntries
    <2>2. EntrySize(e) = 1 + StringSize(v.text)
      BY <1>1 DEF EntrySize, FlatSize, Entry, Num, Form, Val
    <2> HIDE DEF e
    <2>3. Bytes(<<e>>) = 1 + StringSize(v.text)
      BY <2>1, <2>2, BytesAre
    <2> QED BY <2>3, BytesAre DEF PutText, TextSize, e
  <1>3. ASSUME v \in Int PROVE Bytes(PutInt(m, bit, num, v)) = IntSize(m, bit, v)
    <2> DEFINE e == Entry(num, "varint", ToWire(v))
    <2>1. e \in FlatEntries /\ e \in WireEntries
      BY <1>1, <1>3, EntryParts, ToWireIsInt DEF WireEntries
    <2>2. EntrySize(e) = 1 + VarintSize(ToWire(v))
      BY <1>1 DEF EntrySize, FlatSize, Entry, Num, Form, Val
    <2> HIDE DEF e
    <2>3. Bytes(<<e>>) = 1 + VarintSize(ToWire(v))
      BY <2>1, <2>2, BytesAre
    <2> QED BY <2>3, BytesAre DEF PutInt, IntSize, e
  <1> QED BY <1>2, <1>3

\* The bytes of a user are counted right.
LEMMA UserSize ==
  ASSUME NEW u \in GoodUsers
  PROVE /\ FlatBytes(SerializeUser(u)) = ByteSizeUser(u)
        /\ Bytes(SerializeUser(u)) = ByteSizeUser(u)
        /\ ByteSizeUser(u) \in Nat
  <1> DEFINE p1 == PutText(u, 1, 1, u.val.id)
             p2 == PutText(u, 2, 2, u.val.name)
             p3 == PutText(u, 4, 3, u.val.email)
             p4 == PutInt(u, 8, 4, u.val.created_at)
  <1>1. /\ p1 \in Seq(WireEntries) /\ p2 \in Seq(WireEntries) /\ p3 \in Seq(WireEntries)
        /\ p4 \in Seq(WireEntries) /\ u.unknown \in Seq(WireEntries)
    BY UserFields, PutPlain, FlatIsWire DEF GoodUsers
  <1>2. /\ Bytes(p1) = TextSize(u, 1, u.val.id) /\ Bytes(p2) = TextSize(u, 2, u.val.name)
        /\ Bytes(p3) = TextSize(u, 4, u.val.email) /\ Bytes(p4) = IntSize(u, 8, u.val.created_at)
    <2>1. /\ u.val.id \in TextValues /\ u.val.name \in TextValues /\ u.val.email \in TextValues
          /\ u.val.created_at \in Int
      BY UserFields DEF GoodUsers
    <2>2. 1 \in 1..15 /\ 2 \in 1..15 /\ 3 \in 1..15 /\ 4 \in 1..15
      OBVIOUS
    <2> QED BY <2>1, <2>2, PlainSize
  <1>3. SerializeUser(u) = p1 \o p2 \o p3 \o p4 \o u.unknown
    BY DEF SerializeUser
  <1> HIDE DEF p1, p2, p3, p4
  <1> DEFINE q2 == p1 \o p2
             q3 == q2 \o p3
             q4 == q3 \o p4
  <1>4. q2 \in Seq(WireEntries) /\ Bytes(q2) = Bytes(p1) + Bytes(p2)
    BY <1>1, BytesAre
  <1>5. q3 \in Seq(WireEntries) /\ Bytes(q3) = Bytes(p1) + Bytes(p2) + Bytes(p3)
    <2> HIDE DEF q2
    <2> QED BY <1>1, <1>4, BytesAre
  <1>6. q4 \in Seq(WireEntries) /\ Bytes(q4) = Bytes(p1) + Bytes(p2) + Bytes(p3) + Bytes(p4)
    <2> HIDE DEF q3
    <2> QED BY <1>1, <1>5, BytesAre
  <1>7. Bytes(q4 \o u.unknown) = Bytes(p1) + Bytes(p2) + Bytes(p3) + Bytes(p4) + Bytes(u.unknown)
    <2> HIDE DEF q4
    <2> QED BY <1>1, <1>6, BytesAre
  <1>8. Bytes(SerializeUser(u)) = ByteSizeUser(u)
    BY <1>2, <1>3, <1>7 DEF ByteSizeUser, UnknownSize
  <1> QED BY <1>8, SerializeUserGood, FlatBytesIs

\* So is the user inside of a message.
LEMMA UserEntrySize ==
  ASSUME NEW num \in 1..15, NEW u \in GoodUsers
  PROVE /\ Entry(num, "message", SerializeUser(u)) \in WireEntries
        /\ EntrySize(Entry(num, "message", SerializeUser(u))) = 1 + MessageSize(ByteSizeUser(u))
  <1>1. TagSize(num) = 1 /\ num \in Nat
    BY TagSizeIs
  <1>2. Entry(num, "message", SerializeUser(u)) \in WireEntries
    BY <1>1, SerializeUserGood, EntryParts
  <1>3. EntrySize(Entry(num, "message", SerializeUser(u))) = TagSize(num) + MessageSize(FlatBytes(SerializeUser(u)))
    BY DEF EntrySize, Entry, Num, Form, Val
  <1> QED BY <1>1, <1>2, <1>3, UserSize

\* Each row takes the bytes that are counted for it.
LEMMA RowSize ==
  ASSUME NEW k \in Kinds, NEW m \in Messages(k), NEW r \in Table(k)
  PROVE Bytes(Wire(m, r)) = SizeOf(m, r)
  <1> DEFINE w == m.val[r.field]
  <1>1. ValueGood(r.type, m.bits, r.bit, w) /\ r.num \in 1..15 /\ r.type \in Types
    BY MessageParts, TableNums, TableKeys
  <1> HIDE DEF w
  <1>2. CASE r.type = "text"
    <2>1. Wire(m, r) = PutText(m, r.bit, r.num, w) /\ SizeOf(m, r) = TextSize(m, r.bit, w)
      BY <1>2 DEF Wire, SizeOf, w
    <2>2. w \in TextValues
      BY <1>1, <1>2, ValueTypes
    <2> QED BY <1>1, <2>1, <2>2, PlainSize
  <1>3. CASE r.type \in {"int32", "int64"}
    <2>1. Wire(m, r) = PutInt(m, r.bit, r.num, w) /\ SizeOf(m, r) = IntSize(m, r.bit, w)
      BY <1>3 DEF Wire, SizeOf, w
    <2>2. w \in Int
      BY <1>1, <1>3, ValueTypes
    <2> QED BY <1>1, <2>1, <2>2, PlainSize
  <1>4. CASE r.type = "user"
    <2> DEFINE e == Entry(r.num, "message", SerializeUser(w))
    <2>1. /\ Wire(m, r) = IF Has(m, r.bit) THEN <<e>> ELSE <<>>
          /\ SizeOf(m, r) = IF Has(m, r.bit) THEN 1 + MessageSize(ByteSizeUser(w)) ELSE 0
      BY <1>4 DEF Wire, SizeOf, w
    <2>2. Has(m, r.bit) => w \in GoodUsers
      BY <1>1, <1>4 DEF ValueGood, Has
    <2>3. Has(m, r.bit) => e \in WireEntries /\ EntrySize(e) = 1 + MessageSize(ByteSizeUser(w))
      BY <1>1, <2>2, UserEntrySize
    <2> HIDE DEF e
    <2> QED BY <2>1, <2>3, BytesAre
  <1>5. CASE r.type = "users"
    <2> DEFINE s == [j \in 1..Len(w) |-> Entry(r.num, "message", SerializeUser(w[j]))]
               sizes == [j \in DOMAIN w |-> 1 + MessageSize(ByteSizeUser(w[j]))]
    <2>1. /\ Wire(m, r) = IF Has(m, r.bit) THEN s ELSE <<>>
          /\ SizeOf(m, r) = IF Has(m, r.bit) THEN Total(sizes) ELSE 0
      BY <1>5 DEF Wire, SizeOf, w
    <2>2. w \in Seq(GoodUsers)
      BY <1>1, <1>5 DEF ValueGood
    <2>3. ASSUME NEW j \in 1..Len(w) PROVE EntrySize(s[j]) = 1 + MessageSize(ByteSizeUser(w[j]))
      <3>1. w[j] \in GoodUsers
        BY <2>2
      <3> QED BY <1>1, <3>1, UserEntrySize
    <2>4. DOMAIN w = 1..Len(w) /\ DOMAIN s = 1..Len(w)
      BY <2>2
    <2>5. [j \in DOMAIN s |-> EntrySize(s[j])] = sizes
      BY <2>3, <2>4
    <2>6. Bytes(s) = Total(sizes)
      BY <2>5 DEF Bytes
    <2> HIDE DEF s, sizes
    <2> QED BY <2>1, <2>6, BytesAre
  <1> QED BY <1>1, <1>2, <1>3, <1>4, <1>5 DEF Types

\* Messages with one field and with two.
LEMMA OneRowSize ==
  ASSUME NEW k \in Kinds, NEW m \in Messages(k), NEW r, Table(k) = {r}
  PROVE Bytes(Wire(m, r) \o m.unknown) = SizeOf(m, r) + UnknownSize(m)
  <1>1. Wire(m, r) \in Seq(WireEntries) /\ m.unknown \in Seq(WireEntries)
    BY WireGood, MessageParts, UnknownAreEntries, FlatIsWire DEF EntriesOf
  <1>2. Bytes(Wire(m, r)) = SizeOf(m, r)
    BY RowSize
  <1> QED BY <1>1, <1>2, BytesAre DEF UnknownSize

LEMMA TwoRowsSize ==
  ASSUME NEW k \in Kinds, NEW m \in Messages(k), NEW r, NEW q, Table(k) = {r, q}
  PROVE Bytes(Wire(m, r) \o Wire(m, q) \o m.unknown) = SizeOf(m, r) + SizeOf(m, q) + UnknownSize(m)
  <1>0. r \in Table(k) /\ q \in Table(k)
    OBVIOUS
  <1>1. /\ Wire(m, r) \in Seq(WireEntries) /\ Wire(m, q) \in Seq(WireEntries)
        /\ m.unknown \in Seq(WireEntries)
    BY <1>0, WireGood, MessageParts, UnknownAreEntries, FlatIsWire DEF EntriesOf
  <1>2. Bytes(Wire(m, r)) = SizeOf(m, r) /\ Bytes(Wire(m, q)) = SizeOf(m, q)
    BY <1>0, RowSize
  <1> DEFINE s == Wire(m, r) \o Wire(m, q)
  <1>3. s \in Seq(WireEntries) /\ Bytes(s) = SizeOf(m, r) + SizeOf(m, q)
    BY <1>1, <1>2, BytesAre
  <1>4. Bytes(s \o m.unknown) = Bytes(s) + Bytes(m.unknown)
    <2> HIDE DEF s
    <2> QED BY <1>1, <1>3, BytesAre
  <1> QED BY <1>3, <1>4 DEF UnknownSize

\* Any message has the size that its ByteSizeLong() announces.
LEMMA SizeGood ==
  ASSUME NEW k \in Kinds, NEW m \in Messages(k)
  PROVE ByteSize(k, m) = Bytes(Serialize(k, m))
  <1>1. CASE k = "User"
    BY <1>1, UserIsMessage, UserSize DEF ByteSize, Serialize
  <1>2. CASE k = "GetStatsRequest"
    BY <1>2 DEF ByteSize, Serialize, UnknownSize
  <1>3. CASE k = "CreateUserRequest"
    <2> DEFINE r == RowIs(1, "text", 1, "name")
               q == RowIs(2, "text", 2, "email")
    <2>1. Serialize(k, m) = SerializeCreateUserRequest(m) /\ ByteSize(k, m) = ByteSizeCreateUserRequest(m)
      BY <1>3 DEF Serialize, ByteSize
    <2>2. Table(k) = {r, q}
      BY <1>3, CreateUserRequestRows
    <2>3. SerializeCreateUserRequest(m) = Wire(m, r) \o Wire(m, q) \o m.unknown
      BY DEF SerializeCreateUserRequest, Wire, RowIs
    <2>4. ByteSizeCreateUserRequest(m) = SizeOf(m, r) + SizeOf(m, q) + UnknownSize(m)
      BY DEF ByteSizeCreateUserRequest, SizeOf, RowIs
    <2> HIDE DEF r, q
    <2> QED BY <2>1, <2>2, <2>3, <2>4, TwoRowsSize
  <1>4. CASE k = "CreateUserReply"
    <2> DEFINE r == RowIs(1, "user", 1, "user")
    <2>1. Serialize(k, m) = SerializeCreateUserReply(m) /\ ByteSize(k, m) = ByteSizeCreateUserReply(m)
      BY <1>4 DEF Serialize, ByteSize
    <2>2. Table(k) = {r}
      BY <1>4, CreateUserReplyRows
    <2>3. SerializeCreateUserReply(m) = Wire(m, r) \o m.unknown
      BY DEF SerializeCreateUserReply, Wire, RowIs
    <2>4. ByteSizeCreateUserReply(m) = SizeOf(m, r) + UnknownSize(m)
      BY DEF ByteSizeCreateUserReply, SizeOf, RowIs
    <2> HIDE DEF r
    <2> QED BY <2>1, <2>2, <2>3, <2>4, OneRowSize
  <1>5. CASE k = "GetUserRequest"
    <2> DEFINE r == RowIs(1, "text", 1, "id")
    <2>1. Serialize(k, m) = SerializeGetUserRequest(m) /\ ByteSize(k, m) = ByteSizeGetUserRequest(m)
      BY <1>5 DEF Serialize, ByteSize
    <2>2. Table(k) = {r}
      BY <1>5, GetUserRequestRows
    <2>3. SerializeGetUserRequest(m) = Wire(m, r) \o m.unknown
      BY DEF SerializeGetUserRequest, Wire, RowIs
    <2>4. ByteSizeGetUserRequest(m) = SizeOf(m, r) + UnknownSize(m)
      BY DEF ByteSizeGetUserRequest, SizeOf, RowIs
    <2> HIDE DEF r
    <2> QED BY <2>1, <2>2, <2>3, <2>4, OneRowSize
  <1>6. CASE k = "GetUserReply"
    <2> DEFINE r == RowIs(1, "user", 1, "user")
    <2>1. Serialize(k, m) = SerializeGetUserReply(m) /\ ByteSize(k, m) = ByteSizeGetUserReply(m)
      BY <1>6 DEF Serialize, ByteSize
    <2>2. Table(k) = {r}
      BY <1>6, GetUserReplyRows
    <2>3. SerializeGetUserReply(m) = Wire(m, r) \o m.unknown
      BY DEF SerializeGetUserReply, Wire, RowIs
    <2>4. ByteSizeGetUserReply(m) = SizeOf(m, r) + UnknownSize(m)
      BY DEF ByteSizeGetUserReply, SizeOf, RowIs
    <2> HIDE DEF r
    <2> QED BY <2>1, <2>2, <2>3, <2>4, OneRowSize
  <1>7. CASE k = "ListUsersRequest"
    <2> DEFINE r == RowIs(1, "int32", 1, "limit")
               q == RowIs(2, "int32", 2, "offset")
    <2>1. Serialize(k, m) = SerializeListUsersRequest(m) /\ ByteSize(k, m) = ByteSizeListUsersRequest(m)
      BY <1>7 DEF Serialize, ByteSize
    <2>2. Table(k) = {r, q}
      BY <1>7, ListUsersRequestRows
    <2>3. SerializeListUsersRequest(m) = Wire(m, r) \o Wire(m, q) \o m.unknown
      BY DEF SerializeListUsersRequest, Wire, RowIs
    <2>4. ByteSizeListUsersRequest(m) = SizeOf(m, r) + SizeOf(m, q) + UnknownSize(m)
      BY DEF ByteSizeListUsersRequest, SizeOf, RowIs
    <2> HIDE DEF r, q
    <2> QED BY <2>1, <2>2, <2>3, <2>4, TwoRowsSize
  <1>8. CASE k = "ListUsersReply"
    <2> DEFINE r == RowIs(1, "users", 1, "users")
               q == RowIs(2, "int64", 2, "total")
    <2>1. Serialize(k, m) = SerializeListUsersReply(m) /\ ByteSize(k, m) = ByteSizeListUsersReply(m)
      BY <1>8 DEF Serialize, ByteSize
    <2>2. Table(k) = {r, q}
      BY <1>8, ListUsersReplyRows
    <2>3. SerializeListUsersReply(m) = Wire(m, r) \o Wire(m, q) \o m.unknown
      BY DEF SerializeListUsersReply, Wire, RowIs
    <2>4. ByteSizeListUsersReply(m) = SizeOf(m, r) + SizeOf(m, q) + UnknownSize(m)
      BY DEF ByteSizeListUsersReply, SizeOf, RowIs
    <2> HIDE DEF r, q
    <2> QED BY <2>1, <2>2, <2>3, <2>4, TwoRowsSize
  <1>9. CASE k = "GetStatsReply"
    <2> DEFINE r == RowIs(1, "int64", 1, "total_users")
               q == RowIs(2, "int64", 2, "request_count")
    <2>1. Serialize(k, m) = SerializeGetStatsReply(m) /\ ByteSize(k, m) = ByteSizeGetStatsReply(m)
      BY <1>9 DEF Serialize, ByteSize
    <2>2. Table(k) = {r, q}
      BY <1>9, GetStatsReplyRows
    <2>3. SerializeGetStatsReply(m) = Wire(m, r) \o Wire(m, q) \o m.unknown
      BY DEF SerializeGetStatsReply, Wire, RowIs
    <2>4. ByteSizeGetStatsReply(m) = SizeOf(m, r) + SizeOf(m, q) + UnknownSize(m)
      BY DEF ByteSizeGetStatsReply, SizeOf, RowIs
    <2> HIDE DEF r, q
    <2> QED BY <2>1, <2>2, <2>3, <2>4, TwoRowsSize
  <1> QED BY <1>1, <1>2, <1>3, <1>4, <1>5, <1>6, <1>7, <1>8, <1>9 DEF Kinds

\* The invariant: both messages are good, through all actions.
MessagesInv ==
  /\ kind \in Kinds
  /\ edited \subseteq Fields(kind)
  /\ a \in Messages(kind)
  /\ b \in Messages(kind)

LEMMA MessagesInvInit == MessagesInit => MessagesInv
  <1> SUFFICES ASSUME MessagesInit PROVE MessagesInv
    OBVIOUS
  <1>1. kind \in Kinds /\ edited \subseteq Fields(kind) /\ New(kind) \in Messages(kind)
    BY NewGood DEF MessagesInit
  <1>2. CASE a = New(kind)
    BY <1>1, <1>2 DEF MessagesInit, MessagesInv
  <1>3. CASE kind = "User" /\ a \in {FullUser(s) : s \in Samples}
    <2>1. a \in GoodUsers
      BY <1>3, SampleUsersGood DEF SampleUsers
    <2> QED BY <1>1, <1>3, <2>1, UserIsMessage DEF MessagesInit, MessagesInv
  <1> QED BY <1>2, <1>3 DEF MessagesInit

\* Each action keeps the two messages good.
LEMMA MessagesInvStays == MessagesInv /\ [MessagesNext \/ LoadJson]_messageVars => MessagesInv'
  <1> SUFFICES ASSUME MessagesInv, [MessagesNext \/ LoadJson]_messageVars PROVE MessagesInv'
    OBVIOUS
  <1> USE DEF MessagesInv
  <1>1. CASE Edit
    BY <1>1, EditsGood DEF Edit
  <1>2. CASE ClearMessage
    BY <1>2, ClearGood DEF ClearMessage
  <1>3. CASE MergeFrom
    BY <1>3, MergeGood DEF MergeFrom
  <1>4. CASE Assign
    BY <1>4, CopyFromGood DEF Assign
  <1>5. CASE Construct
    BY <1>5, CopyGood DEF Construct
  <1>6. CASE InternalSwap
    BY <1>6 DEF InternalSwap
  <1>7. CASE ReadField
    <2>1. PICK e \in Entries(kind) : a' = Read(kind, a, e)
      BY <1>7 DEF ReadField, Read
    <2> QED BY <1>7, <2>1, EntriesGood, ReadGood DEF ReadField
  <1>8. CASE Send
    BY <1>8, NewGood, SerializeGood, ParseGood DEF Send
  <1>9. CASE LoadJson
    <2>1. PICK keys \in {JsonKeys, edited} : b' = JsonToUser(Part(a, keys), NewUser)
      BY <1>9 DEF LoadJson
    <2>2. keys \subseteq JsonKeys /\ a \in GoodUsers /\ kind = "User"
      BY <1>9, <2>1, UserRows, UserIsMessage DEF LoadJson, JsonKeys
    <2>3. b' \in GoodUsers
      BY <2>1, <2>2, NewUserGood, LoadedUser
    <2> QED BY <1>9, <2>2, <2>3, UserIsMessage DEF LoadJson
  <1>10. CASE UNCHANGED messageVars
    BY <1>10 DEF messageVars
  <1> QED BY <1>1, <1>2, <1>3, <1>4, <1>5, <1>6, <1>7, <1>8, <1>9, <1>10 DEF MessagesNext

LEMMA UserHintsGood == ASSUME NEW u \in GoodUsers PROVE UserHints(u)
  <1>1. u \in Messages("User") /\ UserTable = Table("User")
    BY UserIsMessage DEF Table
  <1>2. ASSUME NEW r \in UserTable PROVE HintHolds(u, r.bit, u.val[r.field], r.type)
    <2>1. ValueGood(r.type, u.bits, r.bit, u.val[r.field])
      BY <1>1, MessageParts
    <2>2. r.type \in {"text", "int64"}
      BY <1>1, UserRows DEF RowIs
    <2>3. CASE r.type = "text"
      BY <2>1, <2>3 DEF ValueGood, TextGood, HintHolds, Has
    <2>4. CASE r.type = "int64"
      BY <2>1, <2>4 DEF ValueGood, IntGood, HintHolds, Has
    <2> QED BY <2>2, <2>3, <2>4
  <1> QED BY <1>2 DEF UserHints

\* Good messages have has-bits that can be trusted.
LEMMA HintsFollow == MessagesInv => HintsHold
  <1> SUFFICES ASSUME MessagesInv, NEW m \in {a, b}, NEW r \in Table(kind)
        PROVE LET v == m.val[r.field]
              IN  /\ HintHolds(m, r.bit, v, r.type)
                  /\ r.type = "user" /\ v # NULL =>
                       /\ UserHints(v)
                       /\ ~Has(m, r.bit) => UserContents(v) = UserContents(NewUser)
                  /\ r.type = "users" => \A j \in 1..Len(v) : UserHints(v[j])
    BY DEF HintsHold
  <1> DEFINE v == m.val[r.field]
  <1>1. ValueGood(r.type, m.bits, r.bit, v) /\ r.type \in Types
    BY MessageParts, TableKeys DEF MessagesInv
  <1> HIDE DEF v
  <1>2. CASE r.type = "text"
    BY <1>1, <1>2 DEF ValueGood, TextGood, HintHolds, Has, v
  <1>3. CASE r.type \in {"int32", "int64"}
    BY <1>1, <1>3 DEF ValueGood, IntGood, HintHolds, Has, v
  <1>4. CASE r.type = "user"
    BY <1>1, <1>4, UserHintsGood DEF ValueGood, HintHolds, Has, v
  <1>5. CASE r.type = "users"
    <2>1. v \in Seq(GoodUsers) /\ (v # <<>> => r.bit \in m.bits)
      BY <1>1, <1>5 DEF ValueGood
    <2>2. \A j \in 1..Len(v) : UserHints(v[j])
      BY <2>1, UserHintsGood
    <2> QED BY <1>5, <2>1, <2>2 DEF HintHolds, Has, v
  <1> QED BY <1>1, <1>2, <1>3, <1>4, <1>5 DEF Types

LEMMA CopiesFollow == MessagesInv => CopiesEqual
  BY CopyFromGood, SameContents DEF MessagesInv, CopiesEqual

LEMMA RoundTripFollows == MessagesInv => RoundTrip
  BY SentIsReceived, SameContents DEF MessagesInv, RoundTrip

LEMMA MergeFollows == MessagesInv => MergeIsConcatenation
  <1> SUFFICES ASSUME NEW k \in Kinds, NEW to \in Messages(k), NEW from \in Messages(k)
               PROVE Contents(k, Merge(k, to, from)) =
                       Contents(k, Parse(k, New(k), Serialize(k, to) \o Serialize(k, from)))
    BY DEF MessagesInv, MergeIsConcatenation
  <1> DEFINE n == Parse(k, New(k), Serialize(k, to))
             s == Serialize(k, to) \o Serialize(k, from)
  <1>1. n \in Messages(k) /\ SameMessage(k, n, to)
    BY SentIsReceived
  <1>2. New(k) \in Messages(k) /\ Serialize(k, to) \in Seq(EntriesOf(k)) /\ Serialize(k, from) \in Seq(EntriesOf(k))
    BY NewGood, SerializeGood
  <1>3. Parse(k, New(k), s) = Parse(k, n, Serialize(k, from))
    BY <1>2, ParseConcat
  <1> HIDE DEF n, s
  <1>4. Joins(k, Parse(k, New(k), s), n, from)
    BY <1>1, <1>3, SerializeCarries DEF Carries
  <1>5. Joins(k, Merge(k, to, from), to, from)
    BY MergeGood
  <1>6. SameMessage(k, Merge(k, to, from), Parse(k, New(k), s))
    BY <1>1, <1>4, <1>5 DEF SameMessage, Joins
  <1> QED BY <1>6, SameContents DEF s

LEMMA SizeFollows == MessagesInv => SizeFits
  BY SizeGood DEF MessagesInv, SizeFits

LEMMA JsonFollows == MessagesInv => JsonCarriesUser
  <1> SUFFICES ASSUME MessagesInv, kind = "User", NEW keys \in SUBSET JsonKeys
               PROVE LET u == JsonToUser(Part(a, keys), b)
                     IN  \A f \in JsonKeys :
                           UserContents(ParseUser(NewUser, SerializeUser(u)))[f] =
                             UserContents(IF f \in keys THEN a ELSE NewUser)[f]
    BY DEF JsonCarriesUser
  <1> DEFINE u == JsonToUser(Part(a, keys), b)
  <1>1. a \in GoodUsers /\ b \in GoodUsers
    BY UserIsMessage DEF MessagesInv
  <1>2. /\ u \in GoodUsers
        /\ \A f \in JsonKeys : UserContents(u)[f] = UserContents(IF f \in keys THEN a ELSE NewUser)[f]
    BY <1>1, LoadedUser
  <1> HIDE DEF u
  <1>3. UserContents(ParseUser(NewUser, SerializeUser(u))) = UserContents(u)
    BY <1>2, NewUserGood, ReadUser, JoinedWithNew
  <1> QED BY <1>2, <1>3 DEF u

LEMMA MessagesInvAlways == FormatsSpec => []MessagesInv
  <1>1. FormatsInit => MessagesInv
    BY MessagesInvInit DEF FormatsInit
  <1>2. MessagesInv /\ [FormatsNext]_<<messageVars, configVars>> => MessagesInv'
    <2>1. [FormatsNext]_<<messageVars, configVars>> => [MessagesNext \/ LoadJson]_messageVars
      BY DEF FormatsNext, messageVars
    <2> QED BY <2>1, MessagesInvStays
  <1> QED BY <1>1, <1>2, PTL DEF FormatsSpec

\* The has-bits can be trusted after any sequence of edits, merges, copies,
\* swaps, parses and loads, for all texts and ints and lists of any length: no
\* method skips a value, and none writes to the string that all messages share.
THEOREM HintsCanBeTrusted == FormatsSpec => []HintsHold
  BY MessagesInvAlways, HintsFollow, PTL

\* After an assignment a message has the contents of the other one, whatever
\* it held before.
THEOREM AssignmentsCopy == FormatsSpec => []CopiesEqual
  BY MessagesInvAlways, CopiesFollow, PTL

\* The size that a message announces is the number of bytes that it writes, so
\* that the serializer never writes past the end of its buffer, for texts of any
\* length, lists of any length and any unknown fields.
THEOREM SizesFit == FormatsSpec => []SizeFits
  BY MessagesInvAlways, SizeFollows, PTL

\* What one process sends another one receives: a good message, of any type and
\* with unknown fields, is read from its bytes with what its getters returned.
THEOREM MessagesArrive == FormatsSpec => []RoundTrip
  BY MessagesInvAlways, RoundTripFollows, PTL

\* Merging a message is the same as reading its bytes after those of the other.
THEOREM MergesConcatenate == FormatsSpec => []MergeIsConcatenation
  BY MessagesInvAlways, MergeFollows, PTL

\* The JSON of a user, or a part of it, fills any other user with what it has
\* and empties the rest, and so the user is when it has been sent on.
THEOREM JsonIsTheUser == FormatsSpec => []JsonCarriesUser
  BY MessagesInvAlways, JsonFollows, PTL

=============================================================================
