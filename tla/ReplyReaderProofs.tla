-------------------------- MODULE ReplyReaderProofs --------------------------
(* Theorems about the reader of replies, for all replies, streams, ways to   *)
(* cut them and failures of an allocation: no object is lost or freed twice, *)
(* the replies handed out are those that were sent, and an error of the      *)
(* protocol is one.                                                          *)
EXTENDS ReplyReader, SequenceTheorems, WellFoundedInduction, TLAPS

-----------------------------------------------------------------------------
(* The least number of a set.                                                *)

Less == {p \in Nat \X Nat : p[1] < p[2]}

LEMMA LeastNumber ==
  ASSUME NEW T \in SUBSET Nat, T # {}
  PROVE  \E m \in T : \A n \in T : m <= n
PROOF
  <1>1. IsWellFoundedOn(Less, Nat)
    BY NatLessThanWellFounded, Zenon DEF OpToRel, Less
  <1>2. \E m \in T : \A n \in T : ~(<<n, m>> \in Less)
    BY <1>1, WFMin
  <1>3. \A m, n \in Nat : <<n, m>> \notin Less => m <= n
    <2> SUFFICES ASSUME NEW m \in Nat, NEW n \in Nat, ~(m <= n)
                 PROVE  <<n, m>> \in Less
      OBVIOUS
    <2> QED
      BY DEF Less
  <1> QED
    BY <1>2, <1>3, Zenon

\* Induction, over the members of a set.
LEMMA AllNumbers ==
  ASSUME NEW S, \A n \in Nat : (\A m \in Nat : m < n => m \in S) => n \in S
  PROVE  Nat \subseteq S
PROOF
  <1> DEFINE bad == {n \in Nat : n \notin S}
  <1>1. SUFFICES ASSUME bad # {}
                 PROVE  FALSE
    OBVIOUS
  <1>2. \E n \in bad : \A m \in bad : n <= m
    <2>1. bad \in SUBSET Nat
      OBVIOUS
    <2> HIDE DEF bad
    <2> QED
      BY <1>1, <2>1, LeastNumber
  <1>3. PICK n \in bad : \A m \in bad : n <= m
    BY <1>2
  <1>4. \A m \in Nat : m < n => m \in S
    BY <1>3
  <1> QED
    BY <1>3, <1>4

-----------------------------------------------------------------------------
(* What the recursive functions on replies compute.                          *)

Elems(f, r) == [i \in DOMAIN r.elems |-> f[r.elems[i]]]

WireStep(r, ws) ==
  CASE r.type = "status"  -> <<TypeByte("+"), Line(r.s)>>
    [] r.type = "error"   -> <<TypeByte("-"), Line(r.s)>>
    [] r.type = "integer" -> <<TypeByte(":"), Line(r.s)>>
    [] r.type = "string"  -> <<TypeByte("$"), Number(Size(r.s)), Body(r.s)>>
    [] r.type = "nil"     -> <<TypeByte("$"), Number(-1)>>
    [] r.type = "nilarray" -> <<TypeByte("*"), Number(-1)>>
    [] r.type = "garbage" -> <<TypeByte("?")>>
    [] OTHER -> <<TypeByte("*"), Number(Len(r.elems))>> \o FlattenSeq(ws)
PlainStep(r, ps) == Reply(IF r.type = "nilarray" THEN "nil" ELSE r.type, r.s, ps)
FitsStep(r, fs) ==
  {n \in 0 .. MaxDepth :
     /\ r.type # "garbage"
     /\ r.type \in {"array", "nilarray"} => n > 0
     /\ \A i \in DOMAIN r.elems : n - 1 \in fs[i]}

\* All three at once.
Step(r, xs) ==
  [wire  |-> WireStep(r, [i \in DOMAIN r.elems |-> xs[i].wire]),
   plain |-> PlainStep(r, [i \in DOMAIN r.elems |-> xs[i].plain]),
   fits  |-> FitsStep(r, [i \in DOMAIN r.elems |-> xs[i].fits])]

Low(n) == {r \in Replies : Height[r] < n}
StepsBelow(n, f) == f = [r \in Low(n) |-> Step(r, Elems(f, r))]

\* The elements of a reply are replies, of less height.
LEMMA ElementsAreLower ==
  ASSUME NEW r \in Replies, NEW i \in DOMAIN r.elems
  PROVE  /\ r.elems[i] \in Replies /\ Height[r] \in Nat /\ Height[r.elems[i]] \in Nat
         /\ Height[r.elems[i]] < Height[r]
PROOF
  <1>1. r.elems \in Seq(Replies)
    BY WireAssumption
  <1>2. r.elems[i] \in Replies
    BY <1>1, LenProperties, ElementOfSeq
  <1> QED
    BY <1>2, WireAssumption

\* Functions that agree on the elements of a reply agree on the step.
LEMMA SameElems ==
  ASSUME NEW f, NEW g, NEW r \in Replies, \A i \in DOMAIN r.elems : f[r.elems[i]] = g[r.elems[i]]
  PROVE  Elems(f, r) = Elems(g, r)
BY DEF Elems

LEMMA StepsExist ==
  ASSUME NEW n \in Nat
  PROVE  \E f : StepsBelow(n, f)
PROOF
  <1> DEFINE S == {m \in Nat : \E f : StepsBelow(m, f)}
  <1>1. ASSUME NEW m \in Nat, \A k \in Nat : k < m => k \in S
        PROVE  m \in S
    <2>1. CASE m = 0
      <3>1. Low(0) = {}
        BY WireAssumption DEF Low
      <3>2. StepsBelow(0, [r \in Low(0) |-> {}])
        BY <3>1 DEF StepsBelow
      <3> QED
        BY <2>1, <3>2
    <2>2. CASE m # 0
      <3>1. m - 1 \in S
        BY <1>1, <2>2
      <3>2. PICK f : StepsBelow(m - 1, f)
        BY <3>1
      <3> DEFINE g == [r \in Low(m) |-> Step(r, Elems(f, r))]
      <3>3. ASSUME NEW r \in Low(m)
            PROVE  Elems(f, r) = Elems(g, r)
        <4>1. r \in Replies /\ Height[r] < m
          BY DEF Low
        <4>2. ASSUME NEW i \in DOMAIN r.elems
              PROVE  f[r.elems[i]] = g[r.elems[i]]
          <5>1. r.elems[i] \in Low(m - 1) /\ r.elems[i] \in Low(m)
            BY <4>1, ElementsAreLower DEF Low
          <5> QED
            BY <3>2, <5>1 DEF StepsBelow
        <4> HIDE DEF g
        <4> QED
          BY <4>1, <4>2, SameElems
      <3>4. StepsBelow(m, g)
        BY <3>3 DEF StepsBelow
      <3> QED
        BY <3>4
    <2> QED
      BY <2>1, <2>2
  <1>2. Nat \subseteq S
    <2> HIDE DEF S
    <2> QED
      BY <1>1, AllNumbers
  <1> QED
    BY <1>2

LEMMA StepsAgree ==
  ASSUME NEW m \in Nat, NEW n \in Nat, NEW f, NEW g,
         StepsBelow(m, f), StepsBelow(n, g),
         NEW r \in Low(m), r \in Low(n)
  PROVE  f[r] = g[r]
PROOF
  <1> DEFINE S == {k \in Nat : \A x \in Low(m) \cap Low(n) : Height[x] = k => f[x] = g[x]}
  <1>1. ASSUME NEW k \in Nat, \A j \in Nat : j < k => j \in S
        PROVE  k \in S
    <2> SUFFICES ASSUME NEW x \in Low(m) \cap Low(n), Height[x] = k
                 PROVE  f[x] = g[x]
      OBVIOUS
    <2>1. ASSUME NEW i \in DOMAIN x.elems
          PROVE  f[x.elems[i]] = g[x.elems[i]]
      <3>1. x.elems[i] \in Low(m) \cap Low(n) /\ Height[x.elems[i]] \in Nat
            /\ Height[x.elems[i]] < k
        BY ElementsAreLower DEF Low
      <3> QED
        BY <1>1, <3>1
    <2>2. Elems(f, x) = Elems(g, x)
      BY <2>1, SameElems DEF Low
    <2> QED
      BY <2>2 DEF StepsBelow
  <1>2. Nat \subseteq S
    <2> HIDE DEF S
    <2> QED
      BY <1>1, AllNumbers
  <1>3. Height[r] \in S
    BY <1>2, WireAssumption DEF Low
  <1> QED
    BY <1>3

LEMMA Trees == \E t : t = [r \in Replies |-> Step(r, Elems(t, r))]
PROOF
  <1> DEFINE F(n) == CHOOSE f : StepsBelow(n, f)
             t == [r \in Replies |-> F(Height[r] + 1)[r]]
  <1>1. ASSUME NEW n \in Nat
        PROVE  StepsBelow(n, F(n))
    BY StepsExist
  <1> HIDE DEF F
  <1>2. ASSUME NEW r \in Replies
        PROVE  t[r] = Step(r, Elems(t, r))
    <2> DEFINE n == Height[r] + 1
    <2>1. n \in Nat /\ r \in Low(n)
      BY WireAssumption DEF Low
    <2>2. F(n)[r] = Step(r, Elems(F(n), r))
      <3>1. F(n) = [x \in Low(n) |-> Step(x, Elems(F(n), x))]
        BY <1>1, <2>1 DEF StepsBelow
      <3> HIDE DEF n
      <3> QED
        BY <2>1, <3>1
    <2>3. ASSUME NEW i \in DOMAIN r.elems
          PROVE  t[r.elems[i]] = F(n)[r.elems[i]]
      <3> DEFINE e == r.elems[i]
                 k == Height[e] + 1
      <3>1. e \in Replies /\ k \in Nat /\ e \in Low(k) /\ e \in Low(n)
        BY ElementsAreLower DEF Low
      <3>2. t[e] = F(k)[e]
        BY <3>1
      <3> HIDE DEF e, k, n, t
      <3>3. F(k)[e] = F(n)[e]
        BY <1>1, <2>1, <3>1, StepsAgree
      <3> QED
        BY <3>2, <3>3 DEF e
    <2>4. Elems(t, r) = Elems(F(n), r)
      <3> HIDE DEF t, n
      <3> QED
        BY <2>3, SameElems
    <2> QED
      BY <2>2, <2>4
  <1> QED
    <2>1. t = [r \in Replies |-> t[r]]
      OBVIOUS
    <2> HIDE DEF t
    <2> QED
      BY <1>2, <2>1

LEMMA WireIs ==
  /\ DOMAIN Wire = Replies
  /\ \A r \in Replies : Wire[r] = WireStep(r, Elems(Wire, r))
PROOF
  <1>1. PICK t : t = [r \in Replies |-> Step(r, Elems(t, r))]
    BY Trees
  <1> DEFINE w == [r \in Replies |-> t[r].wire]
             Is(f) == f = [r \in Replies |-> WireStep(r, Elems(f, r))]
  <1>2. ASSUME NEW r \in Replies
        PROVE  t[r].wire = WireStep(r, Elems(w, r))
    <2>1. t[r] = Step(r, Elems(t, r))
      BY <1>1
    <2>2. [i \in DOMAIN r.elems |-> Elems(t, r)[i].wire] = Elems(w, r)
      BY ElementsAreLower DEF Elems
    <2> QED
      BY <2>1, <2>2 DEF Step
  <1>3. Is(w)
    BY <1>2
  <1>4. Wire = CHOOSE f : Is(f)
    BY DEF Wire, WireStep, Elems
  <1>5. Is(Wire)
    <2> HIDE DEF Is, w
    <2> QED
      BY <1>3, <1>4, Zenon
  <1> QED
    BY <1>5

LEMMA PlainIs ==
  /\ DOMAIN Plain = Replies
  /\ \A r \in Replies : Plain[r] = PlainStep(r, Elems(Plain, r))
PROOF
  <1>1. PICK t : t = [r \in Replies |-> Step(r, Elems(t, r))]
    BY Trees
  <1> DEFINE p == [r \in Replies |-> t[r].plain]
             Is(f) == f = [r \in Replies |-> PlainStep(r, Elems(f, r))]
  <1>2. ASSUME NEW r \in Replies
        PROVE  t[r].plain = PlainStep(r, Elems(p, r))
    <2>1. t[r] = Step(r, Elems(t, r))
      BY <1>1
    <2>2. [i \in DOMAIN r.elems |-> Elems(t, r)[i].plain] = Elems(p, r)
      BY ElementsAreLower DEF Elems
    <2> QED
      BY <2>1, <2>2 DEF Step
  <1>3. Is(p)
    BY <1>2
  <1>4. Plain = CHOOSE f : Is(f)
    BY DEF Plain, PlainStep, Elems
  <1>5. Is(Plain)
    <2> HIDE DEF Is, p
    <2> QED
      BY <1>3, <1>4, Zenon
  <1> QED
    BY <1>5

LEMMA FitsIs ==
  /\ DOMAIN Fits = Replies
  /\ \A r \in Replies : Fits[r] = FitsStep(r, Elems(Fits, r))
PROOF
  <1>1. PICK t : t = [r \in Replies |-> Step(r, Elems(t, r))]
    BY Trees
  <1> DEFINE p == [r \in Replies |-> t[r].fits]
             Is(f) == f = [r \in Replies |->
               {n \in 0 .. MaxDepth :
                  /\ r.type # "garbage"
                  /\ r.type \in {"array", "nilarray"} => n > 0
                  /\ \A i \in DOMAIN r.elems : n - 1 \in f[r.elems[i]]}]
  <1>2. ASSUME NEW r \in Replies
        PROVE  t[r].fits = FitsStep(r, Elems(p, r))
    <2>1. t[r] = Step(r, Elems(t, r))
      BY <1>1
    <2>2. [i \in DOMAIN r.elems |-> Elems(t, r)[i].fits] = Elems(p, r)
      BY ElementsAreLower DEF Elems
    <2> QED
      BY <2>1, <2>2 DEF Step
  <1>3. ASSUME NEW f
        PROVE  Is(f) <=> f = [r \in Replies |-> FitsStep(r, Elems(f, r))]
    BY DEF FitsStep, Elems
  <1>4. Is(p)
    <2>1. p = [r \in Replies |-> FitsStep(r, Elems(p, r))]
      BY <1>2
    <2> HIDE DEF p, Is
    <2> QED
      BY <1>3, <2>1
  <1>5. Fits = CHOOSE f : Is(f)
    BY DEF Fits
  <1>6. Is(Fits)
    <2> HIDE DEF Is, p
    <2> QED
      BY <1>4, <1>5, Zenon
  <1> HIDE DEF Is
  <1>7. Fits = [r \in Replies |-> FitsStep(r, Elems(Fits, r))]
    BY <1>3, <1>6
  <1> QED
    BY <1>7

-----------------------------------------------------------------------------
(* What is added up along a sequence: sizes, and sequences that are joined.  *)

Chained(n, X, x, step, f) ==
  f \in [0 .. n -> X] /\ f[0] = x /\ \A i \in 1 .. n : f[i] = step[i][f[i - 1]]

LEMMA Chain ==
  ASSUME NEW n \in Nat, NEW X, NEW x \in X, NEW step \in [1 .. n -> [X -> X]]
  PROVE  \E f : Chained(n, X, x, step, f)
PROOF
  <1> DEFINE Is(m, f) == Chained(m, X, x, step, f)
             S == {m \in Nat : m <= n => \E f : Is(m, f)}
  <1>1. ASSUME NEW m \in Nat, \A k \in Nat : k < m => k \in S
        PROVE  m \in S
    <2> SUFFICES ASSUME m <= n
                 PROVE  \E f : Is(m, f)
      OBVIOUS
    <2>1. CASE m = 0
      <3>1. [i \in 0 .. 0 |-> x] \in [0 .. 0 -> X] /\ [i \in 0 .. 0 |-> x][0] = x
        OBVIOUS
      <3>2. 1 .. 0 = {}
        OBVIOUS
      <3>3. Is(0, [i \in 0 .. 0 |-> x])
        BY <3>1, <3>2 DEF Chained
      <3> QED
        BY <2>1, <3>3
    <2>2. CASE m # 0
      <3>1. m - 1 \in Nat /\ m - 1 < m /\ m - 1 <= n /\ m \in 1 .. n
        BY <2>2
      <3>2. PICK f : Is(m - 1, f)
        BY <1>1, <3>1
      <3> DEFINE g == [i \in 0 .. m |-> IF i = m THEN step[m][f[m - 1]] ELSE f[i]]
      <3>3. f[m - 1] \in X /\ step[m][f[m - 1]] \in X
        BY <3>1, <3>2 DEF Chained
      <3>4. g \in [0 .. m -> X] /\ g[0] = x /\ g[m] = step[m][g[m - 1]]
        BY <2>2, <3>2, <3>3 DEF Chained
      <3>5. ASSUME NEW i \in 1 .. m
            PROVE  g[i] = step[i][g[i - 1]]
        <4>1. CASE i = m
          BY <3>4, <4>1
        <4>2. CASE i # m
          <5>1. i \in 1 .. m - 1 /\ i \in 0 .. m /\ i - 1 \in 0 .. m /\ i - 1 # m
            BY <4>2
          <5>2. g[i] = f[i] /\ g[i - 1] = f[i - 1]
            BY <4>2, <5>1
          <5> QED
            BY <3>2, <5>1, <5>2 DEF Chained
        <4> QED
          BY <4>1, <4>2
      <3>6. Is(m, g)
        BY <3>4, <3>5 DEF Chained
      <3> QED
        BY <3>6
    <2> QED
      BY <2>1, <2>2
  <1>2. n \in S
    <2> HIDE DEF S
    <2> QED
      BY <1>1, AllNumbers
  <1> QED
    BY <1>2

LEMMA SizeIsNatural ==
  ASSUME NEW s \in Seq(Pieces)
  PROVE  Size(s) \in Nat
PROOF
  <1> DEFINE n == Len(s)
             step == [i \in 1 .. n |-> [k \in Nat |-> k + Width[s[i]]]]
             Is(f) == f = [i \in 0 .. n |-> IF i = 0 THEN 0 ELSE f[i - 1] + Width[s[i]]]
             d == CHOOSE f : Is(f)
  <1>1. n \in Nat /\ \A i \in 1 .. n : Width[s[i]] \in Nat
    BY LenProperties, ElementOfSeq, WireAssumption
  <1>2. step \in [1 .. n -> [Nat -> Nat]]
    BY <1>1
  <1>3. \E f : Chained(n, Nat, 0, step, f)
    <2> HIDE DEF step, n
    <2> QED
      BY <1>1, <1>2, Chain
  <1>4. PICK f \in [0 .. n -> Nat] : f[0] = 0 /\ \A i \in 1 .. n : f[i] = step[i][f[i - 1]]
    BY <1>3 DEF Chained
  <1>5. Is(f)
    <2>1. ASSUME NEW i \in 1 .. n
          PROVE  f[i] = f[i - 1] + Width[s[i]]
      <3>1. f[i - 1] \in Nat
        BY <1>1, SMTT(30)
      <3> QED
        BY <1>4, <3>1
    <2> QED
      BY <1>1, <1>4, <2>1
  <1>6. Is(d)
    <2> HIDE DEF Is
    <2> QED
      BY <1>5, Zenon
  <1> DEFINE S == {i \in Nat : i <= n => d[i] \in Nat}
  <1>7. ASSUME NEW i \in Nat, \A k \in Nat : k < i => k \in S
        PROVE  i \in S
    <2> SUFFICES ASSUME i <= n
                 PROVE  d[i] \in Nat
      OBVIOUS
    <2>1. CASE i = 0
      <3>1. 0 \in 0 .. n
        BY <1>1
      <3>2. d[0] = 0
        BY <1>6, <3>1
      <3> QED
        BY <2>1, <3>2
    <2>2. CASE i # 0
      <3>1. i - 1 \in Nat /\ i - 1 < i /\ i - 1 <= n /\ i \in 1 .. n /\ i \in 0 .. n
        BY <1>1, <2>2
      <3>2. d[i - 1] \in Nat
        BY <1>7, <3>1
      <3>3. d[i] = d[i - 1] + Width[s[i]]
        BY <1>6, <2>2, <3>1
      <3> QED
        BY <1>1, <3>1, <3>2, <3>3
    <2> QED
      BY <2>1, <2>2
  <1>8. n \in S
    <2> HIDE DEF S
    <2> QED
      BY <1>1, <1>7, AllNumbers
  <1>9. Size(s) = d[n]
    BY DEF Size
  <1> QED
    BY <1>1, <1>8, <1>9

\* FlattenSeq joins one sequence after the other.
LEMMA FlattenJoins ==
  ASSUME NEW T, NEW ss \in Seq(Seq(T))
  PROVE  \E pre \in [0 .. Len(ss) -> Seq(T)] :
           /\ pre[0] = <<>> /\ \A i \in 1 .. Len(ss) : pre[i] = pre[i - 1] \o ss[i]
           /\ FlattenSeq(ss) = pre[Len(ss)]
PROOF
  <1> DEFINE n == Len(ss)
             step == [i \in 1 .. n |-> [q \in Seq(T) |-> q \o ss[i]]]
             Is(f) == f = [i \in 1 .. n |-> IF i = 1 THEN ss[i] ELSE f[i - 1] \o ss[i]]
             d == CHOOSE f : Is(f)
  <1>1. n \in Nat /\ \A i \in 1 .. n : ss[i] \in Seq(T)
    BY LenProperties, ElementOfSeq
  <1>2. step \in [1 .. n -> [Seq(T) -> Seq(T)]] /\ <<>> \in Seq(T)
    BY <1>1, ConcatProperties, EmptySeq
  <1>3. \E f : Chained(n, Seq(T), <<>>, step, f)
    <2> HIDE DEF step, n
    <2> QED
      BY <1>1, <1>2, Chain
  <1>4. PICK pre \in [0 .. n -> Seq(T)] :
               pre[0] = <<>> /\ \A i \in 1 .. n : pre[i] = step[i][pre[i - 1]]
    BY <1>3 DEF Chained
  <1>5. ASSUME NEW i \in 1 .. n
        PROVE  pre[i] = pre[i - 1] \o ss[i]
    <2>1. pre[i - 1] \in Seq(T)
      <3> HIDE DEF n
      <3>1. i - 1 \in 0 .. n
        BY <1>1
      <3> QED
        BY <1>4, <3>1
    <2> QED
      BY <1>4, <2>1
  <1>6. CASE n = 0
    <2>1. FlattenSeq(ss) = ss /\ ss = <<>>
      BY <1>6, EmptySeq DEF FlattenSeq
    <2> QED
      BY <1>4, <1>5, <1>6, <2>1
  <1>7. CASE n # 0
    <2> DEFINE f == [i \in 1 .. n |-> pre[i]]
    <2>1. ASSUME NEW i \in 1 .. n
          PROVE  f[i] = IF i = 1 THEN ss[i] ELSE f[i - 1] \o ss[i]
      <3>1. CASE i = 1
        <4>1. pre[1] = <<>> \o ss[1]
          <5>1. 1 \in 1 .. n /\ 1 - 1 = 0
            BY <3>1
          <5> QED
            BY <1>4, <1>5, <5>1
        <4> QED
          BY <1>1, <3>1, <4>1, ConcatEmptySeq
      <3>2. CASE i # 1
        <4>1. i - 1 \in 1 .. n
          BY <3>2
        <4> QED
          BY <1>5, <3>2, <4>1
      <3> QED
        BY <3>1, <3>2
    <2>2. Is(f)
      <3>1. f = [i \in 1 .. n |-> f[i]]
        OBVIOUS
      <3> HIDE DEF f
      <3> QED
        BY <2>1, <3>1
    <2>3. Is(d)
      <3> HIDE DEF Is, f
      <3> QED
        BY <2>2, Zenon
    <2> HIDE DEF d
    <2> DEFINE S == {i \in Nat : i \in 1 .. n => d[i] = pre[i]}
    <2>4. ASSUME NEW i \in Nat, \A k \in Nat : k < i => k \in S
          PROVE  i \in S
      <3> SUFFICES ASSUME i \in 1 .. n
                   PROVE  d[i] = pre[i]
        OBVIOUS
      <3>1. d[i] = IF i = 1 THEN ss[i] ELSE d[i - 1] \o ss[i]
        BY <2>3
      <3>2. CASE i = 1
        <4>1. f[1] = ss[1] /\ f[1] = pre[1]
          BY <2>1, <3>2
        <4> QED
          BY <3>1, <3>2, <4>1
      <3>3. CASE i # 1
        <4>1. i - 1 \in 1 .. n /\ i - 1 \in Nat /\ i - 1 < i
          BY <3>3
        <4>2. d[i - 1] = pre[i - 1]
          BY <2>4, <4>1
        <4> QED
          BY <1>5, <3>1, <3>3, <4>2
      <3> QED
        BY <3>2, <3>3
    <2>5. n \in S /\ n \in 1 .. n
      <3>1. Nat \subseteq S
        <4> HIDE DEF S
        <4> QED
          BY <2>4, AllNumbers
      <3> QED
        BY <1>1, <1>7, <3>1
    <2>6. FlattenSeq(ss) = d[n]
      BY <1>7 DEF FlattenSeq, d
    <2> QED
      BY <1>4, <1>5, <2>5, <2>6
  <1> QED
    BY <1>6, <1>7

\* rest[i] is what is left of the joined sequences after the first i of them.
Leaves(T, ss, rest) ==
  /\ rest \in [0 .. Len(ss) -> Seq(T)]
  /\ rest[0] = FlattenSeq(ss) /\ rest[Len(ss)] = <<>>
  /\ \A i \in 1 .. Len(ss) : rest[i - 1] = ss[i] \o rest[i]

LEMMA SomethingIsLeft ==
  ASSUME NEW T, NEW ss \in Seq(Seq(T))
  PROVE  \E rest : Leaves(T, ss, rest)
PROOF
  <1> DEFINE n == Len(ss)
             step == [i \in 1 .. n |-> [q \in Seq(T) |-> ss[n + 1 - i] \o q]]
  <1>1. n \in Nat /\ \A i \in 1 .. n : ss[i] \in Seq(T)
    BY LenProperties, ElementOfSeq
  <1>2. step \in [1 .. n -> [Seq(T) -> Seq(T)]] /\ <<>> \in Seq(T)
    <2>1. ASSUME NEW i \in 1 .. n
          PROVE  n + 1 - i \in 1 .. n
      BY <1>1
    <2> QED
      BY <1>1, <2>1, ConcatProperties, EmptySeq
  <1>3. \E f : Chained(n, Seq(T), <<>>, step, f)
    <2> HIDE DEF step, n
    <2> QED
      BY <1>1, <1>2, Chain
  <1>4. PICK f \in [0 .. n -> Seq(T)] :
               f[0] = <<>> /\ \A i \in 1 .. n : f[i] = step[i][f[i - 1]]
    BY <1>3 DEF Chained
  <1> DEFINE rest == [i \in 0 .. n |-> f[n - i]]
  <1>5. rest \in [0 .. n -> Seq(T)] /\ rest[n] = <<>>
    <2>1. \A i \in 0 .. n : n - i \in 0 .. n
      BY <1>1
    <2> QED
      BY <1>1, <1>4, <2>1
  <1>6. ASSUME NEW i \in 1 .. n
        PROVE  rest[i - 1] = ss[i] \o rest[i]
    <2> DEFINE j == n + 1 - i
    <2>1. j \in 1 .. n /\ n + 1 - j = i /\ n - (i - 1) = j /\ n - i = j - 1
          /\ i \in 0 .. n /\ i - 1 \in 0 .. n /\ j - 1 \in 0 .. n
      BY <1>1
    <2>2. rest[i - 1] = f[j] /\ rest[i] = f[j - 1] /\ f[j - 1] \in Seq(T)
      BY <2>1
    <2>3. f[j] = step[j][f[j - 1]]
      BY <1>4, <2>1
    <2>4. step[j] = [q \in Seq(T) |-> ss[i] \o q]
      BY <2>1
    <2> HIDE DEF step, rest, j
    <2>5. f[j] = ss[i] \o f[j - 1]
      BY <2>2, <2>3, <2>4
    <2> QED
      BY <2>2, <2>5
  <1>7. PICK pre \in [0 .. n -> Seq(T)] :
               /\ pre[0] = <<>> /\ \A i \in 1 .. n : pre[i] = pre[i - 1] \o ss[i]
               /\ FlattenSeq(ss) = pre[n]
    BY FlattenJoins
  <1> HIDE DEF rest
  <1> DEFINE S == {i \in Nat : i <= n => pre[i] \o rest[i] = rest[0]}
  <1>8. ASSUME NEW i \in Nat, \A k \in Nat : k < i => k \in S
        PROVE  i \in S
    <2> SUFFICES ASSUME i <= n
                 PROVE  pre[i] \o rest[i] = rest[0]
      OBVIOUS
    <2>1. CASE i = 0
      <3>1. rest[0] \in Seq(T)
        <4>1. 0 \in 0 .. n
          BY <1>1
        <4> HIDE DEF n
        <4> QED
          BY <1>5, <4>1
      <3> QED
        BY <1>7, <2>1, <3>1, ConcatEmptySeq
    <2>2. CASE i # 0
      <3>1. i - 1 \in Nat /\ i - 1 < i /\ i - 1 <= n /\ i \in 1 .. n /\ i \in 0 .. n
            /\ i - 1 \in 0 .. n
        BY <1>1, <2>2
      <3>2. pre[i - 1] \o rest[i - 1] = rest[0]
        BY <1>8, <3>1
      <3>3. pre[i - 1] \in Seq(T) /\ rest[i] \in Seq(T) /\ ss[i] \in Seq(T)
        BY <1>1, <1>5, <1>7, <3>1
      <3>4. pre[i] \o rest[i] = pre[i - 1] \o (ss[i] \o rest[i])
        <4>1. pre[i] = pre[i - 1] \o ss[i]
          BY <1>7, <3>1
        <4>2. (pre[i - 1] \o ss[i]) \o rest[i] = pre[i - 1] \o (ss[i] \o rest[i])
          <5> DEFINE u == pre[i - 1]
                     v == rest[i]
                     w == ss[i]
          <5>1. u \in Seq(T) /\ v \in Seq(T) /\ w \in Seq(T)
            BY <3>3
          <5> HIDE DEF u, v, w
          <5>2. (u \o w) \o v = u \o (w \o v)
            BY <5>1, ConcatAssociative, SMTT(30)
          <5> QED
            BY <5>2 DEF u, v, w
        <4> QED
          BY <4>1, <4>2
      <3> QED
        BY <1>6, <3>1, <3>2, <3>4
    <2> QED
      BY <2>1, <2>2
  <1>9. pre[n] \o rest[n] = rest[0]
    <2>1. n \in S
      <3> HIDE DEF S
      <3> QED
        BY <1>1, <1>8, AllNumbers
    <2> QED
      BY <1>1, <2>1
  <1>10. pre[n] \o rest[n] = pre[n]
    BY <1>1, <1>5, ConcatEmptySeq
  <1>11. Leaves(T, ss, rest)
    BY <1>5, <1>6, <1>7, <1>9, <1>10 DEF Leaves
  <1> QED
    BY <1>11

-----------------------------------------------------------------------------
(* What travels for a reply.                                                 *)

Chars == Pieces \cup {"+", "-", ":", "$", "*", "?"}
Tokens == [t : {"type", "line", "body"}, c : Seq(Chars), n : Nat \cup {-1}]
Wires(rs) == [i \in DOMAIN rs |-> Wire[rs[i]]]

LEMMA ReplyFields ==
  ASSUME NEW r \in Replies
  PROVE  /\ r.type \in ReplyTypes /\ r.s \in Seq(Pieces) /\ r.s \in Seq(Chars)
         /\ r.elems \in Seq(Replies) /\ DOMAIN r.elems = 1 .. Len(r.elems)
         /\ Len(r.elems) \in Nat /\ \A i \in 1 .. Len(r.elems) : r.elems[i] \in Replies
         /\ r.type # "array" => r.elems = <<>>
         /\ r.type \in {"array", "nil", "nilarray"} => r.s = <<>>
PROOF
  <1>1. /\ r.type \in ReplyTypes /\ r.s \in Seq(Pieces) /\ r.elems \in Seq(Replies)
        /\ r.type # "array" => r.elems = <<>>
        /\ r.type \in {"array", "nil", "nilarray"} => r.s = <<>>
    BY WireAssumption
  <1>2. r.s \in Seq(Chars)
    <2>1. Pieces \subseteq Chars
      BY DEF Chars
    <2> HIDE DEF Pieces, Chars
    <2> QED
      BY <1>1, <2>1, SeqMonotonic
  <1>3. DOMAIN r.elems = 1 .. Len(r.elems) /\ Len(r.elems) \in Nat
        /\ \A i \in 1 .. Len(r.elems) : r.elems[i] \in Replies
    BY <1>1, LenProperties, ElementOfSeq
  <1> QED
    BY <1>1, <1>2, <1>3

\* What each reply begins with; an array goes on with its elements.
LEMMA WireBegins ==
  ASSUME NEW r \in Replies
  PROVE  /\ r.type = "status" => Wire[r] = <<TypeByte("+"), Line(r.s)>>
         /\ r.type = "error" => Wire[r] = <<TypeByte("-"), Line(r.s)>>
         /\ r.type = "integer" => Wire[r] = <<TypeByte(":"), Line(r.s)>>
         /\ r.type = "string" => Wire[r] = <<TypeByte("$"), Number(Size(r.s)), Body(r.s)>>
         /\ r.type = "nil" => Wire[r] = <<TypeByte("$"), Number(-1)>>
         /\ r.type = "nilarray" => Wire[r] = <<TypeByte("*"), Number(-1)>>
         /\ r.type = "garbage" => Wire[r] = <<TypeByte("?")>>
         /\ r.type = "array" =>
              Wire[r] = <<TypeByte("*"), Number(Len(r.elems))>> \o FlattenSeq(Wires(r.elems))
PROOF
  <1>1. Wire[r] = WireStep(r, Elems(Wire, r)) /\ Elems(Wire, r) = Wires(r.elems)
    BY WireIs DEF Elems, Wires
  <1> HIDE DEF Wire
  <1> QED
    BY <1>1 DEF WireStep

LEMMA TokensTyped ==
  /\ \A b \in Chars : TypeByte(b) \in Tokens
  /\ \A s \in Seq(Chars) : Line(s) \in Tokens
  /\ \A k \in Nat \cup {-1} : Number(k) \in Tokens
  /\ \A s \in Seq(Pieces) : Body(s) \in Tokens /\ Size(s) \in Nat
PROOF
  <1>1. \A b \in Chars : <<b>> \in Seq(Chars)
    OBVIOUS
  <1>2. \A s \in Seq(Pieces) : s \in Seq(Chars) /\ Size(s) \in Nat
    <2>1. Pieces \subseteq Chars
      BY DEF Chars
    <2> HIDE DEF Pieces, Chars, Size
    <2> QED
      BY <2>1, SeqMonotonic, SizeIsNatural
  <1>3. <<>> \in Seq(Chars)
    OBVIOUS
  <1> HIDE DEF Chars, Size
  <1> QED
    BY <1>1, <1>2, <1>3 DEF TypeByte, Line, Number, Body, Tokens

LEMMA JoinTyped ==
  ASSUME NEW T, NEW ss \in Seq(Seq(T))
  PROVE  FlattenSeq(ss) \in Seq(T)
PROOF
  <1>1. Len(ss) \in 0 .. Len(ss)
    BY LenProperties
  <1>2. PICK pre \in [0 .. Len(ss) -> Seq(T)] :
          /\ pre[0] = <<>> /\ \A i \in 1 .. Len(ss) : pre[i] = pre[i - 1] \o ss[i]
          /\ FlattenSeq(ss) = pre[Len(ss)]
    BY FlattenJoins
  <1> QED
    BY <1>1, <1>2

LEMMA WireTyped ==
  \A r \in Replies : Wire[r] \in Seq(Tokens) /\ Len(Wire[r]) >= 1
PROOF
  <1> DEFINE S == {n \in Nat : \A r \in Replies : Height[r] = n =>
                     Wire[r] \in Seq(Tokens) /\ Len(Wire[r]) >= 1}
  <1>1. ASSUME NEW n \in Nat, \A m \in Nat : m < n => m \in S
        PROVE  n \in S
    <2> SUFFICES ASSUME NEW r \in Replies, Height[r] = n
                 PROVE  Wire[r] \in Seq(Tokens) /\ Len(Wire[r]) >= 1
      OBVIOUS
    <2>1. /\ r.type \in ReplyTypes /\ r.s \in Seq(Pieces) /\ r.s \in Seq(Chars)
          /\ DOMAIN r.elems = 1 .. Len(r.elems) /\ Len(r.elems) \in Nat
      BY ReplyFields
    <2>2. CASE r.type # "array"
      <3>1. {"+", "-", ":", "$", "*", "?"} \subseteq Chars
        BY DEF Chars
      <3>2. /\ \A b \in {"+", "-", ":", "$", "*", "?"} : TypeByte(b) \in Tokens
            /\ Line(r.s) \in Tokens /\ Number(-1) \in Tokens
            /\ Number(Size(r.s)) \in Tokens /\ Body(r.s) \in Tokens
        BY <2>1, <3>1, TokensTyped
      <3> HIDE DEF Tokens
      <3>3. \A a, b, c \in Tokens : /\ <<a>> \in Seq(Tokens) /\ Len(<<a>>) = 1
                                    /\ <<a, b>> \in Seq(Tokens) /\ Len(<<a, b>>) = 2
                                    /\ <<a, b, c>> \in Seq(Tokens) /\ Len(<<a, b, c>>) = 3
        OBVIOUS
      <3>4. CASE r.type = "status"
        <4>1. Wire[r] = <<TypeByte("+"), Line(r.s)>>
          BY <3>4, WireBegins
        <4> QED
          BY <3>2, <3>3, <4>1
      <3>5. CASE r.type = "error"
        <4>1. Wire[r] = <<TypeByte("-"), Line(r.s)>>
          BY <3>5, WireBegins
        <4> QED
          BY <3>2, <3>3, <4>1
      <3>6. CASE r.type = "integer"
        <4>1. Wire[r] = <<TypeByte(":"), Line(r.s)>>
          BY <3>6, WireBegins
        <4> QED
          BY <3>2, <3>3, <4>1
      <3>7. CASE r.type = "string"
        <4>1. Wire[r] = <<TypeByte("$"), Number(Size(r.s)), Body(r.s)>>
          BY <3>7, WireBegins
        <4> QED
          BY <3>2, <3>3, <4>1
      <3>8. CASE r.type = "nil"
        <4>1. Wire[r] = <<TypeByte("$"), Number(-1)>>
          BY <3>8, WireBegins
        <4> QED
          BY <3>2, <3>3, <4>1
      <3>9. CASE r.type = "nilarray"
        <4>1. Wire[r] = <<TypeByte("*"), Number(-1)>>
          BY <3>9, WireBegins
        <4> QED
          BY <3>2, <3>3, <4>1
      <3>10. CASE r.type = "garbage"
        <4>1. Wire[r] = <<TypeByte("?")>>
          BY <3>10, WireBegins
        <4> QED
          BY <3>2, <3>3, <4>1
      <3> QED
        BY <2>1, <2>2, <3>4, <3>5, <3>6, <3>7, <3>8, <3>9, <3>10 DEF ReplyTypes
    <2>3. CASE r.type = "array"
      <3> DEFINE head == <<TypeByte("*"), Number(Len(r.elems))>>
      <3>1. Wires(r.elems) \in Seq(Seq(Tokens))
        <4>1. \A i \in 1 .. Len(r.elems) : Wire[r.elems[i]] \in Seq(Tokens)
          BY <1>1, <2>1, ElementsAreLower
        <4> QED
          BY <2>1, <4>1, IsASeq DEF Wires
      <3>2. FlattenSeq(Wires(r.elems)) \in Seq(Tokens)
        BY <3>1, JoinTyped
      <3>3. head \in Seq(Tokens) /\ Len(head) = 2
        <4>1. TypeByte("*") \in Tokens /\ Number(Len(r.elems)) \in Tokens
          BY <2>1, TokensTyped DEF Chars
        <4> HIDE DEF Tokens
        <4> QED
          BY <4>1
      <3>4. Wire[r] = head \o FlattenSeq(Wires(r.elems))
        BY <2>3, WireBegins
      <3> DEFINE more == FlattenSeq(Wires(r.elems))
      <3>5. more \in Seq(Tokens) /\ Len(more) \in Nat
        BY <3>2, LenProperties
      <3> HIDE DEF head, more, Tokens
      <3>6. head \o more \in Seq(Tokens) /\ Len(head \o more) = Len(head) + Len(more)
        BY <3>3, <3>5, ConcatProperties
      <3> QED
        BY <3>3, <3>4, <3>5, <3>6 DEF more
    <2> QED
      BY <2>2, <2>3
  <1>2. Nat \subseteq S
    <2> HIDE DEF S
    <2> QED
      BY <1>1, AllNumbers
  <1> QED
    BY <1>2, WireAssumption

LEMMA WiresTyped ==
  ASSUME NEW rs \in Seq(Replies)
  PROVE  Wires(rs) \in Seq(Seq(Tokens)) /\ Len(Wires(rs)) = Len(rs)
PROOF
  <1>1. Len(rs) \in Nat /\ DOMAIN rs = 1 .. Len(rs)
        /\ \A i \in 1 .. Len(rs) : rs[i] \in Replies
    BY LenProperties, ElementOfSeq
  <1>2. \A i \in 1 .. Len(rs) : Wire[rs[i]] \in Seq(Tokens)
    BY <1>1, WireTyped
  <1>3. Wires(rs) = [i \in 1 .. Len(rs) |-> Wire[rs[i]]]
    BY <1>1 DEF Wires
  <1> QED
    BY <1>1, <1>2, <1>3, IsASeq

-----------------------------------------------------------------------------
(* The objects as trees: the elements of an object are younger than it.      *)

Kids(os, x) == Range(os[x].elems) \ {None}
Heap(os, n) ==
  /\ n \in Nat /\ DOMAIN os = 1 .. n
  /\ \A x \in 1 .. n : \A e \in Kids(os, x) : e \in 1 .. n /\ x < e

\* Below and Value at once.
HeapStep(os, x, f) ==
  [below |-> {x} \cup UNION {f[e].below : e \in Kids(os, x)},
   value |-> Reply(os[x].type, os[x].s,
                   [i \in DOMAIN os[x].elems |->
                      IF os[x].elems[i] = None THEN None ELSE f[os[x].elems[i]].value])]

LEMMA SameHeapStep ==
  ASSUME NEW os, NEW x, NEW f, NEW g, \A e \in Kids(os, x) : f[e] = g[e]
  PROVE  HeapStep(os, x, f) = HeapStep(os, x, g)
PROOF
  <1>1. {f[e].below : e \in Kids(os, x)} = {g[e].below : e \in Kids(os, x)}
    OBVIOUS
  <1>2. \A i \in DOMAIN os[x].elems :
          os[x].elems[i] # None => os[x].elems[i] \in Kids(os, x)
    BY DEF Kids, Range
  <1>3. [i \in DOMAIN os[x].elems |->
           IF os[x].elems[i] = None THEN None ELSE f[os[x].elems[i]].value] =
        [i \in DOMAIN os[x].elems |->
           IF os[x].elems[i] = None THEN None ELSE g[os[x].elems[i]].value]
    BY <1>2
  <1> QED
    BY <1>1, <1>3 DEF HeapStep

LEMMA HeapSteps ==
  ASSUME NEW os, NEW n, Heap(os, n)
  PROVE  \E f : f = [x \in 1 .. n |-> HeapStep(os, x, f)]
PROOF
  <1> DEFINE Young(m) == {x \in 1 .. n : n - x < m}
             Is(m, f) == f = [x \in Young(m) |-> HeapStep(os, x, f)]
             S == {m \in Nat : \E f : Is(m, f)}
  <1>0. n \in Nat
    BY DEF Heap
  <1>1. ASSUME NEW m \in Nat, \A k \in Nat : k < m => k \in S
        PROVE  m \in S
    <2>1. CASE m = 0
      <3>1. Young(0) = {}
        BY <1>0
      <3>2. Is(0, [x \in Young(0) |-> {}])
        BY <3>1
      <3> QED
        BY <2>1, <3>2
    <2>2. CASE m # 0
      <3>1. m - 1 \in Nat /\ m - 1 < m
        BY <2>2
      <3>2. PICK f : Is(m - 1, f)
        BY <1>1, <3>1
      <3> DEFINE g == [x \in Young(m) |-> HeapStep(os, x, f)]
      <3>3. ASSUME NEW x \in Young(m)
            PROVE  HeapStep(os, x, f) = HeapStep(os, x, g)
        <4>1. ASSUME NEW e \in Kids(os, x)
              PROVE  f[e] = g[e]
          <5>1. e \in 1 .. n /\ x < e
            BY DEF Heap
          <5>2. e \in Young(m - 1) /\ e \in Young(m)
            BY <1>0, <5>1
          <5> QED
            BY <3>2, <5>2
        <4> HIDE DEF g
        <4> QED
          BY <4>1, SameHeapStep
      <3>4. Is(m, g)
        BY <3>3
      <3> QED
        BY <3>4
    <2> QED
      BY <2>1, <2>2
  <1>2. n \in S
    <2> HIDE DEF S
    <2> QED
      BY <1>0, <1>1, AllNumbers
  <1>3. Young(n) = 1 .. n
    BY <1>0
  <1> QED
    BY <1>2, <1>3

LEMMA BelowIs ==
  ASSUME NEW os, NEW n, Heap(os, n), NEW o \in 1 .. n
  PROVE  Below(os, o) = {o} \cup UNION {Below(os, e) : e \in Kids(os, o)}
PROOF
  <1>1. PICK f : f = [x \in 1 .. n |-> HeapStep(os, x, f)]
    BY HeapSteps
  <1> DEFINE b == [x \in 1 .. n |-> f[x].below]
             Is(g) == g = [x \in DOMAIN os |->
                             {x} \cup UNION {g[e] : e \in Range(os[x].elems) \ {None}}]
             d == CHOOSE g : Is(g)
  <1>2. \A x \in 1 .. n : \A e \in Kids(os, x) : e \in 1 .. n
    BY DEF Heap
  <1>3. ASSUME NEW x \in 1 .. n
        PROVE  b[x] = {x} \cup UNION {b[e] : e \in Kids(os, x)}
    <2>1. f[x].below = {x} \cup UNION {f[e].below : e \in Kids(os, x)}
      <3>1. f[x] = HeapStep(os, x, f)
        BY <1>1
      <3> QED
        BY <3>1 DEF HeapStep
    <2>2. {f[e].below : e \in Kids(os, x)} = {b[e] : e \in Kids(os, x)}
      BY <1>2
    <2> QED
      BY <2>1, <2>2
  <1>4. Is(b)
    <2>1. b = [x \in 1 .. n |-> b[x]]
      OBVIOUS
    <2> HIDE DEF b
    <2> QED
      BY <1>3, <2>1 DEF Heap, Kids
  <1>5. Is(d)
    <2> HIDE DEF Is, b
    <2> QED
      BY <1>4, Zenon
  <1>6. \A x \in 1 .. n : d[x] = {x} \cup UNION {d[e] : e \in Kids(os, x)}
    <2> HIDE DEF d
    <2> QED
      BY <1>5 DEF Heap, Kids
  <1>7. \A x : Below(os, x) = IF x = None THEN {} ELSE d[x]
    BY DEF Below
  <1>8. \A x \in 1 .. n : Below(os, x) = d[x]
    BY <1>7 DEF None
  <1> HIDE DEF d
  <1>9. {Below(os, e) : e \in Kids(os, o)} = {d[e] : e \in Kids(os, o)}
    BY <1>2, <1>8
  <1> QED
    BY <1>6, <1>8, <1>9

LEMMA ValueIs ==
  ASSUME NEW os, NEW n, Heap(os, n), NEW o \in 1 .. n
  PROVE  Value(os, o) =
           Reply(os[o].type, os[o].s,
                 [i \in DOMAIN os[o].elems |->
                    IF os[o].elems[i] = None THEN None ELSE Value(os, os[o].elems[i])])
PROOF
  <1>1. PICK f : f = [x \in 1 .. n |-> HeapStep(os, x, f)]
    BY HeapSteps
  <1> DEFINE v == [x \in 1 .. n |-> f[x].value]
             Is(g) == g = [x \in DOMAIN os |->
                             Reply(os[x].type, os[x].s,
                                   [i \in DOMAIN os[x].elems |->
                                      IF os[x].elems[i] = None THEN None
                                      ELSE g[os[x].elems[i]]])]
             d == CHOOSE g : Is(g)
  <1>2. \A x \in 1 .. n : \A i \in DOMAIN os[x].elems :
          os[x].elems[i] # None => os[x].elems[i] \in 1 .. n
    BY DEF Heap, Kids, Range
  <1>3. ASSUME NEW x \in 1 .. n
        PROVE  v[x] = Reply(os[x].type, os[x].s,
                            [i \in DOMAIN os[x].elems |->
                               IF os[x].elems[i] = None THEN None ELSE v[os[x].elems[i]]])
    <2>1. f[x].value = Reply(os[x].type, os[x].s,
                             [i \in DOMAIN os[x].elems |->
                                IF os[x].elems[i] = None THEN None
                                ELSE f[os[x].elems[i]].value])
      <3>1. f[x] = HeapStep(os, x, f)
        BY <1>1
      <3> QED
        BY <3>1 DEF HeapStep
    <2>2. \A i \in DOMAIN os[x].elems :
            os[x].elems[i] # None => f[os[x].elems[i]].value = v[os[x].elems[i]]
      BY <1>2
    <2>3. v[x] = f[x].value
      OBVIOUS
    <2> HIDE DEF v
    <2> QED
      BY <2>1, <2>2, <2>3
  <1>4. Is(v)
    <2>1. v = [x \in 1 .. n |-> v[x]]
      OBVIOUS
    <2> HIDE DEF v
    <2> QED
      BY <1>3, <2>1 DEF Heap
  <1>5. Is(d)
    <2> HIDE DEF Is, v
    <2> QED
      BY <1>4, Zenon
  <1>6. \A x : Value(os, x) = d[x]
    BY DEF Value
  <1> HIDE DEF d
  <1>7. o \in DOMAIN os
    BY DEF Heap
  <1>8. d[o] = Reply(os[o].type, os[o].s,
                     [i \in DOMAIN os[o].elems |->
                        IF os[o].elems[i] = None THEN None ELSE d[os[o].elems[i]]])
    BY <1>5, <1>7
  <1> HIDE DEF Is
  <1> QED
    BY <1>6, <1>8

\* Below(os, o) is the least set with o and the elements of its members.
LEMMA BelowIsLeast ==
  ASSUME NEW os, NEW n, Heap(os, n), NEW o \in 1 .. n,
         NEW S, o \in S, \A x \in S : x \in 1 .. n => Kids(os, x) \subseteq S
  PROVE  Below(os, o) \subseteq S
PROOF
  <1> DEFINE T == {k \in Nat : \A x \in S : x \in 1 .. n /\ n - x = k => Below(os, x) \subseteq S}
  <1>1. ASSUME NEW k \in Nat, \A j \in Nat : j < k => j \in T
        PROVE  k \in T
    <2> SUFFICES ASSUME NEW x \in S, x \in 1 .. n, n - x = k
                 PROVE  Below(os, x) \subseteq S
      OBVIOUS
    <2>1. Below(os, x) = {x} \cup UNION {Below(os, e) : e \in Kids(os, x)}
      BY BelowIs
    <2>2. ASSUME NEW e \in Kids(os, x)
          PROVE  Below(os, e) \subseteq S
      <3>1. n \in Nat /\ e \in 1 .. n /\ x < e /\ e \in S
        BY DEF Heap
      <3>2. n - e \in Nat /\ n - e < k
        BY <3>1
      <3> QED
        BY <1>1, <3>1, <3>2
    <2> QED
      BY <2>1, <2>2
  <1>2. Nat \subseteq T
    <2> HIDE DEF T
    <2> QED
      BY <1>1, AllNumbers
  <1>3. n - o \in Nat
    BY DEF Heap
  <1> QED
    BY <1>2, <1>3

LEMMA BelowIsClosed ==
  ASSUME NEW os, NEW n, Heap(os, n), NEW o \in 1 .. n
  PROVE  /\ o \in Below(os, o) /\ Below(os, o) \subseteq 1 .. n
         /\ \A x \in Below(os, o) : Kids(os, x) \subseteq Below(os, o)
PROOF
  <1> DEFINE Good(x) == /\ x \in Below(os, x) /\ Below(os, x) \subseteq 1 .. n
                        /\ \A y \in Below(os, x) : Kids(os, y) \subseteq Below(os, x)
             T == {k \in Nat : \A x \in 1 .. n : n - x = k => Good(x)}
  <1>1. ASSUME NEW k \in Nat, \A j \in Nat : j < k => j \in T
        PROVE  k \in T
    <2> SUFFICES ASSUME NEW x \in 1 .. n, n - x = k
                 PROVE  Good(x)
      OBVIOUS
    <2>1. Below(os, x) = {x} \cup UNION {Below(os, e) : e \in Kids(os, x)}
      BY BelowIs
    <2>2. ASSUME NEW e \in Kids(os, x)
          PROVE  Good(e)
      <3>1. n \in Nat /\ e \in 1 .. n /\ x < e
        BY DEF Heap
      <3>2. n - e \in Nat /\ n - e < k
        BY <3>1
      <3> HIDE DEF Good
      <3> QED
        BY <1>1, <3>1, <3>2
    <2>3. ASSUME NEW y \in Below(os, x)
          PROVE  Kids(os, y) \subseteq Below(os, x)
      <3>1. CASE y = x
        BY <2>1, <2>2, <3>1
      <3>2. CASE \E e \in Kids(os, x) : y \in Below(os, e)
        BY <2>1, <2>2, <3>2
      <3> QED
        BY <2>1, <3>1, <3>2
    <2> QED
      BY <2>1, <2>2, <2>3
  <1>2. Nat \subseteq T
    <2> HIDE DEF T
    <2> QED
      BY <1>1, AllNumbers
  <1>3. n - o \in Nat
    BY DEF Heap
  <1> QED
    BY <1>2, <1>3

\* All but o is an element of something that is at or below o.
LEMMA BelowHasParent ==
  ASSUME NEW os, NEW n, Heap(os, n), NEW o \in 1 .. n,
         NEW x \in Below(os, o), x # o
  PROVE  \E y \in Below(os, o) : x \in Kids(os, y)
PROOF
  <1> DEFINE S == {z \in Below(os, o) : z = o \/ \E y \in Below(os, o) : z \in Kids(os, y)}
  <1>1. o \in S /\ \A z \in S : z \in 1 .. n => Kids(os, z) \subseteq S
    BY BelowIsClosed
  <1>2. Below(os, o) \subseteq S
    <2> HIDE DEF S
    <2> QED
      BY <1>1, BelowIsLeast
  <1> QED
    BY <1>2

\* Objects that are elements of nothing have nothing in common, when nothing is
\* an element of two objects.
LEMMA NothingInCommon ==
  ASSUME NEW os, NEW n, Heap(os, n), NEW o \in 1 .. n, NEW p \in 1 .. n, o # p,
         \A y \in 1 .. n : o \notin Kids(os, y) /\ p \notin Kids(os, y),
         \A y, z \in 1 .. n : Kids(os, y) \cap Kids(os, z) # {} => y = z
  PROVE  Below(os, o) \cap Below(os, p) = {}
PROOF
  <1> DEFINE both == Below(os, o) \cap Below(os, p)
  <1>1. SUFFICES ASSUME both # {}
                 PROVE  FALSE
    OBVIOUS
  <1>2. both \in SUBSET (1 .. n) /\ both \in SUBSET Nat
    <2>1. Below(os, o) \subseteq 1 .. n
      BY BelowIsClosed
    <2> QED
      BY <2>1
  <1>3. \E m \in both : \A k \in both : m <= k
    <2> HIDE DEF both
    <2> QED
      BY <1>1, <1>2, LeastNumber
  <1>4. PICK m \in both : \A k \in both : m <= k
    BY <1>3
  <1>5. m # o /\ m # p
    <2>1. ASSUME m = o
          PROVE  FALSE
      <3>1. \E y \in Below(os, p) : o \in Kids(os, y)
        BY <2>1, BelowHasParent
      <3> QED
        BY <3>1, BelowIsClosed
    <2>2. ASSUME m = p
          PROVE  FALSE
      <3>1. \E y \in Below(os, o) : p \in Kids(os, y)
        BY <2>2, BelowHasParent
      <3> QED
        BY <3>1, BelowIsClosed
    <2> QED
      BY <2>1, <2>2
  <1>6. PICK y \in Below(os, o) : m \in Kids(os, y)
    BY <1>5, BelowHasParent
  <1>7. PICK z \in Below(os, p) : m \in Kids(os, z)
    BY <1>5, BelowHasParent
  <1>8. y \in 1 .. n /\ z \in 1 .. n
    BY BelowIsClosed
  <1>9. y = z
    BY <1>6, <1>7, <1>8
  <1>10. y \in both /\ y < m /\ ~(m <= y)
    BY <1>2, <1>6, <1>7, <1>8, <1>9 DEF Heap
  <1> QED
    BY <1>4, <1>10

\* What is below an object stays when nothing below it changes.
LEMMA BelowStays ==
  ASSUME NEW os, NEW n, Heap(os, n), NEW os2, NEW n2, Heap(os2, n2),
         NEW o \in 1 .. n, n <= n2,
         \A x \in Below(os, o) : Kids(os2, x) = Kids(os, x)
  PROVE  Below(os2, o) = Below(os, o)
PROOF
  <1>1. o \in 1 .. n2 /\ 1 .. n \subseteq 1 .. n2
    BY DEF Heap
  <1>2. Below(os2, o) \subseteq Below(os, o)
    <2> DEFINE S == Below(os, o)
    <2>1. o \in S /\ \A x \in S : x \in 1 .. n2 => Kids(os2, x) \subseteq S
      BY BelowIsClosed
    <2> HIDE DEF S
    <2>2. Below(os2, o) \subseteq S
      BY <1>1, <2>1, BelowIsLeast
    <2> QED
      BY <2>2 DEF S
  <1>3. Below(os, o) \subseteq Below(os2, o)
    <2> DEFINE S == Below(os2, o)
    <2>1. o \in S /\ \A x \in S : x \in 1 .. n => Kids(os, x) \subseteq S
      BY <1>1, <1>2, BelowIsClosed
    <2> HIDE DEF S
    <2>2. Below(os, o) \subseteq S
      BY <2>1, BelowIsLeast
    <2> QED
      BY <2>2 DEF S
  <1> QED
    BY <1>2, <1>3

\* A new object without elements, in an object that is below o.
LEMMA BelowGrows ==
  ASSUME NEW os, NEW n, Heap(os, n), NEW os2, Heap(os2, n + 1),
         NEW o \in 1 .. n, NEW p \in Below(os, o),
         Kids(os2, p) = Kids(os, p) \cup {n + 1}, Kids(os2, n + 1) = {},
         \A x \in 1 .. n : x # p => Kids(os2, x) = Kids(os, x)
  PROVE  Below(os2, o) = Below(os, o) \cup {n + 1}
PROOF
  <1>1. o \in 1 .. n + 1 /\ 1 .. n \subseteq 1 .. n + 1 /\ n \in Nat
    BY DEF Heap
  <1>2. p \in 1 .. n /\ Below(os, o) \subseteq 1 .. n
    BY BelowIsClosed
  <1>3. Below(os2, o) \subseteq Below(os, o) \cup {n + 1}
    <2> DEFINE S == Below(os, o) \cup {n + 1}
    <2>1. o \in S /\ \A x \in S : x \in 1 .. n + 1 => Kids(os2, x) \subseteq S
      BY <1>2, BelowIsClosed
    <2> HIDE DEF S
    <2>2. Below(os2, o) \subseteq S
      BY <1>1, <2>1, BelowIsLeast
    <2> QED
      BY <2>2 DEF S
  <1>4. Below(os, o) \subseteq Below(os2, o)
    <2> DEFINE S == Below(os2, o)
    <2>1. o \in S /\ \A x \in S : x \in 1 .. n => Kids(os, x) \subseteq S
      <3>1. o \in S /\ \A x \in S : Kids(os2, x) \subseteq S
        BY <1>1, BelowIsClosed
      <3>2. \A x \in 1 .. n : Kids(os, x) \subseteq Kids(os2, x)
        OBVIOUS
      <3> HIDE DEF S
      <3> QED
        BY <3>1, <3>2
    <2> HIDE DEF S
    <2>2. Below(os, o) \subseteq S
      BY <2>1, BelowIsLeast
    <2> QED
      BY <2>2 DEF S
  <1>5. n + 1 \in Below(os2, o)
    BY <1>1, <1>4, BelowIsClosed
  <1> QED
    BY <1>3, <1>4, <1>5


LEMMA MaxIs ==
  ASSUME NEW n \in Nat, NEW T \in SUBSET (0 .. n), T # {}
  PROVE  Max(T) \in T /\ \A x \in T : x <= Max(T)
PROOF
  <1> DEFINE U == {k \in Nat : n - k \in T}
  <1>1. U \in SUBSET Nat /\ U # {}
    <2>1. PICK x \in T : TRUE
      OBVIOUS
    <2>2. n - x \in Nat /\ n - (n - x) = x
      BY <2>1
    <2> QED
      BY <2>2
  <1>2. \E m \in U : \A k \in U : m <= k
    <2> HIDE DEF U
    <2> QED
      BY <1>1, LeastNumber
  <1>3. PICK m \in U : \A k \in U : m <= k
    BY <1>2
  <1>4. ASSUME NEW x \in T
        PROVE  n - m >= x
    <2>1. n - x \in U
      <3>1. n - x \in Nat /\ n - (n - x) = x
        OBVIOUS
      <3> QED
        BY <3>1
    <2>2. m <= n - x /\ m \in Nat
      <3> HIDE DEF U
      <3> QED
        BY <1>1, <1>3, <2>1
    <2> QED
      BY <2>2
  <1>5. \E y \in T : \A x \in T : y >= x
    BY <1>3, <1>4
  <1>6. Max(T) \in T /\ \A x \in T : Max(T) >= x
    BY <1>5 DEF Max
  <1> QED
    BY <1>6

LEMMA MinIs ==
  ASSUME NEW T \in SUBSET Nat, T # {}
  PROVE  Min(T) \in T /\ \A x \in T : Min(T) <= x
BY LeastNumber DEF Min

\* One sequence more is joined at the end.
LEMMA FlattenMore ==
  ASSUME NEW T, NEW ss \in Seq(Seq(T)), NEW s \in Seq(T)
  PROVE  FlattenSeq(Append(ss, s)) = FlattenSeq(ss) \o s
PROOF
  <1> DEFINE n == Len(ss)
             tt == Append(ss, s)
  <1>1. tt \in Seq(Seq(T)) /\ Len(tt) = n + 1 /\ n \in Nat
        /\ (\A i \in 1 .. n : tt[i] = ss[i]) /\ tt[n + 1] = s
    BY AppendProperties, LenProperties
  <1>2. PICK pre \in [0 .. n -> Seq(T)] :
          /\ pre[0] = <<>> /\ \A i \in 1 .. n : pre[i] = pre[i - 1] \o ss[i]
          /\ FlattenSeq(ss) = pre[n]
    BY FlattenJoins
  <1> HIDE DEF tt
  <1>3. \E p \in [0 .. Len(tt) -> Seq(T)] :
          /\ p[0] = <<>> /\ \A i \in 1 .. Len(tt) : p[i] = p[i - 1] \o tt[i]
          /\ FlattenSeq(tt) = p[Len(tt)]
    BY <1>1, FlattenJoins
  <1>4. PICK p \in [0 .. n + 1 -> Seq(T)] :
          /\ p[0] = <<>> /\ \A i \in 1 .. n + 1 : p[i] = p[i - 1] \o tt[i]
          /\ FlattenSeq(tt) = p[n + 1]
    BY <1>1, <1>3
  <1>10. \A i \in 1 .. n + 1 : p[i] = p[i - 1] \o tt[i]
    BY <1>4
  <1> HIDE DEF n
  <1> DEFINE S == {i \in Nat : i <= n => p[i] = pre[i]}
  <1>5. ASSUME NEW i \in Nat, \A k \in Nat : k < i => k \in S
        PROVE  i \in S
    <2> SUFFICES ASSUME i <= n
                 PROVE  p[i] = pre[i]
      OBVIOUS
    <2>1. CASE i = 0
      BY <1>2, <1>4, <2>1
    <2>2. CASE i # 0
      <3>1. i - 1 \in Nat /\ i - 1 < i /\ i - 1 <= n /\ i \in 1 .. n /\ i \in 1 .. n + 1
        BY <1>1, <2>2
      <3>2. p[i - 1] = pre[i - 1]
        BY <1>5, <3>1
      <3>3. p[i] = p[i - 1] \o tt[i] /\ pre[i] = pre[i - 1] \o ss[i] /\ tt[i] = ss[i]
        BY <1>1, <1>2, <1>4, <3>1
      <3> QED
        BY <3>2, <3>3
    <2> QED
      BY <2>1, <2>2
  <1>6. n \in S
    <2> HIDE DEF S
    <2> QED
      BY <1>1, <1>5, AllNumbers
  <1>7. p[n + 1] = p[n] \o s
    <2>1. n + 1 \in 1 .. n + 1 /\ n + 1 - 1 = n
      BY <1>1
    <2>2. PICK k \in 1 .. n + 1 : k = n + 1
      BY <2>1
    <2>3. p[k] = p[k - 1] \o tt[k]
      BY <1>10
    <2>4. k - 1 = n /\ tt[k] = s
      BY <1>1, <2>2
    <2> QED
      BY <2>2, <2>3, <2>4
  <1>8. p[n] = pre[n]
    BY <1>1, <1>6
  <1>9. FlattenSeq(tt) = FlattenSeq(ss) \o s
    BY <1>2, <1>4, <1>7, <1>8
  <1> QED
    BY <1>9 DEF tt

LEMMA FlattenNothing == FlattenSeq(<<>>) = <<>>
BY DEF FlattenSeq

-----------------------------------------------------------------------------
(* The arguments the scan collects are those the format means.               *)

Marks == Pieces \cup {"%"}
Scans == [argv : Seq(Seq(Marks)), cur : Seq(Marks), touched : BOOLEAN, err : Int]
Scan(f, scan) ==
  scan = [i \in 0 .. Len(f) |->
            IF i = 0 THEN ScanInit ELSE ScanElement(scan[i - 1], f[i])]

LEMMA FormatTyped ==
  ASSUME NEW f \in Seq(FormatElements)
  PROVE  /\ Len(f) \in Nat /\ DOMAIN f = 1 .. Len(f)
         /\ \A i \in 1 .. Len(f) : f[i] \in FormatElements /\ Meaning(f[i]) \in Seq(Marks)
PROOF
  <1>1. Len(f) \in Nat /\ DOMAIN f = 1 .. Len(f)
        /\ \A i \in 1 .. Len(f) : f[i] \in FormatElements
    BY LenProperties, ElementOfSeq
  <1>2. ASSUME NEW e \in FormatElements
        PROVE  Meaning(e) \in Seq(Marks)
    <2>1. e.s \in Seq(Pieces) /\ Pieces \subseteq Marks /\ "%" \in Marks
      BY DEF FormatElements, Marks
    <2> HIDE DEF Pieces, Marks
    <2>2. e.s \in Seq(Marks)
      BY <2>1, SeqMonotonic
    <2>3. <<"%">> \in Seq(Marks)
      BY <2>1
    <2> QED
      BY <2>2, <2>3 DEF Meaning
  <1> QED
    BY <1>1, <1>2

LEMMA ScanElementTyped ==
  ASSUME NEW st \in Scans, NEW e \in FormatElements
  PROVE  ScanElement(st, e) \in Scans /\ PushArg(st) \in Scans
PROOF
  <1>1. e.s \in Seq(Marks) /\ "%" \in Marks
    <2>1. e.s \in Seq(Pieces) /\ Pieces \subseteq Marks
      BY DEF FormatElements, Marks
    <2> HIDE DEF Pieces, Marks
    <2> QED
      BY <2>1, SeqMonotonic DEF Marks
  <1> HIDE DEF Marks
  <1>2. st.argv \in Seq(Seq(Marks)) /\ st.cur \in Seq(Marks)
    BY DEF Scans
  <1>3. st.cur \o e.s \in Seq(Marks) /\ Append(st.cur, "%") \in Seq(Marks)
        /\ Append(st.argv, st.cur) \in Seq(Seq(Marks)) /\ <<>> \in Seq(Marks)
    BY <1>1, <1>2, ConcatProperties, AppendProperties, EmptySeq
  <1>4. PushArg(st) \in Scans
    BY <1>3 DEF PushArg, Scans
  <1>5. ScanElement(st, e) \in Scans
    <2>1. CASE st.err # 0
      BY <2>1 DEF ScanElement
    <2>2. CASE st.err = 0 /\ e.k = "space"
      BY <1>4, <2>2 DEF ScanElement
    <2>3. CASE st.err = 0 /\ e.k = "bad"
      <3>1. ScanElement(st, e) = [st EXCEPT !.err = -2]
        BY <2>3 DEF ScanElement
      <3>2. -2 \in Int
        OBVIOUS
      <3> QED
        BY <3>1, <3>2 DEF Scans
    <2>4. CASE st.err = 0 /\ e.k = "percent"
      BY <1>3, <2>4 DEF ScanElement, Scans
    <2>5. CASE st.err = 0 /\ e.k \notin {"space", "bad", "percent"}
      BY <1>3, <2>5 DEF ScanElement, Scans
    <2> QED
      BY <2>1, <2>2, <2>3, <2>4, <2>5
  <1> QED
    BY <1>4, <1>5

LEMMA ScanExists ==
  ASSUME NEW f \in Seq(FormatElements)
  PROVE  \E scan : Scan(f, scan)
PROOF
  <1> DEFINE n == Len(f)
             step == [i \in 1 .. n |-> [st \in Scans |-> ScanElement(st, f[i])]]
  <1>1. n \in Nat /\ \A i \in 1 .. n : f[i] \in FormatElements
    BY FormatTyped
  <1>2. step \in [1 .. n -> [Scans -> Scans]] /\ ScanInit \in Scans
    <2>1. <<>> \in Seq(Seq(Marks)) /\ <<>> \in Seq(Marks)
      BY EmptySeq
    <2>2. ScanInit \in Scans
      BY <2>1 DEF ScanInit, Scans
    <2> QED
      BY <1>1, <2>2, ScanElementTyped
  <1>3. \E g : Chained(n, Scans, ScanInit, step, g)
    <2> HIDE DEF step, n
    <2> QED
      BY <1>1, <1>2, Chain
  <1>4. PICK g \in [0 .. n -> Scans] : g[0] = ScanInit /\ \A i \in 1 .. n : g[i] = step[i][g[i - 1]]
    BY <1>3 DEF Chained
  <1>5. ASSUME NEW i \in 0 .. n
        PROVE  g[i] = IF i = 0 THEN ScanInit ELSE ScanElement(g[i - 1], f[i])
    <2>1. CASE i = 0
      BY <1>4, <2>1
    <2>2. CASE i # 0
      <3>1. i \in 1 .. n /\ i - 1 \in 0 .. n
        BY <1>1, <2>2
      <3>2. g[i - 1] \in Scans
        <4> HIDE DEF n, step
        <4> QED
          BY <1>4, <3>1
      <3>3. g[i] = step[i][g[i - 1]]
        BY <1>4, <3>1
      <3> QED
        BY <2>2, <3>1, <3>2, <3>3
    <2> QED
      BY <2>1, <2>2
  <1>6. Scan(f, g)
    <2>1. g = [i \in 0 .. n |-> g[i]]
      <3> HIDE DEF n, step
      <3> QED
        BY <1>4
    <2> QED
      BY <1>5, <2>1 DEF Scan
  <1> QED
    BY <1>6

LEMMA ScanIs ==
  ASSUME NEW f \in Seq(FormatElements)
  PROVE  \E scan \in [0 .. Len(f) -> Scans] :
           /\ scan[0] = ScanInit
           /\ \A i \in 1 .. Len(f) : scan[i] = ScanElement(scan[i - 1], f[i])
           /\ FormatArgs(f) = [err |-> scan[Len(f)].err,
                               argv |-> IF scan[Len(f)].err = 0
                                        THEN PushArg(scan[Len(f)]).argv ELSE <<>>]
PROOF
  <1> DEFINE n == Len(f)
             d == CHOOSE scan : Scan(f, scan)
  <1>1. n \in Nat /\ \A i \in 1 .. n : f[i] \in FormatElements
    BY FormatTyped
  <1>2. Scan(f, d)
    BY ScanExists
  <1>3. d = [i \in 0 .. n |-> IF i = 0 THEN ScanInit ELSE ScanElement(d[i - 1], f[i])]
    BY <1>2 DEF Scan
  <1>4. FormatArgs(f) = [err |-> d[n].err,
                         argv |-> IF d[n].err = 0 THEN PushArg(d[n]).argv ELSE <<>>]
    BY DEF FormatArgs, Scan
  <1> HIDE DEF d
  <1>5. d[0] = ScanInit /\ \A i \in 1 .. n : d[i] = ScanElement(d[i - 1], f[i])
    BY <1>1, <1>3
  <1> DEFINE S == {i \in Nat : i <= n => d[i] \in Scans}
  <1>6. ASSUME NEW i \in Nat, \A k \in Nat : k < i => k \in S
        PROVE  i \in S
    <2> SUFFICES ASSUME i <= n
                 PROVE  d[i] \in Scans
      OBVIOUS
    <2>1. CASE i = 0
      <3>1. ScanInit \in Scans
        <4>1. <<>> \in Seq(Seq(Marks)) /\ <<>> \in Seq(Marks)
          BY EmptySeq
        <4> QED
          BY <4>1 DEF ScanInit, Scans
      <3> QED
        BY <1>5, <2>1, <3>1
    <2>2. CASE i # 0
      <3>1. i - 1 \in Nat /\ i - 1 < i /\ i - 1 <= n /\ i \in 1 .. n
        BY <1>1, <2>2
      <3>2. d[i - 1] \in Scans
        BY <1>6, <3>1
      <3> QED
        BY <1>1, <1>5, <3>1, <3>2, ScanElementTyped
    <2> QED
      BY <2>1, <2>2
  <1>7. Nat \subseteq S
    <2> HIDE DEF S
    <2> QED
      BY <1>6, AllNumbers
  <1>8. d \in [0 .. n -> Scans]
    <2>1. \A i \in 0 .. n : d[i] \in Scans
      BY <1>1, <1>7
    <2>2. d = [i \in 0 .. n |-> d[i]]
      BY <1>3
    <2> HIDE DEF n
    <2> QED
      BY <2>1, <2>2
  <1> QED
    BY <1>4, <1>5, <1>8

Spaces(f, i) == {0} \cup {j \in 1 .. i : f[j].k = "space"}
LastSpace(f, i) == Max(Spaces(f, i))
Word(f, j, i) == FlattenSeq([m \in 1 .. i - j |-> Meaning(f[j + m])])
WordStep(f, i, w) ==
  CASE i = 0                            -> <<>>
    [] i > 0 /\ i = LastSpace(f, i) -> w[i - 1]
    [] OTHER                            -> Append(w[LastSpace(f, i)], Word(f, LastSpace(f, i), i))
Words(f, w) == w = [i \in 0 .. Len(f) |-> WordStep(f, i, w)]

LEMMA LastSpaceIs ==
  ASSUME NEW f, NEW i \in Nat
  PROVE  /\ LastSpace(f, i) \in 0 .. i
         /\ i > 0 /\ f[i].k = "space" => LastSpace(f, i) = i
         /\ i > 0 /\ f[i].k # "space" => LastSpace(f, i) = LastSpace(f, i - 1)
                                         /\ LastSpace(f, i) < i
PROOF
  <1>1. ASSUME NEW k \in Nat
        PROVE  /\ LastSpace(f, k) \in Spaces(f, k) /\ Spaces(f, k) \subseteq 0 .. k
               /\ \A x \in Spaces(f, k) : x <= LastSpace(f, k)
    <2>1. Spaces(f, k) \in SUBSET (0 .. k) /\ Spaces(f, k) # {}
      BY DEF Spaces
    <2> QED
      BY <2>1, MaxIs DEF LastSpace
  <1>2. LastSpace(f, i) \in 0 .. i
    BY <1>1
  <1>3. ASSUME i > 0, f[i].k = "space"
        PROVE  LastSpace(f, i) = i
    <2>1. i \in Spaces(f, i)
      BY <1>3 DEF Spaces
    <2>2. i <= LastSpace(f, i)
      BY <1>1, <2>1
    <2> QED
      BY <1>2, <2>2
  <1>4. ASSUME i > 0, f[i].k # "space"
        PROVE  LastSpace(f, i) = LastSpace(f, i - 1) /\ LastSpace(f, i) < i
    <2>1. Spaces(f, i) = Spaces(f, i - 1)
      BY <1>4 DEF Spaces
    <2>2. LastSpace(f, i - 1) \in 0 .. i - 1
      <3>1. i - 1 \in Nat
        BY <1>4
      <3> QED
        BY <1>1, <3>1
    <2>3. LastSpace(f, i) = LastSpace(f, i - 1)
      BY <2>1 DEF LastSpace
    <2> QED
      BY <2>2, <2>3
  <1> QED
    BY <1>2, <1>3, <1>4

LEMMA WordsExist ==
  ASSUME NEW f, Len(f) \in Nat
  PROVE  \E w : Words(f, w)
PROOF
  <1> DEFINE n == Len(f)
             Is(m, w) == w = [i \in 0 .. m |-> WordStep(f, i, w)]
             S == {m \in Nat : \E w : Is(m, w)}
  <1>1. ASSUME NEW m \in Nat, \A k \in Nat : k < m => k \in S
        PROVE  m \in S
    <2>1. CASE m = 0
      <3> DEFINE w == [i \in 0 .. 0 |-> <<>>]
      <3>1. \A i \in 0 .. 0 : WordStep(f, i, w) = <<>>
        BY DEF WordStep
      <3>2. Is(0, w)
        BY <3>1
      <3> QED
        BY <2>1, <3>2
    <2>2. CASE m # 0
      <3>1. m - 1 \in Nat /\ m - 1 < m
        BY <2>2
      <3>2. PICK w : Is(m - 1, w)
        BY <1>1, <3>1
      <3> DEFINE v == [i \in 0 .. m |-> WordStep(f, i, w)]
      <3>3. ASSUME NEW i \in 0 .. m
            PROVE  WordStep(f, i, w) = WordStep(f, i, v)
        <4>1. \A k \in 0 .. m - 1 : w[k] = v[k]
          BY <3>1, <3>2
        <4>2. LastSpace(f, i) \in 0 .. i
          BY LastSpaceIs
        <4> HIDE DEF v, Is
        <4>3. CASE i = 0
          BY <4>3 DEF WordStep
        <4>4. CASE i > 0 /\ i = LastSpace(f, i)
          <5>1. i - 1 \in 0 .. m - 1
            BY <4>4
          <5> QED
            BY <4>1, <4>4, <5>1 DEF WordStep
        <4>5. CASE i > 0 /\ i # LastSpace(f, i)
          <5>1. LastSpace(f, i) \in 0 .. m - 1
            BY <4>2, <4>5
          <5> QED
            BY <4>1, <4>5, <5>1 DEF WordStep
        <4> QED
          BY <4>3, <4>4, <4>5
      <3>4. Is(m, v)
        BY <3>3
      <3> QED
        BY <3>4
    <2> QED
      BY <2>1, <2>2
  <1>2. n \in S
    <2> HIDE DEF S
    <2> QED
      BY <1>1, AllNumbers
  <1> QED
    BY <1>2 DEF Words

LEMMA WordsAre ==
  ASSUME NEW f, Len(f) \in Nat
  PROVE  \E w : Words(f, w) /\ ArgsOf(f) = w[Len(f)]
PROOF
  <1> DEFINE d == CHOOSE w : Words(f, w)
  <1>1. Words(f, d)
    BY WordsExist
  <1>2. ArgsOf(f) = d[Len(f)]
    BY DEF ArgsOf, Words, WordStep, LastSpace, Spaces, Word
  <1> QED
    BY <1>1, <1>2

LEMMA WordGrows ==
  ASSUME NEW f \in Seq(FormatElements), NEW i \in 1 .. Len(f), NEW j \in 0 .. i - 1
  PROVE  Word(f, j, i) = Word(f, j, i - 1) \o Meaning(f[i])
PROOF
  <1> DEFINE ss == [m \in 1 .. i - 1 - j |-> Meaning(f[j + m])]
             s == Meaning(f[i])
  <1>1. ss \in Seq(Seq(Marks)) /\ s \in Seq(Marks) /\ i - 1 - j \in Nat
    <2>1. \A m \in 1 .. i - 1 - j : j + m \in 1 .. Len(f)
      BY FormatTyped
    <2>2. \A m \in 1 .. i - 1 - j : Meaning(f[j + m]) \in Seq(Marks)
      BY <2>1, FormatTyped
    <2>3. i - 1 - j \in Nat
      BY FormatTyped
    <2> QED
      BY <2>2, <2>3, IsASeq, FormatTyped
  <1>2. Append(ss, s) = [m \in 1 .. i - j |-> Meaning(f[j + m])]
    <2>1. Len(ss) = i - 1 - j /\ i - 1 - j + 1 = i - j /\ i - j \in Nat
      BY <1>1, FormatTyped
    <2>2. j + (i - j) = i
      BY FormatTyped
    <2> QED
      BY <2>1, <2>2
  <1> HIDE DEF ss, s
  <1>3. FlattenSeq(Append(ss, s)) = FlattenSeq(ss) \o s
    BY <1>1, FlattenMore
  <1> QED
    BY <1>2, <1>3 DEF Word, ss, s


LEMMA ScanCollects ==
  ASSUME NEW f \in Seq(FormatElements), FormatArgs(f).err = 0
  PROVE  FormatArgs(f).argv = ArgsOf(f)
PROOF
  <1> DEFINE n == Len(f)
  <1>1. n \in Nat /\ \A i \in 1 .. n : f[i] \in FormatElements /\ Meaning(f[i]) \in Seq(Marks)
    BY FormatTyped
  <1>2. PICK scan \in [0 .. n -> Scans] :
           /\ scan[0] = ScanInit
           /\ \A i \in 1 .. n : scan[i] = ScanElement(scan[i - 1], f[i])
           /\ FormatArgs(f) = [err |-> scan[n].err,
                               argv |-> IF scan[n].err = 0
                                        THEN PushArg(scan[n]).argv ELSE <<>>]
    BY ScanIs
  <1>3. PICK w : Words(f, w) /\ ArgsOf(f) = w[n]
    BY <1>1, WordsAre
  <1>4. \A i \in 0 .. n : w[i] = WordStep(f, i, w)
    <2>1. w = [i \in 0 .. n |-> WordStep(f, i, w)]
      BY <1>3 DEF Words
    <2> HIDE DEF n
    <2> QED
      BY <2>1
  <1> HIDE DEF n
  <1> DEFINE Good(i) ==
               scan[i].err = 0 =>
                 /\ scan[i].argv = w[LastSpace(f, i)]
                 /\ scan[i].cur = Word(f, LastSpace(f, i), i)
                 /\ scan[i].touched <=> LastSpace(f, i) < i
             S == {i \in Nat : i <= n => Good(i)}
  <1>5. \A i \in Nat : Word(f, i, i) = <<>>
    <2>1. ASSUME NEW i \in Nat
          PROVE  [m \in 1 .. i - i |-> Meaning(f[i + m])] = <<>>
      BY EmptySeq
    <2> QED
      BY <2>1, FlattenNothing DEF Word
  <1>6. ASSUME NEW i \in Nat, \A k \in Nat : k < i => k \in S
        PROVE  i \in S
    <2> SUFFICES ASSUME i <= n, scan[i].err = 0
                 PROVE  /\ scan[i].argv = w[LastSpace(f, i)]
                        /\ scan[i].cur = Word(f, LastSpace(f, i), i)
                        /\ scan[i].touched <=> LastSpace(f, i) < i
      OBVIOUS
    <2>1. CASE i = 0
      <3>1. LastSpace(f, 0) = 0
        BY LastSpaceIs
      <3>2. w[0] = <<>>
        BY <1>1, <1>4 DEF WordStep
      <3> QED
        BY <1>2, <1>5, <2>1, <3>1, <3>2 DEF ScanInit
    <2>2. CASE i # 0
      <3> DEFINE e == f[i]
                 st == scan[i - 1]
                 j == LastSpace(f, i - 1)
      <3>1. i - 1 \in Nat /\ i - 1 < i /\ i - 1 <= n /\ i \in 1 .. n /\ i - 1 \in 0 .. n
        BY <1>1, <2>2
      <3>2. st \in Scans /\ e \in FormatElements /\ Meaning(e) \in Seq(Marks) /\ j \in 0 .. i - 1
        BY <1>1, <1>2, <3>1, LastSpaceIs
      <3>3. scan[i] = ScanElement(st, e)
        BY <1>2, <3>1
      <3>4. st.err = 0
        <4> HIDE DEF st, e
        <4> QED
          BY <3>3 DEF ScanElement
      <3>5. st.argv = w[j] /\ st.cur = Word(f, j, i - 1) /\ (st.touched <=> j < i - 1)
        <4>1. i - 1 \in S
          BY <1>6, <3>1
        <4> QED
          BY <3>1, <3>4, <4>1
      <3>6. CASE e.k = "space"
        <4>1. LastSpace(f, i) = i
          BY <3>1, <3>6, LastSpaceIs
        <4>2. scan[i] = PushArg(st)
          <5> HIDE DEF st, e
          <5> QED
            BY <3>3, <3>4, <3>6 DEF ScanElement
        <4>3. w[i] = w[i - 1] /\ w[i - 1] = WordStep(f, i - 1, w)
          <5>1. w[i] = WordStep(f, i, w) /\ w[i - 1] = WordStep(f, i - 1, w)
            BY <1>1, <1>4, <3>1
          <5> QED
            BY <3>1, <4>1, <5>1 DEF WordStep
        <4>4. CASE st.touched
          <5>1. w[i - 1] = Append(w[j], Word(f, j, i - 1))
            BY <3>1, <3>2, <3>5, <4>3, <4>4 DEF WordStep
          <5> HIDE DEF st, e, j
          <5>2. scan[i] = [st EXCEPT !.argv = Append(@, st.cur), !.cur = <<>>, !.touched = FALSE]
            BY <4>2, <4>4 DEF PushArg
          <5>3. scan[i].argv = Append(st.argv, st.cur) /\ scan[i].cur = <<>> /\ ~scan[i].touched
            BY <3>2, <5>2 DEF Scans
          <5> QED
            BY <1>5, <3>5, <4>1, <4>3, <5>1, <5>3
        <4>5. CASE ~st.touched
          <5>1. j = i - 1
            BY <3>2, <3>5, <4>5
          <5>2. scan[i] = st
            BY <4>2, <4>5 DEF PushArg
          <5> QED
            BY <1>5, <3>1, <3>5, <4>1, <4>3, <4>5, <5>1, <5>2
        <4> QED
          BY <4>4, <4>5
      <3>7. CASE e.k # "space"
        <4>1. LastSpace(f, i) = j /\ j < i
          BY <3>1, <3>7, LastSpaceIs, SMTT(30)
        <4>2. Word(f, j, i) = Word(f, j, i - 1) \o Meaning(e)
          BY <1>1, <3>1, <3>2, WordGrows DEF n
        <4> HIDE DEF j
        <4>3. e.k # "bad"
          <5> HIDE DEF st, e
          <5>1. ASSUME e.k = "bad"
                PROVE  FALSE
            <6>1. scan[i] = [st EXCEPT !.err = -2]
              BY <3>3, <3>4, <5>1 DEF ScanElement
            <6>2. scan[i].err = -2
              BY <3>2, <6>1 DEF Scans
            <6> QED
              BY <6>2
          <5> QED
            BY <5>1
        <4>4. scan[i].argv = st.argv /\ scan[i].cur = st.cur \o Meaning(e) /\ scan[i].touched
          <5> HIDE DEF st, e
          <5>1. CASE e.k = "percent"
            <6>1. scan[i] = [st EXCEPT !.cur = Append(@, "%"), !.touched = TRUE]
              BY <3>3, <3>4, <5>1 DEF ScanElement
            <6>2. st.cur \in Seq(Marks) /\ "%" \in Marks
              BY <3>2 DEF Scans, Marks
            <6>3. Append(st.cur, "%") = st.cur \o <<"%">>
              BY <6>2, AppendIsConcat
            <6> QED
              BY <3>2, <5>1, <6>1, <6>3 DEF Scans, Meaning
          <5>2. CASE e.k # "percent"
            <6>1. scan[i] = [st EXCEPT !.cur = @ \o e.s, !.touched = TRUE]
              BY <3>3, <3>4, <3>7, <4>3, <5>2 DEF ScanElement
            <6> QED
              BY <3>2, <5>2, <6>1 DEF Scans, Meaning
          <5> QED
            BY <5>1, <5>2
        <4> HIDE DEF st, e
        <4> QED
          BY <3>5, <4>1, <4>2, <4>4
      <3> QED
        BY <3>6, <3>7
    <2> QED
      BY <2>1, <2>2
  <1>7. n \in S
    <2> HIDE DEF S
    <2> QED
      BY <1>1, <1>6, AllNumbers
  <1> DEFINE st == scan[n]
             j == LastSpace(f, n)
  <1>8. st.err = 0 /\ FormatArgs(f).argv = PushArg(st).argv /\ st \in Scans /\ j \in 0 .. n
    BY <1>1, <1>2, LastSpaceIs
  <1>9. st.argv = w[j] /\ st.cur = Word(f, j, n) /\ (st.touched <=> j < n)
    BY <1>1, <1>7, <1>8
  <1>10. w[n] = WordStep(f, n, w)
    BY <1>1, <1>4
  <1> HIDE DEF S
  <1>11. CASE st.touched
    <2>1. w[n] = Append(w[j], Word(f, j, n))
      BY <1>1, <1>8, <1>9, <1>10, <1>11 DEF WordStep
    <2> HIDE DEF st
    <2>2. PushArg(st) = [st EXCEPT !.argv = Append(@, st.cur), !.cur = <<>>, !.touched = FALSE]
      BY <1>11 DEF PushArg
    <2>3. PushArg(st).argv = Append(st.argv, st.cur)
      BY <1>8, <2>2 DEF Scans
    <2> QED
      BY <1>3, <1>8, <1>9, <2>1, <2>3
  <1>12. CASE ~st.touched
    <2>1. j = n /\ PushArg(st) = st
      BY <1>1, <1>8, <1>9, <1>12 DEF PushArg
    <2> QED
      BY <1>3, <1>8, <1>9, <2>1
  <1> QED
    BY <1>11, <1>12

\* What is written for a format is what a server reads for what it means.
THEOREM RoundTrip ==
  ASSUME NEW f \in Formats, FormatArgs(f).err = 0
  PROVE  /\ Meant(f) \in Replies /\ <<Meant(f)>> \in Seq(Replies)
         /\ Command(FormatArgs(f).argv) = Wire[Meant(f)]
PROOF
  <1> DEFINE r == Meant(f)
             args == ArgsOf(f)
             n == Len(args)
  <1>1. f \in Seq(FormatElements) /\ r \in Replies
    BY ReaderAssumption
  <1>2. FormatArgs(f).argv = args
    BY <1>1, ScanCollects
  <1>3. r.type = "array" /\ r.elems = [j \in DOMAIN args |-> Text(args[j])]
    BY DEF Meant, Array, Reply
  <1>4. DOMAIN r.elems = 1 .. Len(r.elems) /\ Len(r.elems) \in Nat
        /\ \A i \in 1 .. Len(r.elems) : r.elems[i] \in Replies
    BY <1>1, ReplyFields
  <1> HIDE DEF r
  <1>5. DOMAIN args = 1 .. Len(r.elems)
    BY <1>3, <1>4
  <1>6. n = Len(r.elems)
    <2> HIDE DEF args
    <2> QED
      BY <1>3, <1>4, <1>5
  <1> HIDE DEF args, n
  <1>7. ASSUME NEW j \in 1 .. n
        PROVE  Wire[r.elems[j]] = <<TypeByte("$"), Number(Size(args[j])), Body(args[j])>>
    <2>1. r.elems[j] = Text(args[j]) /\ r.elems[j] \in Replies
      BY <1>3, <1>4, <1>5, <1>6
    <2>2. r.elems[j].type = "string" /\ r.elems[j].s = args[j]
      BY <2>1 DEF Text, Reply
    <2> QED
      BY <2>1, <2>2, WireBegins
  <1>8. Wires(r.elems) = [j \in 1 .. n |-> <<TypeByte("$"), Number(Size(args[j])), Body(args[j])>>]
    BY <1>4, <1>6, <1>7 DEF Wires
  <1>9. Wire[r] = <<TypeByte("*"), Number(n)>> \o FlattenSeq(Wires(r.elems))
    BY <1>1, <1>3, <1>6, WireBegins
  <1>10. Command(args) = <<TypeByte("*"), Number(n)>> \o FlattenSeq(Wires(r.elems))
    BY <1>8 DEF Command, n
  <1>11. <<r>> \in Seq(Replies)
    BY <1>1
  <1> QED
    BY <1>1, <1>2, <1>9, <1>10, <1>11 DEF r


Cells == [type : Types, s : Seq(Chars), elems : Seq(0 .. MaxObjects)]
Cell(type, s, m) == [type |-> type, s |-> s, elems |-> [i \in 1 .. m |-> None]]

\* Nothing is an element twice.
Forest(os) ==
  /\ Heap(os, Len(os))
  /\ \A x, y \in 1 .. Len(os) :
       \A i \in DOMAIN os[x].elems : \A j \in DOMAIN os[y].elems :
         os[x].elems[i] = os[y].elems[j] /\ os[x].elems[i] # None => x = y /\ i = j

\* os2 is os with one object more, which is on its own, or an element of p.
Extends(os, os2, cell) ==
  /\ os \in Seq(Cells) /\ os2 \in Seq(Cells) /\ Len(os2) = Len(os) + 1
  /\ os2[Len(os) + 1] = cell
Alone(os, os2) == \A x \in 1 .. Len(os) : os2[x] = os[x]
Within(os, os2, p, k) ==
  /\ p \in 1 .. Len(os) /\ k \in DOMAIN os[p].elems /\ os[p].elems[k] = None
  /\ os2[p].type = os[p].type /\ os2[p].s = os[p].s
  /\ os2[p].elems = [os[p].elems EXCEPT ![k] = Len(os) + 1]
  /\ \A x \in 1 .. Len(os) : x # p => os2[x] = os[x]

LEMMA KidsAre ==
  ASSUME NEW os, NEW x
  PROVE  /\ \A e \in Kids(os, x) : e # None /\ \E i \in DOMAIN os[x].elems : e = os[x].elems[i]
         /\ \A i \in DOMAIN os[x].elems : os[x].elems[i] # None => os[x].elems[i] \in Kids(os, x)
BY DEF Kids, Range

LEMMA NoKids ==
  ASSUME NEW os, NEW x, NEW type, NEW s, NEW m, os[x] = Cell(type, s, m)
  PROVE  Kids(os, x) = {} /\ \A i \in DOMAIN os[x].elems : os[x].elems[i] = None
PROOF
  <1>1. os[x].elems = [i \in 1 .. m |-> None]
    BY DEF Cell
  <1> QED
    BY <1>1 DEF Kids, Range

LEMMA UniqueParents ==
  ASSUME NEW os, Forest(os)
  PROVE  \A y, z \in 1 .. Len(os) : Kids(os, y) \cap Kids(os, z) # {} => y = z
PROOF
  <1> SUFFICES ASSUME NEW y \in 1 .. Len(os), NEW z \in 1 .. Len(os),
                      NEW e, e \in Kids(os, y), e \in Kids(os, z)
               PROVE  y = z
    OBVIOUS
  <1>1. PICK i \in DOMAIN os[y].elems : e = os[y].elems[i]
    BY KidsAre
  <1>2. PICK j \in DOMAIN os[z].elems : e = os[z].elems[j]
    BY KidsAre
  <1>3. e # None
    BY KidsAre
  <1> QED
    BY <1>1, <1>2, <1>3 DEF Forest

LEMMA ForestAlone ==
  ASSUME NEW os, NEW os2, NEW type, NEW s, NEW m, Forest(os),
         Extends(os, os2, Cell(type, s, m)), Alone(os, os2)
  PROVE  /\ Forest(os2) /\ Kids(os2, Len(os) + 1) = {}
         /\ \A x \in 1 .. Len(os) : Kids(os2, x) = Kids(os, x)
PROOF
  <1> DEFINE n == Len(os)
  <1>1. n \in Nat /\ Len(os2) = n + 1 /\ DOMAIN os = 1 .. n /\ DOMAIN os2 = 1 .. n + 1
    BY LenProperties DEF Extends
  <1>2. Kids(os2, n + 1) = {} /\ \A i \in DOMAIN os2[n + 1].elems : os2[n + 1].elems[i] = None
    <2> DEFINE x == n + 1
    <2>1. os2[x] = Cell(type, s, m)
      BY DEF Extends
    <2> HIDE DEF x
    <2>2. Kids(os2, x) = {} /\ \A i \in DOMAIN os2[x].elems : os2[x].elems[i] = None
      BY <2>1, NoKids
    <2> QED
      BY <2>2 DEF x
  <1>3. \A x \in 1 .. n : os2[x] = os[x] /\ Kids(os2, x) = Kids(os, x)
    BY DEF Alone, Kids
  <1> HIDE DEF n
  <1>4. \A x \in 1 .. n + 1 : x \in 1 .. n \/ x = n + 1
    BY <1>1
  <1>5. Heap(os2, n + 1)
    <2>1. ASSUME NEW x \in 1 .. n + 1, NEW e \in Kids(os2, x)
          PROVE  e \in 1 .. n + 1 /\ x < e
      <3>1. x \in 1 .. n /\ e \in Kids(os, x)
        BY <1>2, <1>3, <1>4
      <3> QED
        BY <1>1, <3>1 DEF Forest, Heap, n
    <2> QED
      BY <1>1, <2>1 DEF Heap
  <1>6. ASSUME NEW x \in 1 .. n + 1, NEW y \in 1 .. n + 1,
               NEW i \in DOMAIN os2[x].elems, NEW j \in DOMAIN os2[y].elems,
               os2[x].elems[i] = os2[y].elems[j], os2[x].elems[i] # None
        PROVE  x = y /\ i = j
    <2>1. x \in 1 .. n /\ y \in 1 .. n
      BY <1>2, <1>4, <1>6
    <2> QED
      BY <1>3, <1>6, <2>1 DEF Forest, n
  <1> QED
    BY <1>1, <1>2, <1>3, <1>5, <1>6 DEF Forest, n

LEMMA ForestWithin ==
  ASSUME NEW os, NEW os2, NEW type, NEW s, NEW m, NEW p, NEW k, Forest(os),
         Extends(os, os2, Cell(type, s, m)), Within(os, os2, p, k)
  PROVE  /\ Forest(os2) /\ Kids(os2, Len(os) + 1) = {}
         /\ Kids(os2, p) = Kids(os, p) \cup {Len(os) + 1}
         /\ \A x \in 1 .. Len(os) : x # p => Kids(os2, x) = Kids(os, x)
PROOF
  <1> DEFINE n == Len(os)
  <1>1. n \in Nat /\ Len(os2) = n + 1 /\ DOMAIN os = 1 .. n /\ DOMAIN os2 = 1 .. n + 1
    BY LenProperties DEF Extends
  <1>2. Kids(os2, n + 1) = {} /\ \A i \in DOMAIN os2[n + 1].elems : os2[n + 1].elems[i] = None
    <2> DEFINE x == n + 1
    <2>1. os2[x] = Cell(type, s, m)
      BY DEF Extends
    <2> HIDE DEF x
    <2>2. Kids(os2, x) = {} /\ \A i \in DOMAIN os2[x].elems : os2[x].elems[i] = None
      BY <2>1, NoKids
    <2> QED
      BY <2>2 DEF x
  <1>3. \A x \in 1 .. n : x # p => os2[x] = os[x] /\ Kids(os2, x) = Kids(os, x)
    BY DEF Within, Kids
  <1>4. p \in 1 .. n /\ k \in DOMAIN os[p].elems /\ os[p].elems[k] = None
        /\ os2[p].elems = [os[p].elems EXCEPT ![k] = n + 1]
    BY DEF Within
  <1>5. os[p].elems \in Seq(0 .. MaxObjects)
    <2>1. os[p] \in Cells
      BY <1>4, ElementOfSeq DEF Extends
    <2> QED
      BY <2>1 DEF Cells
  <1> HIDE DEF n
  <1>6. /\ DOMAIN os2[p].elems = DOMAIN os[p].elems /\ os2[p].elems[k] = n + 1
        /\ \A i \in DOMAIN os[p].elems : i # k => os2[p].elems[i] = os[p].elems[i]
    <2> DEFINE q == os[p].elems
    <2>1. q \in [DOMAIN q -> 0 .. MaxObjects]
      BY <1>5, LenProperties
    <2> HIDE DEF q
    <2>2. os2[p].elems = [q EXCEPT ![k] = n + 1] /\ k \in DOMAIN q
      BY <1>4 DEF q
    <2>3. /\ DOMAIN os2[p].elems = DOMAIN q /\ os2[p].elems[k] = n + 1
          /\ \A i \in DOMAIN q : i # k => os2[p].elems[i] = q[i]
      BY <2>1, <2>2
    <2> QED
      BY <2>3 DEF q
  <1>7. Kids(os2, p) = Kids(os, p) \cup {n + 1}
    <2>1. n + 1 # None
      BY <1>1 DEF None
    <2> QED
      BY <1>4, <1>6, <2>1 DEF Kids, Range
  <1>8. \A x \in 1 .. n + 1 : x \in 1 .. n \/ x = n + 1
    BY <1>1
  <1>9. Heap(os2, n + 1)
    <2>1. ASSUME NEW x \in 1 .. n + 1, NEW e \in Kids(os2, x)
          PROVE  e \in 1 .. n + 1 /\ x < e
      <3>1. x \in 1 .. n
        BY <1>2, <1>8
      <3>2. CASE e \in Kids(os, x)
        BY <1>1, <3>1, <3>2 DEF Forest, Heap, n
      <3>3. CASE e \notin Kids(os, x)
        <4>1. e = n + 1
          BY <1>3, <1>7, <3>1, <3>3
        <4> QED
          BY <1>1, <3>1, <4>1
      <3> QED
        BY <3>2, <3>3
    <2> QED
      BY <1>1, <2>1 DEF Heap
  <1>10. ASSUME NEW x \in 1 .. n, NEW i \in DOMAIN os2[x].elems
         PROVE  /\ i \in DOMAIN os[x].elems
                /\ x = p /\ i = k => os2[x].elems[i] = n + 1
                /\ ~(x = p /\ i = k) => os2[x].elems[i] = os[x].elems[i]
    BY <1>3, <1>6
  <1>11. ASSUME NEW x \in 1 .. n, NEW i \in DOMAIN os[x].elems
         PROVE  os[x].elems[i] # n + 1
    <2>1. CASE os[x].elems[i] = None
      BY <1>1, <2>1 DEF None
    <2>2. CASE os[x].elems[i] # None
      <3>1. os[x].elems[i] \in Kids(os, x)
        BY <2>2, KidsAre
      <3>2. os[x].elems[i] \in 1 .. n
        BY <3>1 DEF Forest, Heap, n
      <3> QED
        BY <1>1, <3>2
    <2> QED
      BY <2>1, <2>2
  <1>12. ASSUME NEW x \in 1 .. n + 1, NEW y \in 1 .. n + 1,
                NEW i \in DOMAIN os2[x].elems, NEW j \in DOMAIN os2[y].elems,
                os2[x].elems[i] = os2[y].elems[j], os2[x].elems[i] # None
         PROVE  x = y /\ i = j
    <2>1. x \in 1 .. n /\ y \in 1 .. n
      BY <1>2, <1>8, <1>12
    <2>2. i \in DOMAIN os[x].elems /\ j \in DOMAIN os[y].elems
      BY <1>10, <2>1
    <2>3. CASE x = p /\ i = k
      <3>1. y = p /\ j = k
        BY <1>10, <1>11, <1>12, <2>1, <2>2, <2>3
      <3> QED
        BY <2>3, <3>1
    <2>4. CASE ~(x = p /\ i = k)
      <3>1. ~(y = p /\ j = k)
        BY <1>10, <1>11, <1>12, <2>1, <2>2, <2>4
      <3>2. os[x].elems[i] = os[y].elems[j] /\ os[x].elems[i] # None
        BY <1>10, <1>12, <2>1, <2>4, <3>1
      <3> QED
        BY <2>1, <2>2, <3>2 DEF Forest, n
    <2> QED
      BY <2>3, <2>4
  <1> QED
    BY <1>1, <1>2, <1>3, <1>7, <1>9, <1>12 DEF Forest, n


Tasks == [type : Types \cup {NoType}, elements : Int, idx : Int, obj : 0 .. MaxObjects]

BytesTyped == buf \in Seq(Tokens) /\ stream \in Seq(Tokens) /\ pos \in 0 .. Len(buf)
HeapTyped ==
  /\ objs \in Seq(Cells) /\ Len(objs) <= MaxObjects
  /\ root \in 0 .. Len(objs) /\ handed \subseteq 1 .. Len(objs)
StackTyped ==
  /\ rstack \in Seq(Tasks) /\ Len(rstack) <= MaxDepth + 1
  /\ \A i \in 1 .. Len(rstack) : i < Len(rstack) => rstack[i].type = "array"
Control ==
  /\ pc \in {"idle", "parse", "emit", "freed"} /\ err \in {"none", "protocol", "oom"}
  /\ asked \in BOOLEAN
  /\ err # "none" \/ pc = "freed" => rstack = <<>> /\ root = None /\ buf = <<>>
  /\ err = "none" /\ pc \in {"parse", "emit"} /\ rstack = <<>> => root # None
  /\ pc = "idle" /\ rstack = <<>> => root = None
  /\ Len(rstack) = 1 => root = None
Owned ==
  /\ \A o \in handed \cup {root} : \A y \in 1 .. Len(objs) : o \notin Kids(objs, y)
  /\ live = UNION {Below(objs, o) : o \in handed \cup {root}}
  /\ root \notin handed
\* The array a task is in the middle of has room for the element to come.
Fills(i, stack, os, top) ==
  LET o == stack[i].obj  k == stack[i + 1].idx IN
  /\ o \in Below(os, top) /\ stack[i].elements = Len(os[o].elems)
  /\ k \in 0 .. stack[i].elements - 1
  /\ \A j \in DOMAIN os[o].elems : j > k + 1 => os[o].elems[j] = None
Filling ==
  /\ \A i \in 1 .. Len(rstack) - 1 : Fills(i, rstack, objs, root)
  /\ Len(rstack) > 1 => objs[rstack[ridx].obj].elems[cur.idx + 1] = None
  /\ \A i, j \in 1 .. Len(rstack) - 1 : i < j => rstack[i].obj < rstack[j].obj
IInvA == BytesTyped /\ HeapTyped /\ StackTyped /\ Control /\ Forest(objs) /\ Owned /\ Filling

LEMMA BelowNone == \A os : Below(os, None) = {}
BY DEF Below

LEMMA Pruned ==
  ASSUME NEW os, Forest(os), NEW S, S \subseteq 0 .. Len(os),
         \A x \in S : \A y \in 1 .. Len(os) : x \notin Kids(os, y),
         NEW o \in S
  PROVE  (UNION {Below(os, x) : x \in S}) \ Below(os, o) = UNION {Below(os, x) : x \in S \ {o}}
PROOF
  <1>1. ASSUME NEW x \in S, x # o
        PROVE  Below(os, x) \cap Below(os, o) = {}
    <2>1. CASE x = None \/ o = None
      BY <2>1, BelowNone
    <2>2. CASE x # None /\ o # None
      <3>1. x \in 1 .. Len(os) /\ o \in 1 .. Len(os)
        BY <2>2 DEF None
      <3>2. \A y, z \in 1 .. Len(os) : Kids(os, y) \cap Kids(os, z) # {} => y = z
        BY UniqueParents
      <3>3. Heap(os, Len(os))
        BY DEF Forest
      <3> QED
        BY <1>1, <3>1, <3>2, <3>3, NothingInCommon
    <2> QED
      BY <2>1, <2>2
  <1> DEFINE all == UNION {Below(os, x) : x \in S}
             rest == UNION {Below(os, x) : x \in S \ {o}}
  <1>2. ASSUME NEW z \in all, z \notin Below(os, o)
        PROVE  z \in rest
    <2>1. PICK x \in S : z \in Below(os, x)
      OBVIOUS
    <2>2. x \in S \ {o}
      BY <1>2, <2>1
    <2> QED
      BY <2>1, <2>2
  <1>3. ASSUME NEW z \in rest
        PROVE  z \in all /\ z \notin Below(os, o)
    <2>1. PICK x \in S \ {o} : z \in Below(os, x)
      OBVIOUS
    <2>2. x \in S
      OBVIOUS
    <2> QED
      BY <1>1, <2>1, <2>2
  <1> HIDE DEF all, rest
  <1>4. all \ Below(os, o) = rest
    BY <1>2, <1>3
  <1> QED
    BY <1>4 DEF all, rest

LEMMA CellFields ==
  ASSUME NEW os \in Seq(Cells), NEW x \in 1 .. Len(os)
  PROVE  /\ os[x].type \in Types /\ os[x].s \in Seq(Chars)
         /\ os[x].elems \in Seq(0 .. MaxObjects) /\ os[x] \in Cells
         /\ DOMAIN os[x].elems = 1 .. Len(os[x].elems) /\ Len(os[x].elems) \in Nat
PROOF
  <1>1. os[x] \in Cells
    BY ElementOfSeq
  <1>2. os[x].type \in Types /\ os[x].s \in Seq(Chars) /\ os[x].elems \in Seq(0 .. MaxObjects)
    BY <1>1 DEF Cells
  <1> QED
    BY <1>1, <1>2, LenProperties

LEMMA StackFields ==
  ASSUME StackTyped
  PROVE  /\ Len(rstack) \in Nat /\ DOMAIN rstack = 1 .. Len(rstack)
         /\ \A i \in 1 .. Len(rstack) :
              /\ rstack[i] \in Tasks /\ rstack[i].type \in Types \cup {NoType}
              /\ rstack[i].elements \in Int /\ rstack[i].idx \in Int
              /\ rstack[i].obj \in 0 .. MaxObjects
         /\ rstack # <<>> => Len(rstack) >= 1
PROOF
  <1>1. Len(rstack) \in Nat /\ DOMAIN rstack = 1 .. Len(rstack)
        /\ \A i \in 1 .. Len(rstack) : rstack[i] \in Tasks
    BY LenProperties, ElementOfSeq DEF StackTyped
  <1>2. rstack # <<>> => Len(rstack) >= 1
    BY <1>1, EmptySeq DEF StackTyped
  <1> QED
    BY <1>1, <1>2 DEF Tasks

\* The object that is created, and where it is put.
LEMMA CreateExtends ==
  ASSUME IInvA, rstack # <<>>, NEW type \in Types, NEW s \in Seq(Chars), NEW m \in Nat,
         Create(type, s, m)
  PROVE  /\ Extends(objs, objs', Cell(type, s, m)) /\ Len(objs) + 1 <= MaxObjects
         /\ Len(objs) \in Nat /\ live' = live \cup {Len(objs) + 1} /\ handed' = handed
         /\ Len(rstack) = 1 => /\ root = None /\ root' = Len(objs) + 1
                               /\ Alone(objs, objs')
         /\ Len(rstack) > 1 => /\ root \in 1 .. Len(objs) /\ root' = root
                               /\ rstack[ridx].obj \in Below(objs, root)
                               /\ Within(objs, objs', rstack[ridx].obj, cur.idx + 1)
PROOF
  <1> DEFINE n == Len(objs)
             L == Len(rstack)
             p == rstack[L - 1].obj
             k == rstack[L].idx + 1
             c == Cell(type, s, m)
             more == Append(objs, c)
  <1>1. n \in Nat /\ n + 1 <= MaxObjects /\ live' = live \cup {n + 1} /\ handed' = handed
        /\ root' = (IF L = 1 THEN n + 1 ELSE root) /\ L \in Nat /\ L >= 1
    <2>1. n \in Nat /\ L \in Nat /\ L >= 1
      BY LenProperties, StackFields DEF IInvA, HeapTyped
    <2> QED
      BY <2>1, ReaderAssumption DEF Create, New, Objects, ridx
  <1>2. c \in Cells
    <2>1. [i \in 1 .. m |-> None] \in Seq(0 .. MaxObjects)
      BY ReaderAssumption DEF None
    <2> QED
      BY <2>1 DEF Cell, Cells
  <1>3. more \in Seq(Cells) /\ Len(more) = n + 1 /\ more[n + 1] = c
        /\ \A x \in 1 .. n : more[x] = objs[x]
    BY <1>2, AppendProperties DEF IInvA, HeapTyped
  <1>4. objs' = IF L = 1 THEN more ELSE [more EXCEPT ![p].elems[k] = n + 1]
    <2>1. ridx = L - 1 /\ (ridx = 0 <=> L = 1)
      BY <1>1 DEF ridx
    <2>2. objs' = Created(type, s, m)
      BY DEF Create
    <2>3. Created(type, s, m) =
            IF ridx = 0 THEN more ELSE [more EXCEPT ![rstack[ridx].obj].elems[cur.idx + 1] = n + 1]
      BY DEF Created, New, Cell
    <2> HIDE DEF more, n, L
    <2>4. CASE L = 1
      BY <2>1, <2>2, <2>3, <2>4
    <2>5. CASE L # 1
      <3>1. objs' = [more EXCEPT ![rstack[ridx].obj].elems[cur.idx + 1] = n + 1]
        BY <2>1, <2>2, <2>3, <2>5
      <3>2. p = rstack[ridx].obj /\ k = cur.idx + 1
        BY <2>1 DEF cur, L
      <3> HIDE DEF p, k
      <3> QED
        BY <2>5, <3>1, <3>2
    <2> QED
      BY <2>4, <2>5
  <1>7. L = 1 \/ L > 1
    <2> HIDE DEF L, n
    <2> QED
      BY <1>1
  <1>5. CASE L = 1
    <2>1. Extends(objs, objs', c) /\ Alone(objs, objs')
      BY <1>3, <1>4, <1>5 DEF Extends, Alone, IInvA, HeapTyped
    <2>2. root = None
      BY <1>5 DEF IInvA, Control
    <2> QED
      BY <1>1, <1>5, <2>1, <2>2
  <1>6. CASE L > 1
    <2>1. Fills(L - 1, rstack, objs, root) /\ objs[p].elems[k] = None
      <3>1. L - 1 \in 1 .. L - 1
        BY <1>1, <1>6
      <3>2. objs[rstack[ridx].obj].elems[cur.idx + 1] = None
        BY <1>6 DEF IInvA, Filling
      <3> QED
        BY <1>1, <3>1, <3>2 DEF IInvA, Filling, ridx, cur
    <2>2. /\ p \in Below(objs, root) /\ rstack[L].idx \in 0 .. rstack[L - 1].elements - 1
          /\ rstack[L - 1].elements = Len(objs[p].elems)
      <3>1. L - 1 + 1 = L
        BY <1>1
      <3> QED
        BY <2>1, <3>1 DEF Fills
    <2>3. root \in 1 .. n
      <3>1. root # None
        BY <2>2, BelowNone
      <3> QED
        BY <1>1, <3>1 DEF IInvA, HeapTyped, None
    <2>4. p \in 1 .. n
      <3>1. Heap(objs, n)
        BY DEF IInvA, Forest
      <3>2. Below(objs, root) \subseteq 1 .. n
        BY <2>3, <3>1, BelowIsClosed
      <3> QED
        BY <2>2, <3>2
    <2> DEFINE q == objs[p].elems
    <2>5. q \in Seq(0 .. MaxObjects) /\ k \in 1 .. Len(q) /\ DOMAIN q = 1 .. Len(q)
          /\ objs[p] \in Cells
      <3>1. /\ q \in Seq(0 .. MaxObjects) /\ DOMAIN q = 1 .. Len(q) /\ Len(q) \in Nat
            /\ objs[p] \in Cells
        BY <2>4, CellFields DEF IInvA, HeapTyped
      <3> QED
        BY <2>2, <3>1, SMTT(30)
    <2> DEFINE e == n + 1
               q2 == [q EXCEPT ![k] = e]
               c2 == [objs[p] EXCEPT !.elems = q2]
    <2>6. q2 \in Seq(0 .. MaxObjects)
      <3>1. e \in 0 .. MaxObjects
        BY <1>1, ReaderAssumption
      <3> HIDE DEF e, q, k
      <3> QED
        BY <2>5, <3>1, ExceptSeq
    <2>7. c2 \in Cells /\ c2.type = objs[p].type /\ c2.s = objs[p].s /\ c2.elems = q2
      <3> HIDE DEF q2
      <3> QED
        BY <2>5, <2>6 DEF Cells
    <2> HIDE DEF c, more
    <2>8. objs' = [more EXCEPT ![p] = c2] /\ p \in 1 .. Len(more)
      <3>1. more[p] = objs[p] /\ p \in 1 .. Len(more)
        BY <1>1, <1>3, <2>4
      <3>2. objs' = [more EXCEPT ![p].elems[k] = n + 1]
        <4> HIDE DEF n, L, p, k
        <4> QED
          BY <1>4, <1>6, <1>1
      <3> QED
        BY <3>1, <3>2
    <2> HIDE DEF c2, q2, p, e, k, n
    <2>9. objs' \in Seq(Cells) /\ Len(objs') = Len(more)
          /\ \A x \in 1 .. Len(more) : objs'[x] = IF x = p THEN c2 ELSE more[x]
      BY <1>3, <2>7, <2>8, ExceptSeq
    <2>10. Extends(objs, objs', c)
      <3>1. n + 1 # p /\ n + 1 \in 1 .. n + 1
        BY <1>1, <2>4
      <3> QED
        BY <1>1, <1>3, <2>9, <3>1 DEF Extends, IInvA, HeapTyped, n
    <2>11. Within(objs, objs', p, k)
      <3>1. 1 .. n \subseteq 1 .. n + 1
        BY <1>1
      <3> QED
        BY <1>3, <2>1, <2>4, <2>5, <2>7, <2>9, <3>1 DEF Within, n, q2, e, p, k
    <2> QED
      BY <1>1, <1>6, <2>2, <2>3, <2>10, <2>11 DEF n, p, k, c, ridx, cur
  <1> QED
    BY <1>5, <1>6, <1>7

LEMMA CreateKeeps ==
  ASSUME IInvA, rstack # <<>>, NEW type \in Types, NEW s \in Seq(Chars), NEW m \in Nat,
         Create(type, s, m)
  PROVE  /\ HeapTyped' /\ Forest(objs)' /\ Owned'
         /\ \A x \in Below(objs, root) : x \in Below(objs', root')
         /\ Len(objs) + 1 \in Below(objs', root')
         /\ Len(rstack) > 1 => rstack[ridx].obj \in 1 .. Len(objs)
PROOF
  <1> DEFINE n == Len(objs)
             e == n + 1
  <1>1. /\ Extends(objs, objs', Cell(type, s, m)) /\ e <= MaxObjects
        /\ n \in Nat /\ live' = live \cup {e} /\ handed' = handed
    BY CreateExtends
  <1>2. Forest(objs) /\ handed \subseteq 1 .. n /\ root \in 0 .. n /\ Heap(objs, n)
        /\ objs \in Seq(Cells)
    BY DEF IInvA, HeapTyped, Forest
  <1>3. /\ \A o \in handed \cup {root} : \A y \in 1 .. n : o \notin Kids(objs, y)
        /\ live = UNION {Below(objs, o) : o \in handed \cup {root}}
        /\ root \notin handed
    BY DEF IInvA, Owned
  <1>4. Len(objs') = e /\ objs' \in Seq(Cells)
    BY <1>1 DEF Extends
  <1>5. \A y \in 1 .. e : y \in 1 .. n \/ y = e
    BY <1>1
  <1>6. Len(rstack) = 1 \/ Len(rstack) > 1
    BY StackFields DEF IInvA
  <1>7. CASE Len(rstack) = 1
    <2>1. root = None /\ root' = e /\ Alone(objs, objs')
      BY <1>7, CreateExtends
    <2>2. /\ Forest(objs') /\ Kids(objs', e) = {}
          /\ \A x \in 1 .. n : Kids(objs', x) = Kids(objs, x)
      BY <1>1, <1>2, <2>1, ForestAlone
    <2>3. Heap(objs', e)
      BY <1>4, <2>2 DEF Forest
    <2> HIDE DEF e, n
    <2>4. Below(objs', e) = {e}
      <3>1. e \in 1 .. e
        BY <1>1 DEF e
      <3>2. Below(objs', e) = {e} \cup UNION {Below(objs', x) : x \in Kids(objs', e)}
        BY <2>3, <3>1, BelowIs
      <3> QED
        BY <2>2, <3>2
    <2>5. ASSUME NEW o \in handed
          PROVE  Below(objs', o) = Below(objs, o)
      <3>1. o \in 1 .. n /\ n <= e
        BY <1>1, <1>2 DEF e
      <3>2. Below(objs, o) \subseteq 1 .. n
        BY <1>2, <3>1, BelowIsClosed
      <3>3. \A x \in Below(objs, o) : Kids(objs', x) = Kids(objs, x)
        BY <2>2, <3>2
      <3> QED
        BY <1>2, <2>3, <3>1, <3>3, BelowStays
    <2>6. live' = UNION {Below(objs', o) : o \in handed' \cup {root'}}
      BY <1>1, <1>3, <2>1, <2>4, <2>5, BelowNone
    <2>7. e \notin 1 .. n /\ e \in 1 .. e /\ 1 .. n \subseteq 1 .. e
      BY <1>1 DEF e
    <2>8. HeapTyped'
      BY <1>1, <1>2, <1>4, <2>1, <2>7 DEF HeapTyped
    <2>9. ASSUME NEW o \in handed' \cup {root'}, NEW y \in 1 .. e
          PROVE  o \notin Kids(objs', y)
      <3>1. CASE y = e
        BY <2>2, <3>1
      <3>2. CASE y \in 1 .. n
        <4>1. Kids(objs', y) = Kids(objs, y) /\ Kids(objs, y) \subseteq 1 .. n
          BY <1>2, <2>2, <3>2 DEF Heap
        <4> QED
          BY <1>1, <1>3, <2>1, <2>7, <3>2, <4>1
      <3> QED
        BY <1>5, <3>1, <3>2
    <2>10. Owned'
      BY <1>1, <1>2, <1>4, <2>1, <2>6, <2>7, <2>9 DEF Owned
    <2> QED
      BY <1>7, <2>1, <2>2, <2>4, <2>8, <2>10, BelowNone DEF e, n
  <1>8. CASE Len(rstack) > 1
    <2> DEFINE p == rstack[ridx].obj
               k == cur.idx + 1
    <2>1. root \in 1 .. n /\ root' = root /\ p \in Below(objs, root) /\ Within(objs, objs', p, k)
      BY <1>8, CreateExtends
    <2> HIDE DEF p, k
    <2>2. /\ Forest(objs') /\ Kids(objs', e) = {}
          /\ Kids(objs', p) = Kids(objs, p) \cup {e}
          /\ \A x \in 1 .. n : x # p => Kids(objs', x) = Kids(objs, x)
      BY <1>1, <1>2, <2>1, ForestWithin
    <2>3. Heap(objs', e) /\ p \in 1 .. n
      BY <1>4, <2>1, <2>2 DEF Forest, Within
    <2>4. Below(objs', root) = Below(objs, root) \cup {e}
      <3>1. Heap(objs', n + 1) /\ Kids(objs', n + 1) = {}
            /\ Kids(objs', p) = Kids(objs, p) \cup {n + 1}
        BY <2>2, <2>3
      <3> HIDE DEF n
      <3>2. Below(objs', root) = Below(objs, root) \cup {n + 1}
        BY <1>2, <2>1, <2>2, <3>1, BelowGrows
      <3> QED
        BY <3>2 DEF n
    <2> HIDE DEF e, n
    <2>5. ASSUME NEW o \in handed
          PROVE  Below(objs', o) = Below(objs, o)
      <3>1. o \in 1 .. n /\ n <= e /\ o # root
        BY <1>1, <1>2, <1>3 DEF e
      <3>2. Below(objs, o) \subseteq 1 .. n
        BY <1>2, <3>1, BelowIsClosed
      <3>3. p \notin Below(objs, o)
        <4>1. \A y, z \in 1 .. n : Kids(objs, y) \cap Kids(objs, z) # {} => y = z
          BY <1>2, UniqueParents DEF n
        <4>2. \A y \in 1 .. n : o \notin Kids(objs, y) /\ root \notin Kids(objs, y)
          BY <1>3
        <4>3. Below(objs, o) \cap Below(objs, root) = {}
          BY <1>2, <2>1, <3>1, <4>1, <4>2, NothingInCommon
        <4> QED
          BY <2>1, <4>3
      <3>4. \A x \in Below(objs, o) : Kids(objs', x) = Kids(objs, x)
        BY <2>2, <3>2, <3>3
      <3> QED
        BY <1>2, <2>3, <3>1, <3>4, BelowStays
    <2>6. live' = UNION {Below(objs', o) : o \in handed' \cup {root'}}
      BY <1>1, <1>3, <2>1, <2>4, <2>5
    <2>7. e \notin 1 .. n /\ e \in 1 .. e /\ 1 .. n \subseteq 1 .. e /\ root \in 0 .. e
      BY <1>1, <1>2 DEF e
    <2>8. HeapTyped'
      BY <1>1, <1>2, <1>4, <2>1, <2>7 DEF HeapTyped
    <2>9. ASSUME NEW o \in handed' \cup {root'}, NEW y \in 1 .. e
          PROVE  o \notin Kids(objs', y)
      <3>1. CASE y = e
        BY <2>2, <3>1
      <3>2. CASE y \in 1 .. n
        <4>1. Kids(objs', y) \subseteq Kids(objs, y) \cup {e}
          BY <2>2, <3>2
        <4>2. o \in handed \cup {root} /\ o \in 1 .. n
          BY <1>1, <1>2, <2>1
        <4> QED
          BY <1>3, <2>7, <3>2, <4>1, <4>2
      <3> QED
        BY <1>5, <3>1, <3>2 DEF e, n
    <2>10. Owned'
      BY <1>1, <1>3, <1>4, <2>1, <2>6, <2>9 DEF Owned
    <2> QED
      BY <2>1, <2>2, <2>3, <2>4, <2>8, <2>10 DEF p, n, e
  <1> QED
    BY <1>6, <1>7, <1>8


\* What moveToNextTask leaves of a stack: the tasks up to the first, from the
\* top, that is not for the last element of its array.
LeftOf(st, st2, m) ==
  /\ m \in 2 .. Len(st) /\ st[m].idx # st[m - 1].elements - 1
  /\ \A i \in m + 1 .. Len(st) : st[i].idx = st[i - 1].elements - 1
  /\ st2 \in Seq(Tasks) /\ Len(st2) = m
  /\ \A i \in 1 .. m - 1 : st2[i] = st[i]
  /\ st2[m] = Task(NoType, st[m].idx + 1, None)

LEMMA MovedIs ==
  ASSUME NEW st \in Seq(Tasks)
  PROVE  \/ /\ Moved(st) = <<>>
            /\ \A i \in 2 .. Len(st) : st[i].idx = st[i - 1].elements - 1
         \/ \E m \in 2 .. Len(st) : LeftOf(st, Moved(st), m)
PROOF
  <1> DEFINE open == {i \in 2 .. Len(st) : st[i].idx # st[i - 1].elements - 1}
             m == Max(open)
             new == Task(NoType, st[m].idx + 1, None)
  <1>1. Len(st) \in Nat /\ \A i \in 1 .. Len(st) : st[i] \in Tasks
    BY LenProperties, ElementOfSeq
  <1>2. Moved(st) = IF open = {} THEN <<>> ELSE Append(SubSeq(st, 1, m - 1), new)
    BY DEF Moved
  <1>3. CASE open = {}
    BY <1>2, <1>3
  <1>4. CASE open # {}
    <2>1. open \in SUBSET (0 .. Len(st))
      BY <1>1
    <2>2. m \in open /\ \A x \in open : x <= m
      <3> HIDE DEF open
      <3> QED
        BY <1>1, <1>4, <2>1, MaxIs
    <2>3. m \in 2 .. Len(st) /\ st[m].idx # st[m - 1].elements - 1
      BY <2>2
    <2>4. ASSUME NEW i \in m + 1 .. Len(st)
          PROVE  st[i].idx = st[i - 1].elements - 1
      <3>1. i \in 2 .. Len(st) /\ ~(i <= m)
        BY <1>1, <2>3
      <3>2. i \notin open
        BY <2>2, <3>1
      <3> QED
        BY <3>1, <3>2
    <2> HIDE DEF m, open
    <2>5. st[m].idx \in Int
      <3>1. st[m] \in Tasks
        BY <1>1, <2>3
      <3> QED
        BY <3>1 DEF Tasks
    <2>6. new \in Tasks
      BY <2>5, ReaderAssumption, SMTT(30) DEF Task, Tasks, None
    <2> DEFINE init == SubSeq(st, 1, m - 1)
    <2>7. init \in Seq(Tasks) /\ Len(init) = m - 1 /\ \A i \in 1 .. m - 1 : init[i] = st[i]
      <3>1. \A i \in 1 .. m - 1 : st[i] \in Tasks /\ i \in 1 .. m - 1 - 1 + 1 /\ 1 + i - 1 = i
        BY <1>1, <2>3
      <3>2. 1 \in Int /\ m - 1 \in Int /\ 1 <= m - 1 /\ m - 1 - 1 + 1 = m - 1
        BY <1>1, <2>3
      <3> HIDE DEF new
      <3>3. /\ SubSeq(st, 1, m - 1) \in Seq(Tasks)
            /\ Len(SubSeq(st, 1, m - 1)) = IF 1 <= m - 1 THEN m - 1 - 1 + 1 ELSE 0
            /\ \A i \in 1 .. m - 1 - 1 + 1 : SubSeq(st, 1, m - 1)[i] = st[1 + i - 1]
        BY <3>1, <3>2, SubSeqProperties
      <3> QED
        BY <3>1, <3>2, <3>3
    <2> HIDE DEF init, new
    <2>8. /\ Append(init, new) \in Seq(Tasks) /\ Len(Append(init, new)) = m
          /\ \A i \in 1 .. m - 1 : Append(init, new)[i] = st[i]
          /\ Append(init, new)[m] = new
      <3>1. /\ Append(init, new) \in Seq(Tasks) /\ Len(Append(init, new)) = Len(init) + 1
            /\ \A i \in 1 .. Len(init) : Append(init, new)[i] = init[i]
            /\ Append(init, new)[Len(init) + 1] = new
        BY <2>6, <2>7, AppendProperties
      <3>2. m - 1 + 1 = m
        BY <2>3
      <3> QED
        BY <2>7, <3>1, <3>2
    <2>9. Moved(st) = Append(init, new)
      BY <1>2, <1>4 DEF init
    <2>10. LeftOf(st, Moved(st), m)
      BY <2>3, <2>4, <2>8, <2>9 DEF LeftOf, new
    <2> QED
      BY <2>3, <2>10
  <1> QED
    BY <1>3, <1>4

\* What the reader is building is still filled in order after a new object.
LEMMA CreateFills ==
  ASSUME IInvA, rstack # <<>>, NEW type \in Types, NEW s \in Seq(Chars), NEW m \in Nat,
         Create(type, s, m), NEW i \in 1 .. Len(rstack) - 1
  PROVE  /\ Fills(i, rstack, objs', root') /\ rstack[i].obj \in 1 .. Len(objs)
         /\ Len(objs'[rstack[i].obj].elems) = Len(objs[rstack[i].obj].elems)
PROOF
  <1> DEFINE L == Len(rstack)
             n == Len(objs)
             p == rstack[ridx].obj
             h == cur.idx + 1
             o == rstack[i].obj
             k == rstack[i + 1].idx
  <1>1. L \in Nat /\ L > 1 /\ ridx = L - 1 /\ L - 1 \in 1 .. L - 1 /\ n \in Nat
    BY StackFields, LenProperties DEF ridx, IInvA, HeapTyped
  <1>2. /\ o \in Below(objs, root) /\ rstack[i].elements = Len(objs[o].elems)
        /\ k \in 0 .. rstack[i].elements - 1
        /\ \A j \in DOMAIN objs[o].elems : j > k + 1 => objs[o].elems[j] = None
    <2>1. Fills(i, rstack, objs, root)
      BY DEF IInvA, Filling
    <2> QED
      BY <2>1 DEF Fills
  <1>3. root \in 1 .. n /\ Within(objs, objs', p, h) /\ root' = root
    BY <1>1, CreateExtends
  <1>4. o \in 1 .. n
    <2>1. Heap(objs, n)
      BY DEF IInvA, Forest
    <2>2. Below(objs, root) \subseteq 1 .. n
      BY <1>3, <2>1, BelowIsClosed
    <2> QED
      BY <1>2, <2>2
  <1>5. o \in Below(objs', root')
    BY <1>2, CreateKeeps
  <1>6. i < L - 1 => o # p
    <2>1. \A a, b \in 1 .. L - 1 : a < b => rstack[a].obj < rstack[b].obj
      BY DEF IInvA, Filling
    <2>2. i < L - 1 => o < p
      BY <1>1, <2>1
    <2> QED
      BY <1>4, <2>2
  <1>7. i = L - 1 => o = p /\ h = k + 1
    <2>1. L - 1 + 1 = L
      BY <1>1
    <2> QED
      BY <1>1, <2>1 DEF cur
  <1> DEFINE q == objs[o].elems
             q2 == objs'[o].elems
  <1>8. q \in Seq(0 .. MaxObjects) /\ DOMAIN q = 1 .. Len(q) /\ Len(q) \in Nat
    BY <1>4, CellFields DEF IInvA, HeapTyped
  <1> HIDE DEF q, q2, o, h, k, p, n
  <1>9. /\ DOMAIN q2 = DOMAIN q /\ Len(q2) = Len(q)
        /\ \A j \in DOMAIN q : j > k + 1 => q2[j] = q[j]
    <2>1. CASE o = p
      <3>1. q2 = [q EXCEPT ![h] = n + 1] /\ h \in DOMAIN q
        BY <1>3, <2>1 DEF Within, q, q2, n
      <3>2. i = L - 1
        BY <1>1, <1>6, <2>1
      <3>3. Len(q2) = Len(q) /\ DOMAIN q2 = DOMAIN q
        BY <1>8, <3>1
      <3>4. \A j \in DOMAIN q : j # h => q2[j] = q[j]
        BY <1>8, <3>1
      <3>5. k \in Int
        BY <1>2
      <3> QED
        BY <1>7, <1>8, <3>2, <3>3, <3>4, <3>5
    <2>2. CASE o # p
      <3>1. q2 = q
        BY <1>3, <1>4, <2>2 DEF Within, q, q2, n
      <3> QED
        BY <3>1
    <2> QED
      BY <2>1, <2>2
  <1>10. Fills(i, rstack, objs', root')
    BY <1>2, <1>5, <1>9 DEF Fills, o, k, q, q2
  <1> QED
    BY <1>4, <1>9, <1>10 DEF o, q, q2, n

LEMMA FilledMoved ==
  ASSUME IInvA, NEW os, NEW top, NEW st2, NEW m \in 2 .. Len(rstack),
         LeftOf(rstack, st2, m),
         \A i \in 1 .. Len(rstack) - 1 : /\ Fills(i, rstack, os, top)
                                         /\ Len(os[rstack[i].obj].elems) \in Nat
                                         /\ DOMAIN os[rstack[i].obj].elems
                                            = 1 .. Len(os[rstack[i].obj].elems)
  PROVE  /\ \A i \in 1 .. m - 1 : Fills(i, st2, os, top)
         /\ os[st2[m - 1].obj].elems[st2[m].idx + 1] = None
         /\ \A i, j \in 1 .. m - 1 : i < j => st2[i].obj < st2[j].obj
PROOF
  <1>0. Len(rstack) \in Nat
    BY StackFields DEF IInvA
  <1>1. /\ Len(st2) = m /\ rstack[m].idx # rstack[m - 1].elements - 1
        /\ \A i \in 1 .. m - 1 : st2[i] = rstack[i]
        /\ st2[m].idx = rstack[m].idx + 1
    BY DEF LeftOf, Task
  <1> DEFINE o == rstack[m - 1].obj
             k == rstack[m].idx
             q == os[o].elems
  <1>2. /\ o \in Below(os, top) /\ rstack[m - 1].elements = Len(q)
        /\ k \in 0 .. Len(q) - 1 /\ Len(q) \in Nat /\ DOMAIN q = 1 .. Len(q)
        /\ \A j \in DOMAIN q : j > k + 1 => q[j] = None
    <2>1. m - 1 \in 1 .. Len(rstack) - 1 /\ m - 1 + 1 = m
      BY <1>0
    <2>2. Fills(m - 1, rstack, os, top) /\ Len(q) \in Nat /\ DOMAIN q = 1 .. Len(q)
      BY <2>1
    <2> QED
      BY <2>1, <2>2 DEF Fills
  <1>8. k # Len(q) - 1
    BY <1>1, <1>2
  <1>3. k + 1 \in 0 .. Len(q) - 1 /\ k + 1 + 1 \in DOMAIN q /\ k + 1 + 1 > k + 1
    <2> DEFINE l == Len(q)
    <2>1. k \in 0 .. l - 1 /\ l \in Nat /\ DOMAIN q = 1 .. l /\ k # l - 1
      BY <1>2, <1>8
    <2> HIDE DEF k, q, l
    <2>3. k \in 0 .. l - 1 /\ l \in Nat /\ k # l - 1
      BY <2>1
    <2>4. k \in Nat /\ k <= l - 2
      BY <2>3
    <2>2. k + 1 \in 0 .. l - 1 /\ k + 1 + 1 \in 1 .. l /\ k + 1 + 1 > k + 1
      BY <2>3, <2>4
    <2> QED
      BY <2>1, <2>2 DEF l
  <1>4. ASSUME NEW i \in 1 .. m - 1
        PROVE  Fills(i, st2, os, top)
    <2>1. CASE i = m - 1
      <3>1. st2[i] = rstack[m - 1] /\ i + 1 = m
        BY <1>0, <1>1, <2>1
      <3>2. st2[i + 1].idx = k + 1 /\ st2[i].obj = o /\ st2[i].elements = Len(q)
        BY <1>1, <1>2, <3>1
      <3>3. \A j \in DOMAIN q : j > k + 1 + 1 => q[j] = None
        BY <1>2
      <3> HIDE DEF q, k
      <3> QED
        BY <1>2, <1>3, <3>2, <3>3 DEF Fills, q
    <2>2. CASE i # m - 1
      <3>1. i + 1 \in 1 .. m - 1 /\ i \in 1 .. Len(rstack) - 1
        BY <1>0, <2>2
      <3>2. st2[i] = rstack[i] /\ st2[i + 1] = rstack[i + 1]
        BY <1>1, <3>1
      <3>3. Fills(i, rstack, os, top)
        BY <3>1
      <3> QED
        BY <3>2, <3>3 DEF Fills
    <2> QED
      BY <2>1, <2>2
  <1>5. q[k + 1 + 1] = None
    <2> HIDE DEF k, q
    <2> QED
      BY <1>2, <1>3
  <1>6. os[st2[m - 1].obj].elems[st2[m].idx + 1] = None
    <2>1. st2[m - 1] = rstack[m - 1]
      BY <1>0, <1>1
    <2> QED
      BY <1>1, <1>5, <2>1
  <1>7. \A i, j \in 1 .. m - 1 : i < j => st2[i].obj < st2[j].obj
    <2>1. \A i \in 1 .. m - 1 : i \in 1 .. Len(rstack) - 1
      BY <1>0
    <2> QED
      BY <1>1, <2>1 DEF IInvA, Filling
  <1> QED
    BY <1>4, <1>6, <1>7


LEMMA TokenTyped ==
  ASSUME IInvA, NEW i \in 1 .. Avail
  PROVE  /\ Tok(i).c \in Seq(Chars) /\ Tok(i).n \in Nat \cup {-1} /\ Tok(i) \in Tokens
         /\ pos + i \in 1 .. Len(buf)
PROOF
  <1>1. Len(buf) \in Nat /\ pos \in 0 .. Len(buf) /\ buf \in Seq(Tokens)
    BY LenProperties DEF IInvA, BytesTyped
  <1>2. pos + i \in 1 .. Len(buf)
    BY <1>1 DEF Avail
  <1>3. Tok(i) \in Tokens
    BY <1>1, <1>2, ElementOfSeq DEF Tok
  <1> QED
    BY <1>2, <1>3 DEF Tokens

LEMMA Released ==
  ASSUME IInvA, NEW o \in handed \cup {root}
  PROVE  live \ Below(objs, o) = UNION {Below(objs, x) : x \in (handed \cup {root}) \ {o}}
PROOF
  <1> DEFINE S == handed \cup {root}
  <1>1. /\ Forest(objs) /\ S \subseteq 0 .. Len(objs)
        /\ \A x \in S : \A y \in 1 .. Len(objs) : x \notin Kids(objs, y)
        /\ live = UNION {Below(objs, x) : x \in S}
    BY DEF IInvA, HeapTyped, Owned
  <1> HIDE DEF S
  <1>2. o \in S
    BY DEF S
  <1>3. (UNION {Below(objs, x) : x \in S}) \ Below(objs, o)
        = UNION {Below(objs, x) : x \in S \ {o}}
    BY <1>1, <1>2, Pruned
  <1> QED
    BY <1>1, <1>3 DEF S

\* The state after what was being built has been freed.
LEMMA ReleasedRoot ==
  ASSUME IInvA, live' = live \ Below(objs, root), root' = None, objs' = objs, handed' = handed
  PROVE  HeapTyped' /\ Owned' /\ Forest(objs)'
PROOF
  <1>1. live \ Below(objs, root) = UNION {Below(objs, x) : x \in (handed \cup {root}) \ {root}}
    BY Released
  <1>2. /\ root \notin handed /\ handed \subseteq 1 .. Len(objs) /\ Len(objs) \in Nat
        /\ \A o \in handed : \A y \in 1 .. Len(objs) : o \notin Kids(objs, y)
    BY LenProperties DEF IInvA, HeapTyped, Owned
  <1>3. (handed \cup {root}) \ {root} = handed
    BY <1>2
  <1>4. UNION {Below(objs, x) : x \in handed \cup {None}} = UNION {Below(objs, x) : x \in handed}
    BY BelowNone
  <1>5. live' = UNION {Below(objs, x) : x \in handed \cup {None}}
    <2>1. UNION {Below(objs, x) : x \in (handed \cup {root}) \ {root}}
          = UNION {Below(objs, x) : x \in handed}
      BY <1>3
    <2> QED
      BY <1>1, <1>4, <2>1
  <1>6. \A y : None \notin Kids(objs, y)
    BY DEF Kids
  <1>7. HeapTyped'
    BY <1>2 DEF HeapTyped, None, IInvA
  <1>8. Owned'
    <2>1. None \notin handed
      BY <1>2 DEF None
    <2> QED
      BY <1>2, <1>5, <1>6, <2>1 DEF Owned
  <1>9. Forest(objs)'
    BY DEF IInvA, Forest, Heap, Kids
  <1> QED
    BY <1>7, <1>8, <1>9

LEMMA EmptyStack ==
  ASSUME rstack' = <<>>
  PROVE  StackTyped' /\ Filling' /\ Len(rstack') = 0
PROOF
  <1>1. Len(rstack') = 0 /\ <<>> \in Seq(Tasks) /\ 1 .. 0 = {} /\ 1 .. 0 - 1 = {}
    BY EmptySeq
  <1> QED
    BY <1>1, ReaderAssumption DEF StackTyped, Filling

LEMMA NoBytes ==
  ASSUME buf' = <<>>, pos' = 0, stream' = stream, IInvA
  PROVE  BytesTyped'
BY EmptySeq DEF BytesTyped, IInvA

LEMMA SetErrorKeeps ==
  ASSUME IInvA, NEW type \in {"protocol", "oom"}, SetError(type), pc' = pc, pc # "freed",
         stream' = stream, asked' \in BOOLEAN
  PROVE  IInvA'
PROOF
  <1>1. /\ err' = type /\ buf' = <<>> /\ pos' = 0 /\ rstack' = <<>>
        /\ live' = live \ Below(objs, root) /\ root' = None /\ objs' = objs /\ handed' = handed
    BY DEF SetError
  <1>2. StackTyped' /\ Filling' /\ Len(rstack') = 0
    BY <1>1, EmptyStack
  <1>3. HeapTyped' /\ Owned' /\ Forest(objs)'
    BY <1>1, ReleasedRoot
  <1>4. BytesTyped'
    BY <1>1, NoBytes
  <1>5. Control'
    BY <1>1, <1>2 DEF IInvA, Control
  <1> QED
    BY <1>2, <1>3, <1>4, <1>5 DEF IInvA

LEMMA NotEmpty ==
  ASSUME IInvA, rstack # <<>>
  PROVE  err = "none" /\ pc # "freed" /\ Len(rstack) >= 1 /\ Len(rstack) \in Nat
BY StackFields DEF IInvA, Control

LEMMA ConsumeKeeps ==
  ASSUME IInvA, NEW n \in 0 .. Avail, Consume(n), stream' = stream
  PROVE  BytesTyped'
PROOF
  <1>1. buf' = buf /\ pos' = pos + n
    BY DEF Consume
  <1>2. Len(buf) \in Nat /\ pos \in 0 .. Len(buf)
    BY LenProperties DEF IInvA, BytesTyped
  <1>3. pos + n \in 0 .. Len(buf)
    BY <1>2 DEF Avail
  <1> QED
    BY <1>1, <1>3 DEF IInvA, BytesTyped

LEMMA FinishKeeps ==
  ASSUME IInvA, pc = "parse", pc' = pc, rstack # <<>>,
         NEW type \in Types, NEW s \in Seq(Chars), NEW n \in 0 .. Avail,
         Finish(type, s, n, Moved(rstack)), stream' = stream, asked' = asked
  PROVE  IInvA'
PROOF
  <1>1. CASE SetError("oom")
    BY <1>1, SetErrorKeeps DEF IInvA, Control
  <1>2. CASE Create(type, s, 0) /\ rstack' = Moved(rstack) /\ Consume(n)
    <2>1. HeapTyped' /\ Forest(objs)' /\ Owned' /\ Len(objs) + 1 \in Below(objs', root')
      BY <1>2, CreateKeeps
    <2>2. BytesTyped'
      BY <1>2, ConsumeKeeps
    <2>3. root' # None
      BY <2>1, BelowNone
    <2>4. err' = "none" /\ pc' = "parse"
      BY <1>2, NotEmpty DEF Consume
    <2>5. rstack \in Seq(Tasks)
      BY DEF IInvA, StackTyped
    <2>6. \/ rstack' = <<>>
          \/ \E m \in 2 .. Len(rstack) : LeftOf(rstack, rstack', m)
      BY <1>2, <2>5, MovedIs
    <2>7. CASE rstack' = <<>>
      <3>1. StackTyped' /\ Filling' /\ Len(rstack') = 0
        BY <2>7, EmptyStack
      <3>3. asked' \in BOOLEAN /\ Len(rstack') # 1
        <4>1. asked' \in BOOLEAN
          BY Zenon DEF IInvA, Control
        <4> QED
          BY <3>1, <4>1
      <3>2. Control'
        BY <2>3, <2>4, <3>3 DEF Control
      <3> QED
        BY <2>1, <2>2, <3>1, <3>2 DEF IInvA
    <2>8. CASE \E m \in 2 .. Len(rstack) : LeftOf(rstack, rstack', m)
      <3>1. PICK m \in 2 .. Len(rstack) : LeftOf(rstack, rstack', m)
        BY <2>8
      <3>2. ASSUME NEW i \in 1 .. Len(rstack) - 1
            PROVE  /\ Fills(i, rstack, objs', root')
                   /\ Len(objs'[rstack[i].obj].elems) \in Nat
                   /\ DOMAIN objs'[rstack[i].obj].elems
                      = 1 .. Len(objs'[rstack[i].obj].elems)
        <4> DEFINE o == rstack[i].obj
        <4>1. 0 \in Nat
          OBVIOUS
        <4>2. Fills(i, rstack, objs', root') /\ o \in 1 .. Len(objs)
          BY <1>2, <4>1, CreateFills
        <4>3. objs' \in Seq(Cells) /\ Len(objs') = Len(objs) + 1 /\ Len(objs) \in Nat
          BY <1>2, <4>1, CreateExtends DEF Extends
        <4>4. o \in 1 .. Len(objs')
          BY <4>2, <4>3
        <4> HIDE DEF o
        <4>5. Len(objs'[o].elems) \in Nat /\ DOMAIN objs'[o].elems = 1 .. Len(objs'[o].elems)
          BY <4>3, <4>4, CellFields
        <4> QED
          BY <4>2, <4>5 DEF o
      <3>3. /\ \A i \in 1 .. m - 1 : Fills(i, rstack', objs', root')
            /\ objs'[rstack'[m - 1].obj].elems[rstack'[m].idx + 1] = None
            /\ \A i, j \in 1 .. m - 1 : i < j => rstack'[i].obj < rstack'[j].obj
        BY <3>1, <3>2, FilledMoved
      <3>4. /\ rstack' \in Seq(Tasks) /\ Len(rstack') = m /\ m \in Nat /\ m > 1
            /\ \A i \in 1 .. m - 1 : rstack'[i] = rstack[i]
            /\ m <= Len(rstack)
        <4>1. Len(rstack) \in Nat /\ m \in 2 .. Len(rstack)
          BY <3>1, NotEmpty
        <4>2. m \in Nat /\ m > 1 /\ m <= Len(rstack)
          BY <4>1
        <4> QED
          BY <3>1, <4>2 DEF LeftOf
      <3>5. StackTyped'
        <4>1. ASSUME NEW i \in 1 .. m, i < m
              PROVE  rstack'[i].type = "array"
          <5>1. i \in 1 .. m - 1 /\ i \in 1 .. Len(rstack) /\ i < Len(rstack)
            <6>1. Len(rstack) \in Nat
              BY NotEmpty
            <6> QED
              BY <3>4, <4>1, <6>1
          <5> QED
            BY <3>4, <5>1 DEF IInvA, StackTyped
        <4>2. m <= MaxDepth + 1
          <5>1. Len(rstack) \in Nat /\ MaxDepth \in Nat
            BY NotEmpty, ReaderAssumption
          <5>2. Len(rstack) <= MaxDepth + 1
            BY DEF IInvA, StackTyped
          <5> QED
            BY <3>4, <5>1, <5>2
        <4> QED
          BY <3>4, <4>1, <4>2 DEF StackTyped
      <3>6. Filling'
        BY <3>3, <3>4 DEF Filling, ridx, cur
      <3>7. Control'
        <4>1. Len(rstack') # 1 /\ rstack' # <<>>
          BY <3>4, EmptySeq
        <4> QED
          BY <2>3, <2>4, <4>1 DEF IInvA, Control
      <3> QED
        BY <2>1, <2>2, <3>5, <3>6, <3>7 DEF IInvA
    <2> QED
      BY <2>6, <2>7, <2>8
  <1> QED
    BY <1>1, <1>2 DEF Finish

\* An array is entered.
Pushed(n) ==
  rstack' = Append([rstack EXCEPT ![Len(rstack)].elements = n,
                                  ![Len(rstack)].obj = New],
                   Task(NoType, 0, None))

LEMMA PushIs ==
  ASSUME IInvA, rstack # <<>>, NEW n \in Nat, Pushed(n), Len(objs) + 1 <= MaxObjects
  PROVE  /\ rstack' \in Seq(Tasks) /\ Len(rstack') = Len(rstack) + 1
         /\ \A i \in 1 .. Len(rstack) - 1 : rstack'[i] = rstack[i]
         /\ rstack'[Len(rstack)] = [rstack[Len(rstack)] EXCEPT !.elements = n,
                                                              !.obj = Len(objs) + 1]
         /\ rstack'[Len(rstack) + 1] = Task(NoType, 0, None)
PROOF
  <1> DEFINE L == Len(rstack)
             t == [rstack[L] EXCEPT !.elements = n, !.obj = Len(objs) + 1]
             st == [rstack EXCEPT ![L] = t]
             new == Task(NoType, 0, None)
  <1>1. L \in Nat /\ L >= 1 /\ rstack \in Seq(Tasks) /\ rstack[L] \in Tasks /\ Len(objs) \in Nat
    BY StackFields, LenProperties DEF IInvA, StackTyped, HeapTyped
  <1>2. t \in Tasks
    <2> DEFINE r == rstack[L]
    <2>3. r \in Tasks /\ t = [r EXCEPT !.elements = n, !.obj = Len(objs) + 1]
      BY <1>1
    <2>1. /\ r.type \in Types \cup {NoType} /\ r.idx \in Int
          /\ t = [type |-> r.type, elements |-> n, idx |-> r.idx, obj |-> Len(objs) + 1]
      <3> HIDE DEF t, r
      <3> QED
        BY <2>3 DEF Tasks
    <2>2. Len(objs) + 1 \in 0 .. MaxObjects
      BY <1>1, ReaderAssumption
    <2> HIDE DEF t, r
    <2> QED
      BY <2>1, <2>2 DEF Tasks
  <1>3. new \in Tasks
    BY ReaderAssumption DEF Task, Tasks, None
  <1>4. rstack' = Append(st, new)
    <2>1. [rstack EXCEPT ![Len(rstack)].elements = n, ![Len(rstack)].obj = New] = st
      BY <1>1, LenProperties DEF New
    <2> QED
      BY <2>1 DEF Pushed
  <1> HIDE DEF t, new
  <1>5. st \in Seq(Tasks) /\ Len(st) = L /\ \A j \in 1 .. L : st[j] = IF j = L THEN t ELSE rstack[j]
    <2> HIDE DEF L
    <2>1. L \in 1 .. Len(rstack)
      BY <1>1 DEF L
    <2> QED
      BY <1>1, <1>2, <2>1, ExceptSeq DEF L
  <1> HIDE DEF st, L
  <1>6. /\ rstack' \in Seq(Tasks) /\ Len(rstack') = L + 1
        /\ \A i \in 1 .. L : rstack'[i] = st[i]
        /\ rstack'[L + 1] = new
    BY <1>3, <1>4, <1>5, AppendProperties
  <1>7. \A i \in 1 .. L - 1 : i \in 1 .. L /\ i # L
    BY <1>1
  <1>8. L \in 1 .. L
    BY <1>1
  <1> QED
    BY <1>5, <1>6, <1>7, <1>8 DEF L, t, new

LEMMA PushKeeps ==
  ASSUME IInvA, pc = "parse", pc' = pc, rstack # <<>>, cur.type = "array",
         Len(rstack) <= MaxDepth,
         NEW n \in Nat \ {0}, Avail >= 1, Create("array", <<>>, n), Consume(1), Pushed(n),
         stream' = stream, asked' = asked
  PROVE  IInvA'
PROOF
  <1> DEFINE L == Len(rstack)
             e == Len(objs) + 1
  <1>1. "array" \in Types /\ <<>> \in Seq(Chars) /\ n \in Nat /\ L \in Nat /\ L >= 1
    BY EmptySeq, NotEmpty DEF Types
  <1>2. HeapTyped' /\ Forest(objs)' /\ Owned' /\ e \in Below(objs', root')
    BY <1>1, CreateKeeps
  <1>3. /\ Extends(objs, objs', Cell("array", <<>>, n)) /\ e <= MaxObjects /\ Len(objs) \in Nat
    BY <1>1, CreateExtends
  <1>4. /\ rstack' \in Seq(Tasks) /\ Len(rstack') = L + 1
        /\ \A i \in 1 .. L - 1 : rstack'[i] = rstack[i]
        /\ rstack'[L] = [rstack[L] EXCEPT !.elements = n, !.obj = e]
        /\ rstack'[L + 1] = Task(NoType, 0, None)
    BY <1>1, <1>3, PushIs
  <1>5. rstack[L] \in Tasks
    BY <1>1, StackFields DEF IInvA
  <1> HIDE DEF L, e
  <1>6. /\ rstack'[L].type = rstack[L].type /\ rstack'[L].idx = rstack[L].idx
        /\ rstack'[L].elements = n /\ rstack'[L].obj = e
        /\ rstack'[L + 1].idx = 0
    BY <1>4, <1>5 DEF Tasks, Task
  <1>7. BytesTyped'
    <2>1. 1 \in 0 .. Avail
      BY LenProperties DEF Avail, IInvA, BytesTyped
    <2> QED
      BY <2>1, ConsumeKeeps
  <1>8. StackTyped'
    <2>1. ASSUME NEW i \in 1 .. L + 1, i < L + 1
          PROVE  rstack'[i].type = "array"
      <3>1. CASE i = L
        BY <1>6, <3>1 DEF cur, L
      <3>2. CASE i # L
        <4>1. i \in 1 .. L - 1 /\ i \in 1 .. L /\ i < L
          BY <1>1, <2>1, <3>2
        <4> QED
          BY <1>4, <4>1 DEF IInvA, StackTyped, L
      <3> QED
        BY <3>1, <3>2
    <2>2. L + 1 <= MaxDepth + 1
      BY <1>1, ReaderAssumption DEF L
    <2> QED
      BY <1>4, <2>1, <2>2 DEF StackTyped
  <1>9. root' # None
    BY <1>2, BelowNone
  <1>10. Control'
    <2>1. rstack' # <<>> /\ Len(rstack') # 1
      BY <1>1, <1>4, EmptySeq
    <2>2. err' = "none" /\ pc' = "parse"
      BY NotEmpty DEF Consume
    <2> QED
      BY <1>9, <2>1, <2>2 DEF IInvA, Control
  <1>11. objs'[e].elems = [i \in 1 .. n |-> None]
    BY <1>3 DEF Extends, Cell, e
  <1>12. Fills(L, rstack', objs', root') /\ objs'[rstack'[L].obj].elems[rstack'[L + 1].idx + 1] = None
    <2>1. Len(objs'[e].elems) = n /\ DOMAIN objs'[e].elems = 1 .. n
      BY <1>1, <1>11
    <2>2. 0 \in 0 .. n - 1 /\ 1 \in 1 .. n
      OBVIOUS
    <2> QED
      BY <1>2, <1>6, <1>11, <2>1, <2>2 DEF Fills
  <1>13. ASSUME NEW i \in 1 .. L - 1
         PROVE  Fills(i, rstack', objs', root') /\ rstack[i].obj \in 1 .. Len(objs)
    <2>1. Fills(i, rstack, objs', root') /\ rstack[i].obj \in 1 .. Len(objs)
      BY <1>1, CreateFills DEF L
    <2>2. rstack'[i] = rstack[i]
      BY <1>4
    <2>3. rstack'[i + 1].idx = rstack[i + 1].idx
      <3>1. CASE i + 1 = L
        BY <1>6, <3>1
      <3>2. CASE i + 1 # L
        <4>1. i + 1 \in 1 .. L - 1
          BY <1>1, <3>2
        <4> QED
          BY <1>4, <4>1
      <3> QED
        BY <3>1, <3>2
    <2> QED
      BY <2>1, <2>2, <2>3 DEF Fills
  <1>14. Filling'
    <2>1. ASSUME NEW i \in 1 .. L
          PROVE  Fills(i, rstack', objs', root')
      <3>1. CASE i = L
        BY <1>12, <3>1
      <3>2. CASE i # L
        <4>1. i \in 1 .. L - 1
          BY <1>1, <3>2
        <4> QED
          BY <1>13, <4>1
      <3> QED
        BY <3>1, <3>2
    <2>2. ASSUME NEW i \in 1 .. L, NEW j \in 1 .. L, i < j
          PROVE  rstack'[i].obj < rstack'[j].obj
      <3>1. i \in 1 .. L - 1 /\ rstack'[i] = rstack[i] /\ rstack[i].obj \in 1 .. Len(objs)
        BY <1>1, <1>4, <1>13, <2>2
      <3>2. CASE j = L
        BY <1>3, <1>6, <3>1, <3>2 DEF e
      <3>3. CASE j # L
        <4>1. j \in 1 .. L - 1 /\ rstack'[j] = rstack[j]
          BY <1>1, <1>4, <3>3
        <4> QED
          BY <2>2, <3>1, <4>1 DEF IInvA, Filling, L
      <3> QED
        BY <3>2, <3>3
    <2>3. Len(rstack') - 1 = L /\ Len(rstack') = L + 1
      BY <1>1, <1>4
    <2>4. objs'[rstack'[Len(rstack') - 1].obj].elems[rstack'[Len(rstack')].idx + 1] = None
      BY <1>12, <2>3
    <2> QED
      BY <2>1, <2>2, <2>3, <2>4 DEF Filling, ridx, cur
  <1> QED
    BY <1>2, <1>7, <1>8, <1>10, <1>14 DEF IInvA


LEMMA FlattenOne ==
  ASSUME NEW T, NEW s \in Seq(T)
  PROVE  FlattenSeq(<<s>>) = s
PROOF
  <1>1. <<>> \in Seq(Seq(T))
    BY EmptySeq
  <1>2. FlattenSeq(Append(<<>>, s)) = FlattenSeq(<<>>) \o s
    BY <1>1, FlattenMore
  <1>3. <<>> \o s = s
    BY ConcatEmptySeq
  <1>4. Append(<<>>, s) = <<s>>
    OBVIOUS
  <1> QED
    BY <1>2, <1>3, <1>4, FlattenNothing

\* The stream is that of replies, also when a command is sent.
LEMMA StreamIs ==
  ASSUME Init
  PROVE  /\ sent \in Seq(Replies) /\ stream = FlattenSeq(Wires(sent)) /\ stream \in Seq(Tokens)
PROOF
  <1>1. CASE sent \in Streams /\ stream = FlattenSeq([i \in DOMAIN sent |-> Wire[sent[i]]])
    <2>1. sent \in Seq(Replies)
      BY <1>1, ReaderAssumption
    <2>2. stream = FlattenSeq(Wires(sent))
      BY <1>1 DEF Wires
    <2>3. Wires(sent) \in Seq(Seq(Tokens))
      BY <2>1, WiresTyped
    <2> QED
      BY <2>1, <2>2, <2>3, JoinTyped
  <1>2. CASE \E f \in Formats : /\ FormatArgs(f).err = 0 /\ sent = <<Meant(f)>>
                                /\ stream = Command(FormatArgs(f).argv)
    <2>1. PICK f \in Formats : /\ FormatArgs(f).err = 0 /\ sent = <<Meant(f)>>
                               /\ stream = Command(FormatArgs(f).argv)
      BY <1>2
    <2> DEFINE r == Meant(f)
    <2>2. r \in Replies /\ <<r>> \in Seq(Replies) /\ stream = Wire[r]
      BY <2>1, RoundTrip
    <2> HIDE DEF r
    <2>3. stream \in Seq(Tokens)
      BY <2>2, WireTyped
    <2>4. sent = <<r>>
      BY <2>1 DEF r
    <2>5. Wires(sent) = <<stream>>
      BY <2>2, <2>4 DEF Wires
    <2>6. FlattenSeq(<<stream>>) = stream
      BY <2>3, FlattenOne
    <2> QED
      BY <2>2, <2>3, <2>4, <2>5, <2>6
  <1> QED
    BY <1>1, <1>2 DEF Init

LEMMA InitA ==
  ASSUME Init
  PROVE  IInvA
PROOF
  <1>1. /\ pc = "idle" /\ err = "none" /\ buf = <<>> /\ pos = 0 /\ rstack = <<>>
        /\ root = None /\ objs = <<>> /\ live = {} /\ handed = {}
    BY DEF Init
  <1>2. BytesTyped
    BY <1>1, StreamIs, EmptySeq DEF BytesTyped
  <1>3. HeapTyped
    BY <1>1, EmptySeq, ReaderAssumption DEF HeapTyped, None
  <1>4. StackTyped
    <2>1. 1 .. 0 = {} /\ Len(rstack) = 0 /\ rstack \in Seq(Tasks)
      BY <1>1, EmptySeq
    <2> QED
      BY <2>1, ReaderAssumption DEF StackTyped
  <1>5. Control
    <2>1. asked \in BOOLEAN
      BY DEF Init
    <2>2. Len(rstack) # 1
      BY <1>1, EmptySeq
    <2> QED
      BY <1>1, <2>1, <2>2 DEF Control
  <1>6. Forest(objs)
    <2>1. Len(objs) = 0 /\ 1 .. 0 = {} /\ DOMAIN objs = {}
      BY <1>1, EmptySeq
    <2> QED
      BY <2>1 DEF Forest, Heap
  <1>7. Owned
    <2>1. Len(objs) = 0 /\ 1 .. 0 = {}
      BY <1>1, EmptySeq
    <2>2. UNION {Below(objs, o) : o \in {} \cup {None}} = {}
      BY BelowNone
    <2> QED
      BY <1>1, <2>1, <2>2 DEF Owned
  <1>8. Filling
    <2>1. Len(rstack) = 0 /\ 1 .. 0 - 1 = {}
      BY <1>1, EmptySeq
    <2> QED
      BY <2>1 DEF Filling
  <1> QED
    BY <1>2, <1>3, <1>4, <1>5, <1>6, <1>7, <1>8 DEF IInvA

LEMMA ReadTypeIs ==
  ASSUME IInvA, rstack # <<>>, NEW type \in Types,
         rstack' = [rstack EXCEPT ![Len(rstack)].type = type]
  PROVE  /\ rstack' \in Seq(Tasks) /\ Len(rstack') = Len(rstack)
         /\ \A i \in 1 .. Len(rstack) :
              /\ i # Len(rstack) => rstack'[i] = rstack[i]
              /\ rstack'[i].idx = rstack[i].idx /\ rstack'[i].elements = rstack[i].elements
              /\ rstack'[i].obj = rstack[i].obj
         /\ rstack'[Len(rstack)].type = type
PROOF
  <1> DEFINE L == Len(rstack)
             r == rstack[L]
             t == [r EXCEPT !.type = type]
  <1>1. L \in Nat /\ L >= 1 /\ L \in 1 .. L /\ rstack \in Seq(Tasks) /\ r \in Tasks
    BY StackFields DEF IInvA, StackTyped
  <1>2. rstack' = [rstack EXCEPT ![L] = t]
    OBVIOUS
  <1> HIDE DEF r
  <1>3. /\ t \in Tasks /\ t.idx = r.idx /\ t.elements = r.elements /\ t.obj = r.obj
        /\ t.type = type
    BY <1>1 DEF Tasks
  <1> HIDE DEF t
  <1>4. /\ rstack' \in Seq(Tasks) /\ Len(rstack') = L
        /\ \A i \in 1 .. L : rstack'[i] = IF i = L THEN t ELSE rstack[i]
    BY <1>1, <1>2, <1>3, ExceptSeq, SMTT(30)
  <1> QED
    BY <1>1, <1>3, <1>4 DEF r

LEMMA ReadTypeKeepsA ==
  ASSUME IInvA, ReadType
  PROVE  IInvA'
PROOF
  <1> DEFINE L == Len(rstack)
             type == TypeOf(Tok(1).c[1])
  <1>1. /\ pc = "parse" /\ rstack # <<>> /\ cur.type = NoType /\ Avail >= 1
        /\ pc' = pc /\ stream' = stream /\ err = "none" /\ pc # "freed"
        /\ L \in Nat /\ L >= 1
    BY NotEmpty DEF ReadType, user
  <1>4. asked' = asked
    BY DEF ReadType
  <1>5. asked' \in BOOLEAN
    BY <1>4, Zenon DEF IInvA, Control
  <1>2. CASE type = NoType
    <2>1. SetError("protocol")
      BY <1>2 DEF ReadType
    <2> QED
      BY <1>1, <1>5, <2>1, SetErrorKeeps
  <1>3. CASE type # NoType
    <2> HIDE DEF type
    <2>1. /\ rstack' = [rstack EXCEPT ![Len(rstack)].type = type]
          /\ Consume(1) /\ UNCHANGED <<root, heap>>
      BY <1>3 DEF ReadType, type
    <2>2. type \in Types
      BY <1>3 DEF type, TypeOf, Types
    <2>3. /\ rstack' \in Seq(Tasks) /\ Len(rstack') = L
          /\ \A i \in 1 .. L :
               /\ i # L => rstack'[i] = rstack[i]
               /\ rstack'[i].idx = rstack[i].idx /\ rstack'[i].elements = rstack[i].elements
               /\ rstack'[i].obj = rstack[i].obj
          /\ rstack'[L].type = type
      BY <1>1, <2>1, <2>2, ReadTypeIs
    <2>4. BytesTyped'
      <3>1. 1 \in 0 .. Avail
        BY <1>1, LenProperties DEF Avail, IInvA, BytesTyped
      <3> QED
        BY <1>1, <2>1, <3>1, ConsumeKeeps
    <2>5. /\ root' = root /\ objs' = objs /\ live' = live /\ handed' = handed
      BY <2>1 DEF heap
    <2>6. HeapTyped' /\ Forest(objs)' /\ Owned'
      BY <2>5 DEF IInvA, HeapTyped, Owned
    <2> HIDE DEF L
    <2>7. StackTyped'
      <3>1. ASSUME NEW i \in 1 .. L, i < L
            PROVE  rstack'[i].type = "array"
        <4>1. rstack'[i] = rstack[i]
          BY <2>3, <3>1
        <4> QED
          BY <3>1, <4>1 DEF IInvA, StackTyped, L
      <3> QED
        BY <2>3, <3>1 DEF IInvA, StackTyped, L
    <2>8. Control'
      <3>1. err' = "none" /\ pc' = "parse" /\ rstack' # <<>>
        BY <1>1, <2>1, <2>3, EmptySeq DEF Consume
      <3>3. Len(rstack') = 1 => root' = None
        BY <2>3, <2>5 DEF IInvA, Control, L
      <3> QED
        BY <1>5, <3>1, <3>3 DEF Control
    <2>9. Filling'
      <3>1. ASSUME NEW i \in 1 .. L - 1
            PROVE  Fills(i, rstack', objs', root') /\ rstack'[i].obj = rstack[i].obj
        <4>1. i \in 1 .. L /\ i + 1 \in 1 .. L
          BY <1>1
        <4>2. Fills(i, rstack, objs, root)
          BY DEF IInvA, Filling, L
        <4> QED
          BY <2>3, <2>5, <4>1, <4>2 DEF Fills
      <3>2. \A i, j \in 1 .. L - 1 : i < j => rstack'[i].obj < rstack'[j].obj
        BY <3>1 DEF IInvA, Filling, L
      <3>3. L > 1 => objs'[rstack'[L - 1].obj].elems[rstack'[L].idx + 1] = None
        <4>1. SUFFICES ASSUME L > 1
                       PROVE  objs'[rstack'[L - 1].obj].elems[rstack'[L].idx + 1] = None
          OBVIOUS
        <4>2. L - 1 \in 1 .. L - 1 /\ L \in 1 .. L
          BY <1>1, <4>1
        <4>3. objs[rstack[L - 1].obj].elems[rstack[L].idx + 1] = None
          BY <4>1 DEF IInvA, Filling, ridx, cur, L
        <4> QED
          BY <2>3, <2>5, <3>1, <4>2, <4>3
      <3> QED
        BY <2>3, <3>1, <3>2, <3>3 DEF Filling, ridx, cur
    <2> QED
      BY <2>4, <2>6, <2>7, <2>8, <2>9 DEF IInvA
  <1> QED
    BY <1>2, <1>3

LEMMA LineKeepsA ==
  ASSUME IInvA, ProcessLineItem
  PROVE  IInvA'
PROOF
  <1>1. /\ pc = "parse" /\ rstack # <<>> /\ cur.type \in {"error", "status", "integer"}
        /\ Avail >= 1 /\ Finish(cur.type, Tok(1).c, 1, Moved(rstack))
        /\ pc' = pc /\ stream' = stream
    BY DEF ProcessLineItem, user
  <1>5. asked' = asked
    BY DEF ProcessLineItem
  <1>2. Avail \in Int
    BY LenProperties DEF Avail, IInvA, BytesTyped
  <1>3. cur.type \in Types /\ 1 \in 1 .. Avail /\ 1 \in 0 .. Avail
    BY <1>1, <1>2 DEF Types
  <1>4. Tok(1).c \in Seq(Chars)
    BY <1>3, TokenTyped
  <1> QED
    BY <1>1, <1>3, <1>4, <1>5, FinishKeeps

LEMMA BulkKeepsA ==
  ASSUME IInvA, ProcessBulkItem
  PROVE  IInvA'
PROOF
  <1>1. /\ pc = "parse" /\ rstack # <<>> /\ BulkReady
        /\ pc' = pc /\ stream' = stream
    BY DEF ProcessBulkItem, user
  <1>7. asked' = asked
    BY DEF ProcessBulkItem
  <1>2. Avail \in Int
    BY LenProperties DEF Avail, IInvA, BytesTyped
  <1>3. Avail >= 1 /\ (Tok(1).n < 0 \/ Avail >= 2) /\ 1 \in 1 .. Avail /\ 1 \in 0 .. Avail
    BY <1>1, <1>2 DEF BulkReady
  <1>4. "nil" \in Types /\ "string" \in Types /\ <<>> \in Seq(Chars)
    BY EmptySeq DEF Types
  <1>5. CASE Tok(1).n < 0
    <2>1. Finish("nil", <<>>, 1, Moved(rstack))
      BY <1>5 DEF ProcessBulkItem
    <2> QED
      BY <1>1, <1>3, <1>4, <1>7, <2>1, FinishKeeps
  <1>6. CASE ~(Tok(1).n < 0)
    <2>1. Avail >= 2 /\ 2 \in 1 .. Avail /\ 2 \in 0 .. Avail
      BY <1>2, <1>3, <1>6
    <2>2. Finish("string", Tok(2).c, 2, Moved(rstack))
      BY <1>6, <2>1 DEF ProcessBulkItem
    <2>3. Tok(2).c \in Seq(Chars)
      BY <2>1, TokenTyped
    <2> QED
      BY <1>1, <1>4, <1>7, <2>1, <2>2, <2>3, FinishKeeps
  <1> QED
    BY <1>5, <1>6

LEMMA MultiBulkKeepsA ==
  ASSUME IInvA, ProcessMultiBulkItem
  PROVE  IInvA'
PROOF
  <1>1. /\ pc = "parse" /\ rstack # <<>> /\ cur.type = "array"
        /\ (TooDeep \/ Avail >= 1) /\ pc' = pc /\ stream' = stream /\ pc # "freed"
    BY DEF ProcessMultiBulkItem, user
  <1>5. asked' = asked
    BY DEF ProcessMultiBulkItem
  <1>6. asked' \in BOOLEAN
    BY <1>5, Zenon DEF IInvA, Control
  <1>2. Avail \in Int
    BY LenProperties DEF Avail, IInvA, BytesTyped
  <1>3. CASE TooDeep
    <2>1. SetError("protocol")
      BY <1>3 DEF ProcessMultiBulkItem
    <2> QED
      BY <1>1, <1>6, <2>1, SetErrorKeeps
  <1>4. CASE ~TooDeep
    <2> DEFINE n == Tok(1).n
    <2>1. Avail >= 1 /\ 1 \in 1 .. Avail /\ 1 \in 0 .. Avail
      BY <1>1, <1>2, <1>4
    <2>2. n \in Nat \cup {-1}
      BY <2>1, TokenTyped
    <2>3. "nil" \in Types /\ "array" \in Types /\ <<>> \in Seq(Chars)
      BY EmptySeq DEF Types
    <2>4. CASE n = -1
      <3>1. Finish("nil", <<>>, 1, Moved(rstack))
        BY <1>4, <2>4 DEF ProcessMultiBulkItem
      <3> QED
        BY <1>1, <1>5, <2>1, <2>3, <3>1, FinishKeeps
    <2>5. CASE n = 0
      <3>1. Finish("array", <<>>, 1, Moved(rstack))
        BY <1>4, <2>5 DEF ProcessMultiBulkItem
      <3> QED
        BY <1>1, <1>5, <2>1, <2>3, <3>1, FinishKeeps
    <2>6. CASE n \notin {-1, 0}
      <3>1. n \in Nat \ {0}
        BY <2>2, <2>6
      <3>2. \/ Create("array", <<>>, n) /\ Consume(1) /\ Pushed(n)
            \/ SetError("oom")
        <4>1. n # -1 /\ n # 0
          BY <2>6
        <4> QED
          BY <1>4, <4>1 DEF ProcessMultiBulkItem, Pushed
      <3>3. CASE SetError("oom")
        BY <1>1, <1>6, <3>3, SetErrorKeeps
      <3>4. CASE Create("array", <<>>, n) /\ Consume(1) /\ Pushed(n)
        <4>1. Len(rstack) <= MaxDepth
          <5>1. Len(rstack) \in Nat /\ Len(rstack) <= MaxDepth + 1 /\ MaxDepth \in Nat
            BY StackFields, ReaderAssumption DEF IInvA, StackTyped
          <5>2. Len(rstack) - 1 # MaxDepth
            BY <1>4 DEF TooDeep, ridx
          <5> QED
            BY <5>1, <5>2
        <4> HIDE DEF n
        <4> QED
          BY <1>1, <1>5, <2>1, <3>1, <3>4, <4>1, PushKeeps
      <3> QED
        BY <3>2, <3>3, <3>4
    <2> QED
      BY <2>4, <2>5, <2>6
  <1> QED
    BY <1>3, <1>4


LEMMA ParseEndsKeepsA ==
  ASSUME IInvA, ParseEnds
  PROVE  IInvA'
PROOF
  <1>1. /\ pc = "parse" /\ pc' = "emit"
        /\ UNCHANGED <<err, buf, pos, rstack, root, objs, live, handed, stream>>
    BY DEF ParseEnds, reader, heap, user
  <1>2. asked' = asked
    BY DEF ParseEnds
  <1>3. BytesTyped' /\ HeapTyped' /\ StackTyped' /\ Forest(objs)'
    BY <1>1 DEF IInvA, BytesTyped, HeapTyped, StackTyped
  <1>4. Owned' /\ Filling'
    BY <1>1 DEF IInvA, Owned, Filling, ridx, cur
  <1>5. Control'
    BY <1>1, <1>2 DEF IInvA, Control
  <1> QED
    BY <1>3, <1>4, <1>5 DEF IInvA

LEMMA FeedKeepsA ==
  ASSUME IInvA, Feed
  PROVE  IInvA'
PROOF
  <1>1. pc = "idle" /\ err = "none" /\ pc' = pc
    BY DEF Feed
  <1>2. asked' \in BOOLEAN
    BY DEF Feed
  <1>3. CASE SetError("oom") /\ UNCHANGED stream
    BY <1>1, <1>2, <1>3, SetErrorKeeps
  <1>4. CASE /\ \E k \in 1 .. Len(stream) :
                  buf' = buf \o SubSeq(stream, 1, k)
                  /\ stream' = SubSeq(stream, k + 1, Len(stream))
             /\ UNCHANGED <<err, pos, rstack, root, heap>>
    <2>1. PICK k \in 1 .. Len(stream) :
                  buf' = buf \o SubSeq(stream, 1, k)
                  /\ stream' = SubSeq(stream, k + 1, Len(stream))
      BY <1>4
    <2>2. /\ UNCHANGED <<err, pos, rstack, root, objs, live, handed>>
      BY <1>4 DEF heap
    <2>3. /\ stream \in Seq(Tokens) /\ buf \in Seq(Tokens) /\ Len(stream) \in Nat
          /\ Len(buf) \in Nat /\ pos \in 0 .. Len(buf)
          /\ \A i \in 1 .. Len(stream) : stream[i] \in Tokens
      BY LenProperties, ElementOfSeq DEF IInvA, BytesTyped
    <2>4. SubSeq(stream, 1, k) \in Seq(Tokens)
      <3>1. \A i \in 1 .. k : stream[i] \in Tokens
        BY <2>1, <2>3
      <3> QED
        BY <2>1, <2>3, <3>1, SubSeqProperties
    <2>5. SubSeq(stream, k + 1, Len(stream)) \in Seq(Tokens)
      <3>1. \A i \in k + 1 .. Len(stream) : stream[i] \in Tokens
        BY <2>1, <2>3
      <3>2. k + 1 \in Int /\ Len(stream) \in Int
        BY <2>1, <2>3
      <3> QED
        BY <3>1, <3>2, SubSeqProperties
    <2> DEFINE more == SubSeq(stream, 1, k)
    <2>6. more \in Seq(Tokens) /\ Len(more) \in Nat /\ buf' = buf \o more
      BY <2>1, <2>4, LenProperties
    <2> HIDE DEF more
    <2>7. buf' \in Seq(Tokens) /\ Len(buf') = Len(buf) + Len(more)
      BY <2>3, <2>6, ConcatProperties
    <2>8. BytesTyped'
      BY <2>1, <2>2, <2>3, <2>5, <2>6, <2>7 DEF BytesTyped
    <2>9. HeapTyped' /\ StackTyped' /\ Forest(objs)'
      BY <2>2 DEF IInvA, HeapTyped, StackTyped
    <2>10. Owned' /\ Filling'
      BY <2>2 DEF IInvA, Owned, Filling, ridx, cur
    <2>11. Control'
      BY <1>1, <1>2, <2>2 DEF IInvA, Control
    <2> QED
      BY <2>8, <2>9, <2>10, <2>11 DEF IInvA
  <1> QED
    BY <1>3, <1>4 DEF Feed

LEMMA GetReplyKeepsA ==
  ASSUME IInvA, GetReply
  PROVE  IInvA'
PROOF
  <1>1. /\ pc = "idle" /\ err = "none"
        /\ UNCHANGED <<err, buf, pos, root, objs, live, handed, stream>>
    BY DEF GetReply, heap, user
  <1>2. asked' \in BOOLEAN
    BY Zenon DEF GetReply, IInvA, Control
  <1>3. BytesTyped' /\ HeapTyped' /\ Forest(objs)' /\ Owned'
    BY <1>1 DEF IInvA, BytesTyped, HeapTyped, Owned
  <1>4. CASE rstack' = rstack /\ (pc' = pc \/ (pc' = "parse" /\ rstack # <<>>))
    <2>1. StackTyped' /\ Filling'
      BY <1>1, <1>4 DEF IInvA, StackTyped, Filling, ridx, cur
    <2>2. Control'
      BY <1>1, <1>2, <1>4 DEF IInvA, Control
    <2> QED
      BY <1>3, <2>1, <2>2 DEF IInvA
  <1>5. CASE rstack = <<>> /\ rstack' = <<Task(NoType, -1, None)>> /\ pc' = "parse"
    <2> DEFINE t == Task(NoType, -1, None)
    <2>1. t \in Tasks /\ t.type = NoType
      <3>1. -1 \in Int
        OBVIOUS
      <3> QED
        BY <3>1, ReaderAssumption DEF Task, Tasks, None
    <2>2. rstack' = <<t>>
      BY <1>5
    <2> HIDE DEF t
    <2>3. rstack' \in Seq(Tasks) /\ Len(rstack') = 1 /\ rstack'[1] = t
      BY <2>1, <2>2
    <2>4. StackTyped'
      BY <2>3, ReaderAssumption DEF StackTyped
    <2>5. Filling'
      <3>1. 1 .. 1 - 1 = {}
        OBVIOUS
      <3> QED
        BY <2>3, <3>1 DEF Filling
    <2>6. Control'
      <3>1. root = None /\ rstack' # <<>>
        BY <1>1, <1>5, <2>3, EmptySeq DEF IInvA, Control
      <3> QED
        BY <1>1, <1>2, <1>5, <3>1 DEF Control
    <2> QED
      BY <1>3, <2>4, <2>5, <2>6 DEF IInvA
  <1>6. CASE buf = <<>>
    <2>1. pc' = pc /\ rstack' = rstack
      BY <1>6, Zenon DEF GetReply
    <2> QED
      BY <1>4, <2>1
  <1>7. CASE buf # <<>>
    <2>1. /\ pc' = "parse"
          /\ rstack' = IF rstack = <<>> THEN <<Task(NoType, -1, None)>> ELSE rstack
      BY <1>7, Zenon DEF GetReply
    <2>2. rstack = <<>> \/ rstack # <<>>
      OBVIOUS
    <2> HIDE DEF GetReply
    <2> QED
      BY <1>4, <1>5, <2>1, <2>2, Zenon
  <1> QED
    BY <1>6, <1>7

LEMMA EmitKeepsA ==
  ASSUME IInvA, Emit
  PROVE  IInvA'
PROOF
  <1>1. /\ pc = "emit" /\ pc' = "idle" /\ UNCHANGED <<err, rstack, objs, live, stream>>
    BY DEF Emit
  <1>2. asked' \in BOOLEAN
    BY Zenon DEF Emit, IInvA, Control
  <1>3. BytesTyped'
    <2>1. /\ buf \in Seq(Tokens) /\ Len(buf) \in Nat /\ pos \in 0 .. Len(buf)
          /\ \A i \in 1 .. Len(buf) : buf[i] \in Tokens
      BY LenProperties, ElementOfSeq DEF IInvA, BytesTyped
    <2>2. CASE UNCHANGED <<buf, pos>>
      BY <1>1, <2>1, <2>2 DEF IInvA, BytesTyped
    <2>3. CASE buf' = SubSeq(buf, pos + 1, Len(buf)) /\ pos' = 0
      <3>1. \A i \in pos + 1 .. Len(buf) : buf[i] \in Tokens
        BY <2>1
      <3>2. pos + 1 \in Int /\ Len(buf) \in Int
        BY <2>1
      <3>3. buf' \in Seq(Tokens)
        BY <2>3, <3>1, <3>2, SubSeqProperties
      <3>4. Len(buf') \in Nat
        BY <3>3, LenProperties
      <3> QED
        BY <1>1, <2>3, <3>3, <3>4 DEF IInvA, BytesTyped
    <2> QED
      BY <2>2, <2>3 DEF Emit
  <1>4. StackTyped' /\ Forest(objs)'
    BY <1>1 DEF IInvA, StackTyped
  <1>5. CASE err = "none" /\ rstack = <<>>
    <2>1. handed' = handed \cup {root} /\ root' = None
      BY <1>5 DEF Emit
    <2>2. root # None
      BY <1>1, <1>5 DEF IInvA, Control
    <2>3. /\ root \in 0 .. Len(objs) /\ handed \subseteq 1 .. Len(objs) /\ Len(objs) \in Nat
      BY LenProperties DEF IInvA, HeapTyped
    <2>4. root \in 1 .. Len(objs)
      BY <2>2, <2>3 DEF None
    <2>5. HeapTyped'
      BY <1>1, <2>1, <2>3, <2>4 DEF IInvA, HeapTyped, None
    <2>6. Owned'
      <3>1. /\ \A o \in handed \cup {root} : \A y \in 1 .. Len(objs) : o \notin Kids(objs, y)
            /\ live = UNION {Below(objs, o) : o \in handed \cup {root}}
        BY DEF IInvA, Owned
      <3>2. \A y : None \notin Kids(objs, y)
        BY DEF Kids
      <3>3. UNION {Below(objs, o) : o \in (handed \cup {root}) \cup {None}}
            = UNION {Below(objs, o) : o \in handed \cup {root}}
        BY BelowNone
      <3>4. None \notin handed \cup {root}
        BY <2>2, <2>3 DEF None
      <3> QED
        BY <1>1, <2>1, <3>1, <3>2, <3>3, <3>4 DEF Owned
    <2>7. Filling'
      BY <1>1, <1>5, EmptyStack
    <2>8. Control'
      BY <1>1, <1>2, <1>5, <2>1 DEF IInvA, Control
    <2> QED
      BY <1>3, <1>4, <2>5, <2>6, <2>7, <2>8 DEF IInvA
  <1>6. CASE ~(err = "none" /\ rstack = <<>>)
    <2>1. handed' = handed /\ root' = root
      BY <1>6 DEF Emit
    <2>2. HeapTyped' /\ Owned' /\ Filling'
      BY <1>1, <2>1 DEF IInvA, HeapTyped, Owned, Filling, ridx, cur
    <2>3. Control'
      <3>1. err # "none" => buf' = <<>>
        BY <1>1 DEF Emit, IInvA, Control
      <3> QED
        BY <1>1, <1>2, <1>6, <2>1, <3>1 DEF IInvA, Control
    <2> QED
      BY <1>3, <1>4, <2>2, <2>3 DEF IInvA
  <1> QED
    BY <1>5, <1>6

LEMMA FreeReplyObjectKeepsA ==
  ASSUME IInvA, FreeReplyObject
  PROVE  IInvA'
PROOF
  <1>1. PICK o \in handed : handed' = handed \ {o} /\ live' = live \ Below(objs, o)
    BY DEF FreeReplyObject
  <1>2. UNCHANGED <<pc, err, buf, pos, rstack, root, objs, stream>>
    BY DEF FreeReplyObject, reader, user
  <1>3. asked' = asked
    BY DEF FreeReplyObject
  <1>4. BytesTyped' /\ HeapTyped' /\ StackTyped' /\ Forest(objs)' /\ Filling'
    BY <1>1, <1>2 DEF IInvA, BytesTyped, HeapTyped, StackTyped, Filling, ridx, cur
  <1>5. Control'
    BY <1>2, <1>3 DEF IInvA, Control
  <1>6. Owned'
    <2>1. /\ \A x \in handed \cup {root} : \A y \in 1 .. Len(objs) : x \notin Kids(objs, y)
          /\ root \notin handed
      BY DEF IInvA, Owned
    <2>2. live \ Below(objs, o) = UNION {Below(objs, x) : x \in (handed \cup {root}) \ {o}}
      BY Released
    <2>3. (handed \cup {root}) \ {o} = handed' \cup {root'}
      BY <1>1, <1>2, <2>1
    <2>4. live' = UNION {Below(objs', x) : x \in handed' \cup {root'}}
      BY <1>1, <1>2, <2>2, <2>3
    <2> QED
      BY <1>1, <1>2, <2>1, <2>4 DEF Owned
  <1> QED
    BY <1>4, <1>5, <1>6 DEF IInvA

LEMMA ReaderFreeKeepsA ==
  ASSUME IInvA, ReaderFree
  PROVE  IInvA'
PROOF
  <1>1. /\ pc' = "freed" /\ live' = live \ Below(objs, root) /\ root' = None
        /\ buf' = <<>> /\ pos' = 0 /\ rstack' = <<>>
        /\ UNCHANGED <<err, objs, handed, stream>>
    BY DEF ReaderFree, user
  <1>2. asked' = asked
    BY DEF ReaderFree
  <1>3. StackTyped' /\ Filling' /\ Len(rstack') = 0
    BY <1>1, EmptyStack
  <1>4. HeapTyped' /\ Owned' /\ Forest(objs)'
    BY <1>1, ReleasedRoot
  <1>5. BytesTyped'
    BY <1>1, NoBytes
  <1>6. Control'
    <2>1. Len(rstack') # 1
      BY <1>3
    <2> QED
      BY <1>1, <1>2, <2>1 DEF IInvA, Control
  <1> QED
    BY <1>3, <1>4, <1>5, <1>6 DEF IInvA

LEMMA StutterKeepsA ==
  ASSUME IInvA, UNCHANGED vars
  PROVE  IInvA'
PROOF
  <1>1. UNCHANGED <<pc, err, buf, pos, rstack, root, objs, live, handed, stream>>
    BY DEF vars, reader, heap
  <1>2. asked' = asked
    BY DEF vars
  <1>3. BytesTyped' /\ HeapTyped' /\ StackTyped' /\ Forest(objs)'
    BY <1>1 DEF IInvA, BytesTyped, HeapTyped, StackTyped
  <1>4. Owned' /\ Filling'
    BY <1>1 DEF IInvA, Owned, Filling, ridx, cur
  <1>5. Control'
    BY <1>1, <1>2 DEF IInvA, Control
  <1> QED
    BY <1>3, <1>4, <1>5 DEF IInvA

LEMMA NextA ==
  ASSUME IInvA, [Next]_vars
  PROVE  IInvA'
BY ReadTypeKeepsA, LineKeepsA, BulkKeepsA, MultiBulkKeepsA, ParseEndsKeepsA, FeedKeepsA,
   GetReplyKeepsA, EmitKeepsA, FreeReplyObjectKeepsA, ReaderFreeKeepsA, StutterKeepsA DEF Next

LEMMA OwnedHolds ==
  ASSUME IInvA
  PROVE  ObjectsOwned
PROOF
  <1>1. /\ Len(objs) \in Nat /\ DOMAIN objs = 1 .. Len(objs) /\ Len(objs) <= MaxObjects
        /\ root \in 0 .. Len(objs) /\ handed \subseteq 1 .. Len(objs)
        /\ Heap(objs, Len(objs))
    BY LenProperties DEF IInvA, HeapTyped, Forest
  <1> DEFINE owners == handed \cup ({root} \ {None})
  <1>2. UNION {Below(objs, o) : o \in owners} = UNION {Below(objs, o) : o \in handed \cup {root}}
    BY BelowNone
  <1>3. owners \subseteq 1 .. Len(objs)
    BY <1>1 DEF None
  <1>4. live = UNION {Below(objs, o) : o \in owners}
    BY <1>2 DEF IInvA, Owned
  <1>5. ASSUME NEW o \in owners, NEW p \in owners, o # p
        PROVE  Below(objs, o) \cap Below(objs, p) = {}
    <2>1. \A y, z \in 1 .. Len(objs) : Kids(objs, y) \cap Kids(objs, z) # {} => y = z
      BY UniqueParents DEF IInvA
    <2>2. \A y \in 1 .. Len(objs) : o \notin Kids(objs, y) /\ p \notin Kids(objs, y)
      BY DEF IInvA, Owned
    <2>3. o \in 1 .. Len(objs) /\ p \in 1 .. Len(objs)
      BY <1>3
    <2> QED
      BY <1>1, <1>5, <2>1, <2>2, <2>3, NothingInCommon
  <1>6. root # None => root \notin handed
    BY DEF IInvA, Owned
  <1>7. TypeOK
    <2>1. live \subseteq DOMAIN objs
      <3>1. \A o \in owners : Below(objs, o) \subseteq 1 .. Len(objs)
        BY <1>1, <1>3, BelowIsClosed
      <3> QED
        BY <1>1, <1>4, <3>1
    <2>2. /\ root \in Objects \cup {None} /\ DOMAIN objs \subseteq Objects
          /\ handed \subseteq Objects
      BY <1>1, ReaderAssumption DEF Objects, None
    <2>3. /\ Len(rstack) <= MaxDepth + 1
          /\ \A i \in DOMAIN rstack :
               /\ rstack[i].type \in Types \cup {NoType}
               /\ i < Len(rstack) => rstack[i].type = "array"
      BY StackFields DEF IInvA, StackTyped
    <2>4. pos \in 0 .. Len(buf)
      BY DEF IInvA, BytesTyped
    <2>5. /\ pc \in {"idle", "parse", "emit", "freed"} /\ err \in {"none", "protocol", "oom"}
          /\ asked \in BOOLEAN
      BY DEF IInvA, Control
    <2> QED
      BY <2>1, <2>2, <2>3, <2>4, <2>5 DEF TypeOK
  <1> QED
    BY <1>4, <1>5, <1>6, <1>7 DEF ObjectsOwned

\* Whatever the servers send, however it is cut into reads, and whichever
\* allocation fails: every object is below the reply that is being built or
\* below one the user holds, and below one of them only.
THEOREM Ownership == Spec => []ObjectsOwned
PROOF
  <1>1. Spec => []IInvA
    BY InitA, NextA, PTL DEF Spec
  <1> QED
    BY <1>1, OwnedHolds, PTL


-----------------------------------------------------------------------------
(* What has been read and what is left to read.                              *)

\* After(rs)[i]: the tokens of the replies rs after the first i of them.
After(rs) == CHOOSE rest : Leaves(Tokens, Wires(rs), rest)

LEMMA AfterIs ==
  ASSUME NEW rs \in Seq(Replies)
  PROVE  /\ After(rs) \in [0 .. Len(rs) -> Seq(Tokens)]
         /\ After(rs)[0] = FlattenSeq(Wires(rs)) /\ After(rs)[Len(rs)] = <<>>
         /\ \A i \in 1 .. Len(rs) : After(rs)[i - 1] = Wire[rs[i]] \o After(rs)[i]
PROOF
  <1>1. Wires(rs) \in Seq(Seq(Tokens)) /\ Len(Wires(rs)) = Len(rs)
    BY WiresTyped
  <1>2. \E rest : Leaves(Tokens, Wires(rs), rest)
    BY <1>1, SomethingIsLeft
  <1>3. Leaves(Tokens, Wires(rs), After(rs))
    BY <1>2 DEF After
  <1>4. \A i \in 1 .. Len(rs) : Wires(rs)[i] = Wire[rs[i]]
    BY DEF Wires
  <1> QED
    BY <1>1, <1>3, <1>4 DEF Leaves

\* The reader's type of a reply, and what follows the byte that says it.
Kind(r) ==
  CASE r.type = "nil" -> "string" [] r.type = "nilarray" -> "array"
    [] r.type = "garbage" -> NoType [] OTHER -> r.type
RestOf(r) ==
  CASE r.type \in {"status", "error", "integer"} -> <<Line(r.s)>>
    [] r.type = "string" -> <<Number(Size(r.s)), Body(r.s)>>
    [] r.type \in {"nil", "nilarray"} -> <<Number(-1)>>
    [] r.type = "array" -> <<Number(Len(r.elems))>> \o FlattenSeq(Wires(r.elems))
    [] OTHER -> <<>>

LEMMA OneIs ==
  ASSUME NEW T, NEW a \in T, NEW s \in Seq(T)
  PROVE  /\ <<a>> \o s \in Seq(T) /\ Len(<<a>> \o s) = Len(s) + 1
         /\ (<<a>> \o s)[1] = a /\ Len(s) \in Nat
         /\ \A i \in 1 .. Len(s) : (<<a>> \o s)[i + 1] = s[i]
OBVIOUS

LEMMA JoinIs ==
  ASSUME NEW T, NEW s \in Seq(T), NEW t \in Seq(T)
  PROVE  /\ s \o t \in Seq(T) /\ Len(s \o t) = Len(s) + Len(t)
         /\ Len(s) \in Nat /\ Len(t) \in Nat
         /\ \A i \in 1 .. Len(s) : (s \o t)[i] = s[i]
         /\ \A i \in 1 .. Len(t) : (s \o t)[Len(s) + i] = t[i]
PROOF
  <1>1. Len(s) \in Nat /\ Len(t) \in Nat
    OBVIOUS
  <1> QED
    BY <1>1, ConcatProperties

LEMMA PairIs ==
  ASSUME NEW T, NEW a \in T, NEW b \in T
  PROVE  <<a, b>> = <<a>> \o <<b>> /\ <<a>> \in Seq(T) /\ <<b>> \in Seq(T) /\ <<a, b>> \in Seq(T)
PROOF
  <1>1. /\ <<a>> \in Seq(T) /\ <<b>> \in Seq(T) /\ <<a, b>> \in Seq(T)
        /\ Len(<<a>>) = 1 /\ Len(<<b>>) = 1 /\ Len(<<a, b>>) = 2
        /\ <<a>>[1] = a /\ <<b>>[1] = b /\ <<a, b>>[1] = a /\ <<a, b>>[2] = b
    OBVIOUS
  <1> DEFINE s == <<a>>
             t == <<b>>
             p == <<a, b>>
  <1>2. /\ s \in Seq(T) /\ t \in Seq(T) /\ p \in Seq(T) /\ Len(s) = 1 /\ Len(t) = 1
        /\ Len(p) = 2 /\ s[1] = a /\ t[1] = b /\ p[1] = a /\ p[2] = b
    BY <1>1
  <1> HIDE DEF s, t, p
  <1>3. s \o t \in Seq(T) /\ Len(s \o t) = 2 /\ (s \o t)[1] = a /\ (s \o t)[2] = b
    <2>1. /\ s \o t \in Seq(T) /\ Len(s \o t) = Len(s) + Len(t)
          /\ \A i \in 1 .. Len(s) : (s \o t)[i] = s[i]
          /\ \A i \in 1 .. Len(t) : (s \o t)[Len(s) + i] = t[i]
      <3>1. s \in Seq(T) /\ t \in Seq(T)
        BY <1>2
      <3> QED
        BY <3>1, JoinIs
    <2>2. (s \o t)[Len(s) + 1] = t[1]
      BY <1>2, <2>1
    <2> QED
      BY <1>2, <2>1, <2>2
  <1>4. \A i \in 1 .. 2 : p[i] = (s \o t)[i]
    BY <1>2, <1>3
  <1>5. p = s \o t
    BY <1>2, <1>3, <1>4, SeqEqual
  <1> QED
    BY <1>1, <1>5 DEF s, t, p

LEMMA TripleIs ==
  ASSUME NEW T, NEW a \in T, NEW b \in T, NEW d \in T
  PROVE  <<a, b, d>> = <<a>> \o <<b, d>>
PROOF
  <1> DEFINE s == <<b, d>>
             p == <<a, b, d>>
  <1>1. /\ s \in Seq(T) /\ p \in Seq(T) /\ Len(s) = 2 /\ Len(p) = 3
        /\ p[1] = a /\ p[2] = s[1] /\ p[3] = s[2]
    OBVIOUS
  <1> HIDE DEF s, p
  <1>2. /\ <<a>> \o s \in Seq(T) /\ Len(<<a>> \o s) = 3 /\ (<<a>> \o s)[1] = a
        /\ \A i \in 1 .. Len(s) : (<<a>> \o s)[i + 1] = s[i]
    <2>1. s \in Seq(T)
      BY <1>1
    <2>2. /\ <<a>> \o s \in Seq(T) /\ Len(<<a>> \o s) = Len(s) + 1 /\ (<<a>> \o s)[1] = a
          /\ \A i \in 1 .. Len(s) : (<<a>> \o s)[i + 1] = s[i]
      BY <2>1, OneIs
    <2> QED
      BY <1>1, <2>2
  <1>3. (<<a>> \o s)[1 + 1] = s[1] /\ (<<a>> \o s)[2 + 1] = s[2]
    BY <1>1, <1>2
  <1>4. \A i \in 1 .. 3 : p[i] = (<<a>> \o s)[i]
    BY <1>1, <1>2, <1>3
  <1>5. p = <<a>> \o s
    BY <1>1, <1>2, <1>4, SeqEqual
  <1> QED
    BY <1>5 DEF s, p

LEMMA OneMore ==
  ASSUME NEW T, NEW a \in T, NEW b \in T, NEW s \in Seq(T), NEW t \in Seq(T),
         <<a>> \o s = <<b>> \o t
  PROVE  a = b /\ s = t
PROOF
  <1>1. a = b /\ Len(s) = Len(t)
    BY OneIs
  <1>2. \A i \in 1 .. Len(s) : s[i] = t[i]
    BY <1>1, OneIs
  <1> QED
    BY <1>1, <1>2, SeqEqual

LEMMA WireSplit ==
  ASSUME NEW r \in Replies
  PROVE  \E c \in Chars : /\ Wire[r] = <<TypeByte(c)>> \o RestOf(r) /\ TypeByte(c) \in Tokens
                          /\ TypeOf(c) = Kind(r) /\ TypeByte(c).c[1] = c
PROOF
  <1>1. \A c \in Chars : TypeByte(c) \in Tokens
    BY TokensTyped
  <1>2. \A c \in Chars : TypeByte(c).c[1] = c
    BY DEF TypeByte
  <1>3. /\ TypeOf("+") = "status" /\ TypeOf("-") = "error" /\ TypeOf(":") = "integer"
        /\ TypeOf("$") = "string" /\ TypeOf("*") = "array" /\ TypeOf("?") = NoType
    BY DEF TypeOf
  <1>4. {"+", "-", ":", "$", "*", "?"} \subseteq Chars
    BY DEF Chars
  <1>a. /\ Line(r.s) \in Tokens /\ Number(Size(r.s)) \in Tokens /\ Body(r.s) \in Tokens
        /\ Number(-1) \in Tokens
    BY ReplyFields, TokensTyped
  <1>5. CASE r.type \in {"status", "error", "integer"}
    <2>1. PICK c \in {"+", "-", ":"} : Wire[r] = <<TypeByte(c), Line(r.s)>> /\ TypeOf(c) = r.type
      BY <1>3, <1>5, WireBegins
    <2>2. RestOf(r) = <<Line(r.s)>> /\ Kind(r) = r.type /\ c \in Chars
      BY <1>4, <1>5 DEF RestOf, Kind
    <2>3. <<TypeByte(c), Line(r.s)>> = <<TypeByte(c)>> \o <<Line(r.s)>>
      BY <1>1, <1>a, <2>2, PairIs
    <2> QED
      BY <1>1, <1>2, <2>1, <2>2, <2>3
  <1>6. CASE r.type = "string"
    <2> DEFINE a == TypeByte("$")
               b == Number(Size(r.s))
               d == Body(r.s)
    <2>1. RestOf(r) = <<b, d>> /\ Kind(r) = "string"
      BY <1>6 DEF RestOf, Kind
    <2>2. Wire[r] = <<a, b, d>> /\ a \in Tokens /\ b \in Tokens /\ d \in Tokens
      BY <1>1, <1>4, <1>6, <1>a, WireBegins
    <2> HIDE DEF a, b, d
    <2>3. <<a, b, d>> = <<a>> \o <<b, d>>
      BY <2>2, TripleIs
    <2>4. TypeByte("$") = a
      BY DEF a
    <2> QED
      BY <1>1, <1>2, <1>3, <1>4, <2>1, <2>2, <2>3, <2>4
  <1>7. CASE r.type = "nil"
    <2>1. RestOf(r) = <<Number(-1)>> /\ Kind(r) = "string"
      BY <1>7 DEF RestOf, Kind
    <2>2. Wire[r] = <<TypeByte("$"), Number(-1)>>
      BY <1>7, WireBegins
    <2>3. Wire[r] = <<TypeByte("$")>> \o RestOf(r)
      BY <1>1, <1>4, <1>a, <2>1, <2>2, PairIs
    <2> QED
      BY <1>1, <1>2, <1>3, <1>4, <2>1, <2>3
  <1>8. CASE r.type = "nilarray"
    <2>1. RestOf(r) = <<Number(-1)>> /\ Kind(r) = "array"
      BY <1>8 DEF RestOf, Kind
    <2>2. Wire[r] = <<TypeByte("*"), Number(-1)>>
      BY <1>8, WireBegins
    <2>3. Wire[r] = <<TypeByte("*")>> \o RestOf(r)
      BY <1>1, <1>4, <1>a, <2>1, <2>2, PairIs
    <2> QED
      BY <1>1, <1>2, <1>3, <1>4, <2>1, <2>3
  <1>9. CASE r.type = "garbage"
    <2>1. RestOf(r) = <<>> /\ Kind(r) = NoType
      BY <1>9 DEF RestOf, Kind
    <2>2. Wire[r] = <<TypeByte("?")>>
      BY <1>9, WireBegins
    <2>3. <<TypeByte("?")>> \o <<>> = <<TypeByte("?")>>
      BY <1>1, <1>4, PairIs, ConcatEmptySeq
    <2> QED
      BY <1>1, <1>2, <1>3, <1>4, <2>1, <2>2, <2>3
  <1>10. CASE r.type = "array"
    <2> DEFINE a == TypeByte("*")
               b == Number(Len(r.elems))
               z == FlattenSeq(Wires(r.elems))
    <2>1. RestOf(r) = <<b>> \o z /\ Kind(r) = "array"
      BY <1>10 DEF RestOf, Kind
    <2>2. Wire[r] = <<a, b>> \o z
      BY <1>10, WireBegins
    <2>3. z \in Seq(Tokens) /\ a \in Tokens /\ b \in Tokens
      BY ReplyFields, WiresTyped, JoinTyped, TokensTyped, <1>1, <1>4
    <2>4. TypeByte("*") = a /\ TypeByte("*").c[1] = "*"
      BY <1>2, <1>4
    <2> HIDE DEF a, b, z
    <2>5. <<a, b>> = <<a>> \o <<b>> /\ <<a>> \in Seq(Tokens) /\ <<b>> \in Seq(Tokens)
      BY <2>3, PairIs
    <2>6. (<<a>> \o <<b>>) \o z = <<a>> \o (<<b>> \o z)
      BY <2>3, <2>5, ConcatAssociative
    <2> QED
      BY <1>3, <1>4, <2>1, <2>2, <2>3, <2>4, <2>5, <2>6
  <1> QED
    BY <1>5, <1>6, <1>7, <1>8, <1>9, <1>10, ReplyFields DEF ReplyTypes

LEMMA RestTyped ==
  ASSUME NEW r \in Replies
  PROVE  RestOf(r) \in Seq(Tokens) /\ (Kind(r) # NoType => Len(RestOf(r)) >= 1)
PROOF
  <1>1. /\ Line(r.s) \in Tokens /\ Number(Size(r.s)) \in Tokens /\ Body(r.s) \in Tokens
        /\ Number(-1) \in Tokens /\ Number(Len(r.elems)) \in Tokens
    BY ReplyFields, TokensTyped
  <1>2. FlattenSeq(Wires(r.elems)) \in Seq(Tokens)
    BY ReplyFields, WiresTyped, JoinTyped
  <1>3. CASE r.type = "array"
    <2>1. RestOf(r) = <<Number(Len(r.elems))>> \o FlattenSeq(Wires(r.elems))
      BY <1>3 DEF RestOf
    <2> QED
      BY <1>1, <1>2, <2>1
  <1>4. CASE r.type \in {"status", "error", "integer", "nil", "nilarray"}
    <2>1. PICK a \in Tokens : RestOf(r) = <<a>>
      BY <1>1, <1>4 DEF RestOf
    <2>2. <<a>> \in Seq(Tokens) /\ Len(<<a>>) = 1
      OBVIOUS
    <2> QED
      BY <2>1, <2>2
  <1>5. CASE r.type = "string"
    <2>1. RestOf(r) = <<Number(Size(r.s)), Body(r.s)>>
      BY <1>5 DEF RestOf
    <2> QED
      BY <1>1, <2>1
  <1>6. CASE r.type = "garbage"
    <2>1. RestOf(r) = <<>> /\ Kind(r) = NoType
      BY <1>6 DEF RestOf, Kind
    <2> QED
      BY <2>1
  <1> QED
    BY <1>3, <1>4, <1>5, <1>6, ReplyFields DEF ReplyTypes

\* All that has not been consumed, whether it has been fed or not.
Cut(b, p) == SubSeq(b, p + 1, Len(b))
Left == Cut(buf, pos) \o stream

LEMMA CutIs ==
  ASSUME NEW T, NEW b \in Seq(T), NEW p \in 0 .. Len(b)
  PROVE  /\ Cut(b, p) \in Seq(T) /\ Len(Cut(b, p)) = Len(b) - p /\ Len(b) - p \in Nat
         /\ \A i \in 1 .. Len(b) - p : Cut(b, p)[i] = b[p + i]
BY DEF Cut

LEMMA CutOne ==
  ASSUME NEW T, NEW b \in Seq(T), NEW p \in 0 .. Len(b) - 1
  PROVE  /\ Cut(b, p) = <<b[p + 1]>> \o Cut(b, p + 1) /\ b[p + 1] \in T
         /\ p + 1 \in 0 .. Len(b)
PROOF
  <1>1. p \in 0 .. Len(b) /\ p + 1 \in 0 .. Len(b) /\ b[p + 1] \in T
    OBVIOUS
  <1> DEFINE a == b[p + 1]
             s == Cut(b, p)
             t == Cut(b, p + 1)
  <1>2. /\ s \in Seq(T) /\ t \in Seq(T) /\ a \in T /\ Len(s) = Len(t) + 1 /\ Len(t) \in Nat
        /\ s[1] = a
    <2>1. s \in Seq(T) /\ Len(s) = Len(b) - p /\ \A i \in 1 .. Len(b) - p : s[i] = b[p + i]
      BY <1>1, CutIs
    <2>2. t \in Seq(T) /\ Len(t) = Len(b) - (p + 1)
      BY <1>1, CutIs
    <2>3. Len(b) \in Nat /\ 1 \in 1 .. Len(b) - p
      BY <1>1
    <2> HIDE DEF s, t
    <2> QED
      BY <1>1, <2>1, <2>2, <2>3
  <1>3. \A i \in 1 .. Len(t) : s[i + 1] = t[i]
    <2> SUFFICES ASSUME NEW i \in 1 .. Len(t) PROVE s[i + 1] = t[i]
      OBVIOUS
    <2>0. Len(t) = Len(b) - (p + 1)
      BY <1>1, CutIs
    <2>1. i \in 1 .. Len(b) - (p + 1) /\ i + 1 \in 1 .. Len(b) - p
      BY <1>1, <2>0
    <2>2. \A j \in 1 .. Len(b) - p : s[j] = b[p + j]
      BY <1>1, CutIs
    <2>3. \A j \in 1 .. Len(b) - (p + 1) : t[j] = b[(p + 1) + j]
      BY <1>1, CutIs
    <2>4. (p + 1) + i = p + (i + 1)
      BY <1>1, <2>1
    <2> HIDE DEF s, t
    <2>5. t[i] = b[(p + 1) + i] /\ s[i + 1] = b[p + (i + 1)]
      BY <2>1, <2>2, <2>3
    <2> QED
      BY <2>4, <2>5
  <1> HIDE DEF a, s, t
  <1>4. <<a>> \o t \in Seq(T) /\ Len(<<a>> \o t) = Len(s)
    BY <1>2, OneIs
  <1>5. ASSUME NEW i \in 1 .. Len(s) PROVE s[i] = (<<a>> \o t)[i]
    <2>1. CASE i = 1
      BY <1>2, <2>1, OneIs
    <2>2. CASE i # 1
      <3>1. i - 1 \in 1 .. Len(t) /\ (i - 1) + 1 = i
        BY <1>2, <2>2
      <3> QED
        BY <1>2, <1>3, <3>1, OneIs
    <2> QED
      BY <2>1, <2>2
  <1>6. s = <<a>> \o t
    BY <1>2, <1>4, <1>5, SeqEqual
  <1> QED
    BY <1>1, <1>6 DEF a, s, t

LEMMA LeftTyped ==
  ASSUME BytesTyped
  PROVE  /\ Left \in Seq(Tokens) /\ Len(Left) = Avail + Len(stream) /\ Avail \in Nat
         /\ Len(stream) \in Nat /\ Len(Left) \in Nat
         /\ \A i \in 1 .. Avail : Left[i] = Tok(i)
PROOF
  <1>1. stream \in Seq(Tokens) /\ buf \in Seq(Tokens) /\ pos \in 0 .. Len(buf)
    BY DEF BytesTyped
  <1>2. /\ Cut(buf, pos) \in Seq(Tokens) /\ Len(Cut(buf, pos)) = Avail /\ Avail \in Nat
        /\ \A i \in 1 .. Avail : Cut(buf, pos)[i] = Tok(i)
    BY <1>1, CutIs DEF Avail, Tok
  <1> QED
    BY <1>1, <1>2, JoinIs DEF Left

LEMMA LeftConsumed ==
  ASSUME BytesTyped, Avail >= 1, Consume(1), stream' = stream
  PROVE  Left = <<Tok(1)>> \o Left' /\ Left' \in Seq(Tokens) /\ Tok(1) \in Tokens
PROOF
  <1>1. stream \in Seq(Tokens) /\ buf \in Seq(Tokens) /\ pos \in 0 .. Len(buf) - 1
    BY DEF BytesTyped, Avail
  <1> DEFINE t == Cut(buf, pos + 1)
             a == Tok(1)
  <1>2. Cut(buf, pos) = <<a>> \o t /\ a \in Tokens /\ t \in Seq(Tokens)
    BY <1>1, CutOne, CutIs DEF Tok
  <1>3. Left' = t \o stream /\ Left = (<<a>> \o t) \o stream
    BY <1>2 DEF Left, Consume
  <1> HIDE DEF t, a
  <1>4. <<a>> \in Seq(Tokens)
    BY <1>2
  <1>5. (<<a>> \o t) \o stream = <<a>> \o (t \o stream)
    BY <1>1, <1>2, <1>4, ConcatAssociative
  <1>6. Left = <<a>> \o Left' /\ Left' \in Seq(Tokens) /\ a \in Tokens
    BY <1>1, <1>2, <1>3, <1>5, JoinIs
  <1> QED
    BY <1>6 DEF a

LEMMA LeftFed ==
  ASSUME BytesTyped, NEW k \in 1 .. Len(stream), buf' = buf \o SubSeq(stream, 1, k),
         stream' = SubSeq(stream, k + 1, Len(stream)), pos' = pos
  PROVE  Left' = Left
PROOF
  <1> DEFINE a == Cut(buf, pos)
             b == SubSeq(stream, 1, k)
             d == SubSeq(stream, k + 1, Len(stream))
  <1>1. /\ a \in Seq(Tokens) /\ b \in Seq(Tokens) /\ d \in Seq(Tokens) /\ buf \in Seq(Tokens)
        /\ stream \in Seq(Tokens) /\ pos \in 0 .. Len(buf)
    <2>1. buf \in Seq(Tokens) /\ stream \in Seq(Tokens) /\ pos \in 0 .. Len(buf)
      BY DEF BytesTyped
    <2>2. a \in Seq(Tokens)
      BY <2>1, CutIs
    <2>3. b \in Seq(Tokens) /\ d \in Seq(Tokens)
      BY <2>1
    <2> QED
      BY <2>1, <2>2, <2>3
  <1>2. stream = b \o d
    <2>1. SubSeq(stream, 1, k) \o SubSeq(stream, k + 1, Len(stream)) = SubSeq(stream, 1, Len(stream))
      BY <1>1, ConcatAdjacentSubSeq
    <2>2. SubSeq(stream, 1, Len(stream)) = stream
      BY <1>1
    <2> QED
      BY <2>1, <2>2
  <1>3. Cut(buf \o b, pos) = a \o b
    <2> HIDE DEF b
    <2>1. buf \o b \in Seq(Tokens) /\ Len(buf \o b) = Len(buf) + Len(b) /\ Len(b) \in Nat /\ Len(buf) \in Nat
      BY <1>1, JoinIs
    <2>a. pos \in 0 .. Len(buf \o b)
      BY <1>1, <2>1
    <2>b. /\ Cut(buf \o b, pos) \in Seq(Tokens)
          /\ Len(Cut(buf \o b, pos)) = Len(buf \o b) - pos
          /\ \A i \in 1 .. Len(buf \o b) - pos : Cut(buf \o b, pos)[i] = (buf \o b)[pos + i]
      BY <2>1, <2>a, CutIs
    <2>c. Len(a) = Len(buf) - pos
      BY <1>1, CutIs
    <2>2. /\ Cut(buf \o b, pos) \in Seq(Tokens) /\ Len(Cut(buf \o b, pos)) = Len(buf) + Len(b) - pos
          /\ Len(a) = Len(buf) - pos /\ Len(a) \in Nat
      BY <1>1, <2>1, <2>b, <2>c
    <2>3. a \o b \in Seq(Tokens) /\ Len(a \o b) = Len(a) + Len(b)
      BY <1>1, JoinIs
    <2>4. ASSUME NEW i \in 1 .. Len(a) + Len(b) PROVE Cut(buf \o b, pos)[i] = (a \o b)[i]
      <3>1. Cut(buf \o b, pos)[i] = (buf \o b)[pos + i]
        <4>1. i \in 1 .. Len(buf \o b) - pos
          BY <1>1, <2>1, <2>2
        <4> QED
          BY <2>b, <4>1
      <3>2. CASE i <= Len(a)
        <4>1. i \in 1 .. Len(a) /\ pos + i \in 1 .. Len(buf) /\ i \in 1 .. Len(buf) - pos
          BY <1>1, <2>1, <2>2, <3>2
        <4>2. (a \o b)[i] = a[i] /\ a[i] = buf[pos + i] /\ (buf \o b)[pos + i] = buf[pos + i]
          BY <1>1, <4>1, JoinIs, CutIs
        <4> QED
          BY <3>1, <4>2
      <3>3. CASE i > Len(a)
        <4> DEFINE j == i - Len(a)
        <4>1. j \in 1 .. Len(b) /\ i = Len(a) + j /\ pos + i = Len(buf) + j
          BY <1>1, <2>1, <2>2, <3>3
        <4> HIDE DEF j
        <4>2. (a \o b)[Len(a) + j] = b[j] /\ (buf \o b)[Len(buf) + j] = b[j]
          <5>1. a \in Seq(Tokens) /\ buf \in Seq(Tokens) /\ b \in Seq(Tokens)
            BY <1>1
          <5>2. (a \o b)[Len(a) + j] = b[j]
            BY <4>1, <5>1, JoinIs
          <5>3. (buf \o b)[Len(buf) + j] = b[j]
            BY <4>1, <5>1, JoinIs
          <5> QED
            BY <5>2, <5>3
        <4> QED
          BY <3>1, <4>1, <4>2
      <3> QED
        BY <2>1, <2>2, <3>2, <3>3
    <2>5. Len(Cut(buf \o b, pos)) = Len(a \o b) /\ Len(a \o b) = Len(a) + Len(b)
      BY <1>1, <2>1, <2>2, <2>3
    <2> DEFINE u == Cut(buf \o b, pos)
               w == a \o b
    <2>6. u \in Seq(Tokens) /\ w \in Seq(Tokens) /\ Len(u) = Len(w) /\ \A i \in 1 .. Len(u) : u[i] = w[i]
      BY <2>2, <2>3, <2>4, <2>5
    <2> HIDE DEF a, u, w
    <2>7. u = w
      BY <2>6, SeqEqual
    <2> QED
      BY <2>7 DEF u, w
  <1>4. Left' = (a \o b) \o d /\ Left = a \o stream
    BY <1>3 DEF Left
  <1>0. a \in Seq(Tokens) /\ b \in Seq(Tokens) /\ d \in Seq(Tokens)
    BY <1>1
  <1> HIDE DEF a, b, d
  <1>5. (a \o b) \o d = a \o (b \o d)
    BY <1>0, ConcatAssociative, SMTT(30)
  <1> QED
    BY <1>2, <1>4, <1>5

LEMMA LeftCut ==
  ASSUME BytesTyped, buf' = Cut(buf, pos), pos' = 0, stream' = stream
  PROVE  /\ Left' = Left /\ Avail' = Avail /\ \A i \in 1 .. Avail : Tok(i)' = Tok(i)
PROOF
  <1> DEFINE a == Cut(buf, pos)
  <1>1. /\ a \in Seq(Tokens) /\ Len(a) = Len(buf) - pos /\ Len(a) \in Nat
        /\ \A i \in 1 .. Len(a) : a[i] = buf[pos + i]
    BY CutIs DEF BytesTyped
  <1>2. buf' = a /\ Left = a \o stream
    BY DEF Left
  <1> HIDE DEF a
  <1>3. Cut(a, 0) = a
    BY <1>1 DEF Cut
  <1>4. Left' = a \o stream
    BY <1>2, <1>3 DEF Left
  <1>5. Avail' = Avail
    BY <1>1, <1>2 DEF Avail
  <1>6. ASSUME NEW i \in 1 .. Avail PROVE Tok(i)' = Tok(i)
    <2>1. i \in 1 .. Len(a) /\ 0 + i = i
      BY <1>1 DEF Avail
    <2>2. Tok(i)' = a[0 + i] /\ Tok(i) = buf[pos + i]
      BY <1>2 DEF Tok
    <2> QED
      BY <1>1, <2>1, <2>2
  <1> QED
    BY <1>2, <1>4, <1>5, <1>6


-----------------------------------------------------------------------------
(* The objects that are complete.                                            *)

LEMMA BelowIsYounger ==
  ASSUME NEW os, NEW n, Heap(os, n), NEW o \in 1 .. n
  PROVE  \A x \in Below(os, o) : x \in 1 .. n /\ x >= o
PROOF
  <1> DEFINE S == {x \in 1 .. n : x >= o}
  <1>1. n \in Nat /\ o \in S
    BY DEF Heap
  <1>2. \A x \in S : Kids(os, x) \subseteq S
    BY <1>1 DEF Heap
  <1> HIDE DEF S
  <1>3. Below(os, o) \subseteq S
    BY <1>1, <1>2, BelowIsLeast
  <1> QED
    BY <1>3 DEF S

\* The value of an object stays when nothing below it changes.
LEMMA ValueStays ==
  ASSUME NEW os, NEW n, Heap(os, n), NEW os2, NEW n2, Heap(os2, n2),
         NEW o \in 1 .. n, n <= n2,
         \A x \in Below(os, o) : os2[x] = os[x]
  PROVE  Value(os2, o) = Value(os, o)
PROOF
  <1> DEFINE B == Below(os, o)
             S == {k \in Nat : \A x \in B : x + k = n => Value(os2, x) = Value(os, x)}
  <1>1. n \in Nat /\ n2 \in Nat
    BY DEF Heap
  <1>2. o \in B /\ B \subseteq 1 .. n /\ \A x \in B : Kids(os, x) \subseteq B
    BY BelowIsClosed
  <1>3. ASSUME NEW k \in Nat, \A m \in Nat : m < k => m \in S
        PROVE  k \in S
    <2> SUFFICES ASSUME NEW x \in B, x + k = n PROVE Value(os2, x) = Value(os, x)
      OBVIOUS
    <2>1. x \in 1 .. n /\ x \in 1 .. n2 /\ os2[x] = os[x] /\ Kids(os, x) \subseteq B
      BY <1>1, <1>2
    <2>2. ASSUME NEW i \in DOMAIN os[x].elems, os[x].elems[i] # None
          PROVE  Value(os2, os[x].elems[i]) = Value(os, os[x].elems[i])
      <3> DEFINE e == os[x].elems[i]
      <3>1. e \in Kids(os, x)
        BY <2>2, KidsAre
      <3>2. e \in B /\ e \in 1 .. n /\ x < e
        BY <2>1, <3>1 DEF Heap
      <3> HIDE DEF e
      <3> DEFINE m == n - e
      <3>3. m \in Nat /\ m < k /\ e + m = n
        BY <1>1, <2>1, <3>2
      <3> HIDE DEF m
      <3>4. m \in S
        BY <1>3, <3>3
      <3>5. Value(os2, e) = Value(os, e)
        BY <3>2, <3>3, <3>4
      <3> QED
        BY <3>5 DEF e
    <2> DEFINE F(h) == [i \in DOMAIN os[x].elems |->
                          IF os[x].elems[i] = None THEN None ELSE Value(h, os[x].elems[i])]
    <2>3. F(os2) = F(os)
      BY <2>2
    <2>4. Value(os, x) = Reply(os[x].type, os[x].s, F(os))
      BY <2>1, ValueIs
    <2>5. Value(os2, x) = Reply(os2[x].type, os2[x].s,
                 [i \in DOMAIN os2[x].elems |->
                    IF os2[x].elems[i] = None THEN None ELSE Value(os2, os2[x].elems[i])])
      BY <2>1, ValueIs
    <2>6. Value(os2, x) = Reply(os[x].type, os[x].s, F(os2))
      BY <2>1, <2>5
    <2> HIDE DEF F
    <2> QED
      BY <2>3, <2>4, <2>6
  <1> DEFINE k0 == n - o
  <1>4. k0 \in Nat /\ o + k0 = n
    BY <1>1
  <1> HIDE DEF k0
  <1>5. Nat \subseteq S
    <2> HIDE DEF S
    <2> QED
      BY <1>3, AllNumbers
  <1> QED
    BY <1>2, <1>4, <1>5

\* The object o is all of the reply r, where d arrays could be entered.
Built(os, o, r, d) == o \in 1 .. Len(os) /\ Value(os, o) = Plain[r] /\ d \in Fits[r]

\* The object at the level i of the stack, where a new one is the innermost.
At(i, stack, new) == IF i = Len(stack) THEN new ELSE stack[i].obj

\* The array that the task i is for, in the middle of the reply nodes[i], after
\* which the tokens rests[i] come.
Level(i, nodes, rests, stack, os) ==
  LET r == nodes[i]  o == stack[i].obj  k == stack[i + 1].idx IN
  /\ r.type = "array" /\ os[o].type = "array" /\ os[o].s = <<>>
  /\ Len(os[o].elems) = Len(r.elems)
  /\ nodes[i + 1] = r.elems[k + 1] /\ rests[i + 1] = After(r.elems)[k + 1] \o rests[i]
  /\ \A j \in 1 .. k : Built(os, os[o].elems[j], r.elems[j], MaxDepth - i)
  /\ \A j \in 1 .. k : \A x \in 1 .. Len(stack) - 1 :
       stack[x].obj \notin Below(os, os[o].elems[j])

Path(nodes, rests, stack) ==
  /\ nodes \in [1 .. Len(stack) -> Replies] /\ rests \in [1 .. Len(stack) -> Seq(Tokens)]
  /\ \A i \in 1 .. Len(stack) :
       MaxDepth - i + 1 \notin Fits[nodes[i]] => Refused(nodes[1])

\* The elements of the arrays are the arrays further in, and new.
Linked(stack, os, top, new) ==
  /\ At(1, stack, new) = top
  /\ \A i \in 1 .. Len(stack) - 1 :
       os[stack[i].obj].elems[stack[i + 1].idx + 1] = At(i + 1, stack, new)

LEMMA BuiltStays ==
  ASSUME NEW os, NEW os2, NEW o, NEW r, NEW d, NEW p, Built(os, o, r, d), p \notin Below(os, o),
         Heap(os, Len(os)), Heap(os2, Len(os2)), Len(os) <= Len(os2),
         \A x \in 1 .. Len(os) : x # p => os2[x] = os[x]
  PROVE  Built(os2, o, r, d) /\ Below(os2, o) = Below(os, o)
PROOF
  <1>1. o \in 1 .. Len(os) /\ Len(os) \in Nat /\ Len(os2) \in Nat
    BY DEF Built, Heap
  <1>2. Below(os, o) \subseteq 1 .. Len(os)
    BY <1>1, BelowIsClosed
  <1>3. \A x \in Below(os, o) : os2[x] = os[x]
    BY <1>2
  <1>4. \A x \in Below(os, o) : Kids(os2, x) = Kids(os, x)
    BY <1>3 DEF Kids
  <1>5. Below(os2, o) = Below(os, o)
    BY <1>1, <1>4, BelowStays
  <1>6. Value(os2, o) = Value(os, o)
    BY <1>1, <1>3, ValueStays
  <1> QED
    BY <1>1, <1>5, <1>6 DEF Built


\* What is known of the arrays on the stack holds with a new object in the
\* innermost of them.
LEMMA CreateLevels ==
  ASSUME IInvA, rstack # <<>>, NEW type \in Types, NEW s \in Seq(Chars), NEW m \in Nat,
         Create(type, s, m), NEW nodes, NEW rests,
         \A i \in 1 .. Len(rstack) - 1 : Level(i, nodes, rests, rstack, objs),
         Linked(rstack, objs, root, None)
  PROVE  /\ \A i \in 1 .. Len(rstack) - 1 : Level(i, nodes, rests, rstack, objs')
         /\ Linked(rstack, objs', root', Len(objs) + 1)
         /\ \A i \in 1 .. Len(rstack) - 1 : \A j \in 1 .. rstack[i + 1].idx :
              Len(objs) + 1 \notin Below(objs', objs'[rstack[i].obj].elems[j])
PROOF
  <1> DEFINE L == Len(rstack)
             n == Len(objs)
             p == rstack[L - 1].obj
  <1>1. L \in Nat /\ L >= 1 /\ n \in Nat
    BY NotEmpty DEF IInvA, HeapTyped
  <1>2. /\ Extends(objs, objs', Cell(type, s, m)) /\ objs \in Seq(Cells) /\ objs' \in Seq(Cells)
        /\ Len(objs') = n + 1
    BY CreateExtends DEF Extends
  <1>3. Forest(objs) /\ Forest(objs')
    <2>1. Forest(objs)' 
      BY CreateKeeps
    <2> QED
      BY <2>1 DEF IInvA
  <1>4. CASE L = 1
    <2>1. root' = n + 1
      BY <1>4, CreateExtends
    <2> QED
      BY <1>4, <2>1 DEF Linked, At
  <1>5. CASE L > 1
    <2>1. /\ root \in 1 .. n /\ root' = root /\ p \in Below(objs, root)
          /\ Within(objs, objs', p, rstack[L].idx + 1)
      BY <1>5, CreateExtends DEF ridx, cur
    <2>2. ASSUME NEW i \in 1 .. L - 1
          PROVE  /\ Level(i, nodes, rests, rstack, objs')
                 /\ objs'[rstack[i].obj].elems[rstack[i + 1].idx + 1] = At(i + 1, rstack, n + 1)
                 /\ \A j \in 1 .. rstack[i + 1].idx :
                      n + 1 \notin Below(objs', objs'[rstack[i].obj].elems[j])
      <3> DEFINE o == rstack[i].obj
                 k == rstack[i + 1].idx
                 r == nodes[i]
      <3>1. /\ o \in Below(objs, root) /\ rstack[i].elements = Len(objs[o].elems)
            /\ k \in 0 .. rstack[i].elements - 1
        BY DEF IInvA, Filling, Fills
      <3>2. o \in 1 .. n
        BY <1>3, <2>1, <3>1, BelowIsClosed DEF Forest
      <3>3. /\ DOMAIN objs[o].elems = 1 .. Len(objs[o].elems) /\ Len(objs[o].elems) \in Nat
            /\ objs[o].elems \in Seq(0 .. MaxObjects)
        BY <1>2, <3>2, CellFields
      <3>4. o = p => i = L - 1
        <4>1. i # L - 1 => rstack[i].obj < rstack[L - 1].obj
          BY <1>1, <1>5 DEF IInvA, Filling
        <4>2. i # L - 1 => o < p
          BY <4>1
        <4> QED
          BY <3>2, <4>2
      <3>5. Level(i, nodes, rests, rstack, objs)
        OBVIOUS
      <3> HIDE DEF o, k, r
      <3>6. /\ objs'[o].type = objs[o].type /\ objs'[o].s = objs[o].s
            /\ objs'[o].elems = IF o = p THEN [objs[o].elems EXCEPT ![rstack[L].idx + 1] = n + 1]
                                ELSE objs[o].elems
        BY <2>1, <3>2 DEF Within
      <3>7. Len(objs'[o].elems) = Len(objs[o].elems)
        BY <3>3, <3>6
      <3>8. \A j \in 1 .. k : objs'[o].elems[j] = objs[o].elems[j]
        <4>1. o = p => k = rstack[L].idx
          BY <1>1, <3>4 DEF k
        <4>2. CASE o = p
          <5>1. objs'[o].elems = [objs[o].elems EXCEPT ![k + 1] = n + 1]
            BY <3>6, <4>1, <4>2
          <5> QED
            BY <3>1, <3>3, <5>1
        <4>3. CASE o # p
          BY <3>6, <4>3
        <4> QED
          BY <4>2, <4>3
      <3>9. ASSUME NEW j \in 1 .. k
            PROVE  /\ Built(objs', objs'[o].elems[j], r.elems[j], MaxDepth - i)
                   /\ \A x \in 1 .. L - 1 : rstack[x].obj \notin Below(objs', objs'[o].elems[j])
                   /\ n + 1 \notin Below(objs', objs'[o].elems[j])
        <4> DEFINE e == objs[o].elems[j]
                   q == r.elems[j]
                   d == MaxDepth - i
        <4>1. /\ Built(objs, e, q, d)
              /\ \A x \in 1 .. L - 1 : rstack[x].obj \notin Below(objs, e)
          BY <3>5 DEF Level, o, k, r
        <4>2. p \notin Below(objs, e)
          BY <1>1, <1>5, <4>1
        <4>3. \A x \in 1 .. Len(objs) : x # p => objs'[x] = objs[x]
          BY <2>1 DEF Within
        <4>4. Heap(objs, Len(objs)) /\ Heap(objs', Len(objs')) /\ Len(objs) <= Len(objs')
          BY <1>1, <1>2, <1>3 DEF Forest
        <4>5. objs'[o].elems[j] = e
          BY <3>8
        <4> HIDE DEF e, q, d, p
        <4>6. Built(objs', e, q, d) /\ Below(objs', e) = Below(objs, e)
          BY <4>1, <4>2, <4>3, <4>4, BuiltStays
        <4>7. Built(objs', objs'[o].elems[j], q, d)
          BY <4>5, <4>6
        <4>8. \A x \in 1 .. L - 1 : rstack[x].obj \notin Below(objs', objs'[o].elems[j])
          BY <4>1, <4>5, <4>6
        <4>9. n + 1 \notin Below(objs', objs'[o].elems[j])
          <5>1. e \in 1 .. Len(objs) /\ Heap(objs, Len(objs))
            BY <4>1, <4>4 DEF Built
          <5>2. Below(objs, e) \subseteq 1 .. Len(objs)
            BY <5>1, BelowIsClosed
          <5> QED
            BY <1>1, <4>5, <4>6, <5>2
        <4> QED
          BY <4>7, <4>8, <4>9 DEF q, d
      <3>10. Level(i, nodes, rests, rstack, objs')
        <4>1. /\ r.type = "array" /\ objs[o].type = "array" /\ objs[o].s = <<>>
              /\ Len(objs[o].elems) = Len(r.elems)
              /\ nodes[i + 1] = r.elems[k + 1] /\ rests[i + 1] = After(r.elems)[k + 1] \o rests[i]
          BY <3>5 DEF Level, o, k, r
        <4>2. /\ objs'[o].type = "array" /\ objs'[o].s = <<>>
              /\ Len(objs'[o].elems) = Len(r.elems)
          BY <3>6, <3>7, <4>1
        <4> QED
          BY <3>9, <4>1, <4>2 DEF Level, o, k, r
      <3>11. objs'[o].elems[k + 1] = At(i + 1, rstack, n + 1)
        <4>1. CASE i = L - 1
          <5>1. o = p /\ k = rstack[L].idx /\ At(i + 1, rstack, n + 1) = n + 1
            BY <1>1, <4>1 DEF o, k, At
          <5>2. objs'[o].elems = [objs[o].elems EXCEPT ![k + 1] = n + 1]
            BY <3>6, <5>1
          <5>3. k + 1 \in 1 .. Len(objs[o].elems)
            BY <3>1, <3>3
          <5> HIDE DEF n
          <5>4. objs'[o].elems[k + 1] = n + 1
            BY <3>3, <5>2, <5>3
          <5> QED
            BY <5>1, <5>4 DEF n
        <4>2. CASE i # L - 1
          <5>1. o # p /\ i + 1 # L
            BY <1>1, <3>4, <4>2
          <5>2. objs[o].elems[k + 1] = At(i + 1, rstack, None)
            BY DEF Linked, o, k
          <5>3. At(i + 1, rstack, None) = At(i + 1, rstack, n + 1)
            BY <5>1 DEF At
          <5> QED
            BY <3>6, <5>1, <5>2, <5>3
        <4> QED
          BY <4>1, <4>2
      <3> QED
        BY <3>9, <3>10, <3>11 DEF o, k
    <2>3. At(1, rstack, n + 1) = root'
      <3>1. At(1, rstack, n + 1) = At(1, rstack, None) /\ At(1, rstack, None) = root
        BY <1>5 DEF At, Linked
      <3> QED
        BY <2>1, <3>1
    <2> QED
      BY <2>2, <2>3 DEF Linked
  <1>6. L = 1 \/ L > 1
    <2>1. L \in Nat /\ L >= 1
      BY <1>1
    <2> HIDE DEF L
    <2> QED
      BY <2>1
  <1> QED
    BY <1>4, <1>5, <1>6

\* A level is complete: its object is all of its reply, and is read.
Done(i, nodes, rests, stack, os, new) ==
  /\ Built(os, At(i, stack, new), nodes[i], MaxDepth - i + 1)
  /\ rests[i] = rests[Len(stack)]

\* An array with its last element is complete.
LEMMA LevelDone ==
  ASSUME NEW stack \in Seq(Tasks), Len(stack) <= MaxDepth + 1, NEW os \in Seq(Cells), Forest(os),
         NEW new, NEW nodes, NEW rests, NEW i \in 1 .. Len(stack) - 1,
         Path(nodes, rests, stack), Level(i, nodes, rests, stack, os),
         stack[i].obj \in 1 .. Len(os),
         os[stack[i].obj].elems[stack[i + 1].idx + 1] = At(i + 1, stack, new),
         stack[i + 1].idx + 1 = Len(os[stack[i].obj].elems),
         Done(i + 1, nodes, rests, stack, os, new)
  PROVE  Done(i, nodes, rests, stack, os, new)
PROOF
  <1> DEFINE o == stack[i].obj
             k == stack[i + 1].idx
             r == nodes[i]
             d == MaxDepth - i
  <1>1. /\ MaxDepth \in Nat /\ Len(stack) \in Nat /\ i + 1 \in 1 .. Len(stack) /\ d \in Nat
        /\ i \in 1 .. Len(stack) /\ d + 1 = MaxDepth - i + 1 /\ MaxDepth - (i + 1) + 1 = d
        /\ d + 1 \in 0 .. MaxDepth /\ d + 1 > 0 /\ (d + 1) - 1 = d
    BY ReaderAssumption
  <1>2. /\ r \in Replies /\ rests[i] \in Seq(Tokens)
    BY <1>1 DEF Path
  <1>a. k \in Int
    <2>1. stack[i + 1] \in Tasks
      BY <1>1
    <2> QED
      BY <2>1 DEF Tasks
  <1>3. /\ r.elems \in Seq(Replies) /\ DOMAIN r.elems = 1 .. Len(r.elems) /\ Len(r.elems) \in Nat
        /\ \A j \in 1 .. Len(r.elems) : r.elems[j] \in Replies
    BY <1>2, ReplyFields
  <1>4. At(i, stack, new) = o
    BY DEF At
  <1>5. /\ os[o].elems \in Seq(0 .. MaxObjects) /\ DOMAIN os[o].elems = 1 .. Len(os[o].elems)
        /\ Heap(os, Len(os))
    BY CellFields DEF Forest
  <1>6. /\ r.type = "array" /\ os[o].type = "array" /\ os[o].s = <<>>
        /\ Len(os[o].elems) = Len(r.elems)
        /\ nodes[i + 1] = r.elems[k + 1] /\ rests[i + 1] = After(r.elems)[k + 1] \o rests[i]
        /\ \A j \in 1 .. k : Built(os, os[o].elems[j], r.elems[j], d)
    BY DEF Level
  <1>7. /\ k + 1 = Len(r.elems)
        /\ Built(os, os[o].elems[k + 1], r.elems[k + 1], d)
        /\ rests[i + 1] = rests[Len(stack)]
    <2>1. /\ Built(os, At(i + 1, stack, new), nodes[i + 1], MaxDepth - (i + 1) + 1)
          /\ rests[i + 1] = rests[Len(stack)]
      BY DEF Done
    <2> QED
      BY <1>1, <1>6, <2>1
  <1>8. o \in 1 .. Len(os)
    OBVIOUS
  <1> HIDE DEF o, k, r, d
  <1>9. \A j \in 1 .. Len(r.elems) : Built(os, os[o].elems[j], r.elems[j], d)
    <2> SUFFICES ASSUME NEW j \in 1 .. Len(r.elems)
                 PROVE  Built(os, os[o].elems[j], r.elems[j], d)
      OBVIOUS
    <2>1. CASE j = k + 1
      BY <1>7, <2>1
    <2>2. CASE j # k + 1
      <3>1. j \in 1 .. k
        BY <1>3, <1>7, <1>a, <2>2
      <3> QED
        BY <1>6, <3>1
    <2> QED
      BY <2>1, <2>2
  <1>10. Value(os, o) = Plain[r]
    <2>1. ASSUME NEW j \in 1 .. Len(r.elems)
          PROVE  os[o].elems[j] # None /\ Value(os, os[o].elems[j]) = Plain[r.elems[j]]
      BY <1>9 DEF Built, None
    <2>2. Value(os, o) = Reply("array", <<>>,
            [j \in 1 .. Len(r.elems) |->
               IF os[o].elems[j] = None THEN None ELSE Value(os, os[o].elems[j])])
      <3>1. Value(os, o) = Reply(os[o].type, os[o].s,
              [j \in DOMAIN os[o].elems |->
                 IF os[o].elems[j] = None THEN None ELSE Value(os, os[o].elems[j])])
        BY <1>5, <1>8, ValueIs
      <3> QED
        BY <1>5, <1>6, <3>1
    <2>3. [j \in 1 .. Len(r.elems) |->
             IF os[o].elems[j] = None THEN None ELSE Value(os, os[o].elems[j])]
          = [j \in 1 .. Len(r.elems) |-> Plain[r.elems[j]]]
      BY <2>1
    <2>4. Plain[r] = Reply("array", <<>>, [j \in 1 .. Len(r.elems) |-> Plain[r.elems[j]]])
      <3>1. Plain[r] = PlainStep(r, Elems(Plain, r)) /\ r.s = <<>>
        BY <1>2, <1>6, PlainIs, ReplyFields
      <3> QED
        BY <1>3, <1>6, <3>1 DEF PlainStep, Elems
    <2> QED
      BY <2>2, <2>3, <2>4
  <1>11. d + 1 \in Fits[r]
    <2>1. Fits[r] = FitsStep(r, Elems(Fits, r))
      BY <1>2, FitsIs
    <2>2. \A j \in DOMAIN r.elems : d \in Elems(Fits, r)[j]
      BY <1>3, <1>9 DEF Built, Elems
    <2> QED
      BY <1>1, <1>6, <2>1, <2>2 DEF FitsStep
  <1>12. rests[i] = rests[i + 1]
    <2>1. After(r.elems)[k + 1] = <<>>
      BY <1>3, <1>7, AfterIs
    <2>2. <<>> \o rests[i] = rests[i]
      BY <1>2, ConcatEmptySeq
    <2> QED
      BY <1>6, <2>1, <2>2
  <1> QED
    BY <1>1, <1>4, <1>7, <1>8, <1>10, <1>11, <1>12 DEF Done, Built, r, o


LEMMA LevelsDone ==
  ASSUME NEW stack \in Seq(Tasks), Len(stack) <= MaxDepth + 1, NEW os \in Seq(Cells), Forest(os),
         NEW new, NEW nodes, NEW rests, Path(nodes, rests, stack),
         \A i \in 1 .. Len(stack) - 1 :
           /\ Level(i, nodes, rests, stack, os) /\ stack[i].obj \in 1 .. Len(os)
           /\ stack[i].elements = Len(os[stack[i].obj].elems)
           /\ os[stack[i].obj].elems[stack[i + 1].idx + 1] = At(i + 1, stack, new),
         NEW m \in 1 .. Len(stack),
         \A i \in m + 1 .. Len(stack) : stack[i].idx = stack[i - 1].elements - 1,
         Done(Len(stack), nodes, rests, stack, os, new)
  PROVE  Done(m, nodes, rests, stack, os, new)
PROOF
  <1> DEFINE L == Len(stack)
             D(i) == Done(i, nodes, rests, stack, os, new)
             S == {k \in Nat : \A i \in m .. L : i + k = L => D(i)}
  <1>1. L \in Nat /\ m \in 1 .. L
    OBVIOUS
  <1>2. ASSUME NEW k \in Nat, \A j \in Nat : j < k => j \in S
        PROVE  k \in S
    <2> SUFFICES ASSUME NEW i \in m .. L, i + k = L PROVE D(i)
      OBVIOUS
    <2>1. CASE k = 0
      BY <1>1, <2>1
    <2>2. CASE k # 0
      <3>1. /\ k - 1 \in Nat /\ k - 1 < k /\ i + 1 \in m .. L /\ (i + 1) + (k - 1) = L
            /\ i \in 1 .. L - 1 /\ i + 1 \in m + 1 .. L
        BY <1>1, <2>2
      <3>2. D(i + 1)
        BY <1>2, <3>1
      <3>3. stack[i + 1].idx + 1 = Len(os[stack[i].obj].elems)
        <4>1. stack[i + 1].idx = stack[(i + 1) - 1].elements - 1 /\ (i + 1) - 1 = i
          BY <3>1
        <4>2. stack[i] \in Tasks /\ stack[i].elements = Len(os[stack[i].obj].elems)
          BY <1>1, <3>1
        <4>3. stack[i].elements \in Int
          BY <4>2 DEF Tasks
        <4> QED
          BY <4>1, <4>2, <4>3, SMTT(30)
      <3>4. /\ Level(i, nodes, rests, stack, os) /\ stack[i].obj \in 1 .. Len(os)
            /\ os[stack[i].obj].elems[stack[i + 1].idx + 1] = At(i + 1, stack, new)
        BY <3>1
      <3> QED
        BY <3>1, <3>2, <3>3, <3>4, LevelDone
    <2> QED
      BY <2>1, <2>2
  <1>3. Nat \subseteq S
    <2> HIDE DEF S
    <2> QED
      BY <1>2, AllNumbers
  <1>4. L - m \in Nat /\ m + (L - m) = L /\ m \in m .. L
    BY <1>1
  <1> QED
    BY <1>3, <1>4

\* The new object, which has no elements.
LEMMA NewDone ==
  ASSUME IInvA, rstack # <<>>, NEW type \in Types, NEW s \in Seq(Chars),
         Create(type, s, 0), NEW r, NEW d, Plain[r] = Reply(type, s, <<>>), d \in Fits[r]
  PROVE  /\ Built(objs', Len(objs) + 1, r, d)
         /\ Below(objs', Len(objs) + 1) = {Len(objs) + 1}
PROOF
  <1> DEFINE new == Len(objs) + 1
             os == objs'
  <1>1. 0 \in Nat
    OBVIOUS
  <1>2. /\ os[new] = Cell(type, s, 0) /\ Len(os) = new /\ Len(objs) \in Nat
    BY <1>1, CreateExtends DEF Extends
  <1>3. Forest(objs)'
    BY <1>1, CreateKeeps
  <1>4. Heap(os, new) /\ new \in 1 .. new
    BY <1>2, <1>3 DEF Forest
  <1>5. /\ os[new].type = type /\ os[new].s = s /\ DOMAIN os[new].elems = {}
    BY <1>2 DEF Cell
  <1>6. Kids(os, new) = {}
    BY <1>2, NoKids
  <1> HIDE DEF new, os
  <1>7. Below(os, new) = {new} \cup UNION {Below(os, e) : e \in Kids(os, new)}
    BY <1>4, BelowIs
  <1>8. Below(os, new) = {new}
    BY <1>6, <1>7
  <1>9. Value(os, new) = Reply(type, s, <<>>)
    <2>1. Value(os, new) =
           Reply(os[new].type, os[new].s,
                 [i \in DOMAIN os[new].elems |->
                    IF os[new].elems[i] = None THEN None ELSE Value(os, os[new].elems[i])])
      BY <1>4, ValueIs
    <2>2. [i \in DOMAIN os[new].elems |->
             IF os[new].elems[i] = None THEN None ELSE Value(os, os[new].elems[i])] = <<>>
      BY <1>5
    <2> QED
      BY <1>5, <2>1, <2>2
  <1>10. Built(os, new, r, d)
    BY <1>2, <1>4, <1>9 DEF Built
  <1> QED
    BY <1>8, <1>10 DEF new, os

\* The next element of an array.
LEMMA NextElement ==
  ASSUME NEW r \in Replies, NEW i \in 1 .. Len(r.elems), NEW x \in Seq(Tokens)
  PROVE  /\ r.elems[i] \in Replies /\ After(r.elems)[i] \o x \in Seq(Tokens)
         /\ After(r.elems)[i - 1] \o x = Wire[r.elems[i]] \o (After(r.elems)[i] \o x)
         /\ \A d \in Int : d \in Fits[r] => d - 1 \in Fits[r.elems[i]]
PROOF
  <1>1. r.elems \in Seq(Replies) /\ r.elems[i] \in Replies /\ DOMAIN r.elems = 1 .. Len(r.elems)
    BY ReplyFields
  <1> DEFINE w == Wire[r.elems[i]]
             a == After(r.elems)[i]
             b == After(r.elems)[i - 1]
  <1>2. w \in Seq(Tokens)
    BY <1>1, WireTyped
  <1>3. i \in 0 .. Len(r.elems) /\ Len(r.elems) \in Nat
    BY <1>1
  <1>4. a \in Seq(Tokens) /\ b = w \o a
    BY <1>1, <1>3, AfterIs
  <1>5. \A d \in Int : d \in Fits[r] => d - 1 \in Fits[r.elems[i]]
    <2>1. Fits[r] = FitsStep(r, Elems(Fits, r))
      BY FitsIs
    <2> QED
      BY <1>1, <2>1 DEF FitsStep, Elems
  <1> HIDE DEF w, a, b
  <1>6. (w \o a) \o x = w \o (a \o x) /\ a \o x \in Seq(Tokens)
    <2>1. a \o x \in Seq(Tokens)
      BY <1>4, JoinIs
    <2>2. (w \o a) \o x = w \o (a \o x)
      BY <1>2, <1>4, ConcatAssociative, SMTT(30)
    <2> QED
      BY <2>1, <2>2
  <1>7. b \o x = w \o (a \o x)
    BY <1>4, <1>6
  <1> QED
    BY <1>1, <1>5, <1>6, <1>7 DEF w, a, b


-----------------------------------------------------------------------------
(* What has been handed out, and where in which reply the reader is.         *)

K == Len(out)
Outs == {Plain[r] : r \in Replies}

\* What was handed out are the replies before sent[K + 1], none refused.
OutOK ==
  /\ sent \in Seq(Replies) /\ out \in Seq(Outs) /\ K <= Len(sent)
  /\ \A i \in 1 .. K : out[i] = Plain[sent[i]] /\ MaxDepth \in Fits[sent[i]]

\* The innermost task has to read the reply node, or its rest after the type.
Here(task, node, rest, left) ==
  /\ task.type = NoType => left = Wire[node] \o rest
  /\ task.type # NoType => left = RestOf(node) \o rest /\ task.type = Kind(node)

Reading(nodes, rests, stack, os, left, first, after) ==
  /\ Path(nodes, rests, stack) /\ nodes[1] = first /\ rests[1] = after
  /\ \A i \in 1 .. Len(stack) - 1 : Level(i, nodes, rests, stack, os)
  /\ Here(stack[Len(stack)], nodes[Len(stack)], rests[Len(stack)], left)

Middle ==
  rstack # <<>> =>
    /\ Linked(rstack, objs, root, None)
    /\ \/ /\ K < Len(sent)
          /\ \E nodes, rests :
               Reading(nodes, rests, rstack, objs, Left, sent[K + 1], After(sent)[K + 1])
       \/ /\ K = Len(sent) /\ Left = <<>>
          /\ Len(rstack) = 1 /\ cur.type = NoType

Between == err = "none" /\ pc # "freed" /\ rstack = <<>> /\ root = None => Left = After(sent)[K]

Whole ==
  rstack = <<>> /\ root # None =>
    /\ K < Len(sent) /\ Built(objs, root, sent[K + 1], MaxDepth)
    /\ Left = After(sent)[K + 1]

\* A task that the reader moves on to the next element of its array.
LEMMA MovedReading ==
  ASSUME NEW stack \in Seq(Tasks), NEW stack2, Len(stack) <= MaxDepth + 1,
         NEW m, LeftOf(stack, stack2, m), stack[m].idx \in Nat,
         NEW os \in Seq(Cells), Forest(os), NEW top, NEW new,
         NEW nodes, NEW rests, Path(nodes, rests, stack),
         \A i \in 1 .. Len(stack) - 1 : Level(i, nodes, rests, stack, os),
         Linked(stack, os, top, new), Done(m, nodes, rests, stack, os, new),
         Fills(m - 1, stack2, os, top), os[stack2[m - 1].obj].elems[stack2[m].idx + 1] = None,
         \A x \in 1 .. m - 1 : stack[x].obj < At(m, stack, new)
  PROVE  /\ Linked(stack2, os, top, None)
         /\ \E nodes2, rests2 :
              Reading(nodes2, rests2, stack2, os, rests[Len(stack)], nodes[1], rests[1])
PROOF
  <1> DEFINE L == Len(stack)
             r == nodes[m - 1]
             o == stack[m - 1].obj
             k == stack[m].idx
             r2 == r.elems[k + 2]
             x2 == After(r.elems)[k + 2] \o rests[m - 1]
             nodes2 == [i \in 1 .. m |-> IF i = m THEN r2 ELSE nodes[i]]
             rests2 == [i \in 1 .. m |-> IF i = m THEN x2 ELSE rests[i]]
  <1>1. /\ L \in Nat /\ m \in 2 .. L /\ m - 1 \in 1 .. L - 1 /\ (m - 1) + 1 = m /\ m \in Nat
        /\ m - 1 \in 1 .. L /\ m \in 1 .. L
    BY DEF LeftOf
  <1>2. /\ stack2 \in Seq(Tasks) /\ Len(stack2) = m /\ stack2[m] = Task(NoType, k + 1, None)
        /\ \A i \in 1 .. m - 1 : stack2[i] = stack[i]
    BY DEF LeftOf
  <1>3. stack2[m].type = NoType /\ stack2[m].idx = k + 1 /\ stack2[m - 1].obj = o
        /\ stack2[m - 1].elements = stack[m - 1].elements
    BY <1>1, <1>2 DEF Task
  <1>4. k \in Nat
    OBVIOUS
  <1>5. /\ r.type = "array" /\ os[o].type = "array" /\ os[o].s = <<>>
        /\ Len(os[o].elems) = Len(r.elems)
        /\ nodes[m] = r.elems[k + 1] /\ rests[m] = After(r.elems)[k + 1] \o rests[m - 1]
        /\ \A j \in 1 .. k : Built(os, os[o].elems[j], r.elems[j], MaxDepth - (m - 1))
        /\ \A j \in 1 .. k : \A x \in 1 .. L - 1 : stack[x].obj \notin Below(os, os[o].elems[j])
    <2>1. Level(m - 1, nodes, rests, stack, os)
      BY <1>1
    <2> QED
      BY <1>1, <2>1 DEF Level
  <1>6. k + 2 \in 1 .. Len(r.elems) /\ k + 2 - 1 = k + 1
    <2>1. stack2[m].idx \in 0 .. stack2[m - 1].elements - 1 /\ stack2[m - 1].elements = Len(os[o].elems)
      BY <1>1, <1>3 DEF Fills
    <2>2. k + 1 \in 0 .. Len(os[o].elems) - 1
      BY <1>3, <2>1
    <2>3. k + 1 \in 0 .. Len(r.elems) - 1
      BY <1>5, <2>2
    <2>4. r \in Replies
      BY <1>1 DEF Path
    <2>5. Len(r.elems) \in Nat
      BY <2>4, ReplyFields
    <2> HIDE DEF k, r
    <2> QED
      BY <1>4, <2>3, <2>5
  <1>7. /\ nodes \in [1 .. L -> Replies] /\ rests \in [1 .. L -> Seq(Tokens)]
        /\ \A i \in 1 .. L : MaxDepth - i + 1 \notin Fits[nodes[i]] => Refused(nodes[1])
    BY DEF Path
  <1>8. r \in Replies /\ rests[m - 1] \in Seq(Tokens)
    BY <1>1, <1>7
  <1>9. MaxDepth \in Nat /\ MaxDepth - (m - 1) + 1 \in Int /\ (MaxDepth - (m - 1) + 1) - 1 = MaxDepth - m + 1
        /\ MaxDepth - (m - 1) = MaxDepth - m + 1
    BY <1>1, ReaderAssumption
  <1>10. /\ r2 \in Replies /\ x2 \in Seq(Tokens)
         /\ After(r.elems)[k + 1] \o rests[m - 1] = Wire[r2] \o x2
         /\ MaxDepth - (m - 1) + 1 \in Fits[r] => MaxDepth - m + 1 \in Fits[r2]
    <2> DEFINE j == k + 2
    <2>1. j \in 1 .. Len(r.elems) /\ j - 1 = k + 1
      BY <1>6
    <2> HIDE DEF r, k, j
    <2>2. /\ r.elems[j] \in Replies /\ After(r.elems)[j] \o rests[m - 1] \in Seq(Tokens)
          /\ After(r.elems)[j - 1] \o rests[m - 1] = Wire[r.elems[j]] \o (After(r.elems)[j] \o rests[m - 1])
          /\ \A d \in Int : d \in Fits[r] => d - 1 \in Fits[r.elems[j]]
      BY <1>8, <2>1, NextElement
    <2> QED
      BY <1>9, <2>1, <2>2 DEF j
  <1> HIDE DEF r2, x2
  <1>11. /\ nodes2[m] = r2 /\ rests2[m] = x2
         /\ \A i \in 1 .. m - 1 : nodes2[i] = nodes[i] /\ rests2[i] = rests[i]
         /\ nodes2 \in [1 .. m -> Replies] /\ rests2 \in [1 .. m -> Seq(Tokens)]
    <2>1. m \in 1 .. m /\ \A i \in 1 .. m - 1 : i # m /\ i \in 1 .. m /\ i \in 1 .. L
      BY <1>1
    <2>2. \A i \in 1 .. m : i # m => i \in 1 .. m - 1
      BY <1>1
    <2>3. \A i \in 1 .. m : nodes2[i] \in Replies
      <3>1. \A i \in 1 .. m - 1 : nodes[i] \in Replies
        BY <1>7, <2>1
      <3> QED
        BY <1>10, <2>2, <3>1
    <2>4. \A i \in 1 .. m : rests2[i] \in Seq(Tokens)
      <3>1. \A i \in 1 .. m - 1 : rests[i] \in Seq(Tokens)
        BY <1>7, <2>1
      <3> QED
        BY <1>10, <2>2, <3>1
    <2>5. nodes2[m] = r2 /\ rests2[m] = x2
      BY <2>1
    <2>6. \A i \in 1 .. m - 1 : nodes2[i] = nodes[i] /\ rests2[i] = rests[i]
      BY <2>1
    <2> QED
      BY <2>3, <2>4, <2>5, <2>6
  <1> HIDE DEF nodes2, rests2
  <1>12. nodes2[1] = nodes[1] /\ rests2[1] = rests[1]
    BY <1>1, <1>11
  <1>13. Path(nodes2, rests2, stack2)
    <2>1. ASSUME NEW i \in 1 .. m, MaxDepth - i + 1 \notin Fits[nodes2[i]]
          PROVE  Refused(nodes2[1])
      <3>1. CASE i = m
        <4>1. MaxDepth - (m - 1) + 1 \notin Fits[r]
          BY <1>10, <1>11, <2>1, <3>1
        <4> QED
          BY <1>1, <1>7, <1>12, <4>1
      <3>2. CASE i # m
        <4>1. i \in 1 .. m - 1 /\ i \in 1 .. L
          BY <1>1, <3>2
        <4> QED
          BY <1>7, <1>11, <1>12, <2>1, <4>1
      <3> QED
        BY <3>1, <3>2
    <2> QED
      BY <1>2, <1>11, <2>1 DEF Path
  <1>14. ASSUME NEW i \in 1 .. m - 1 PROVE Level(i, nodes2, rests2, stack2, os)
    <2>1. CASE i = m - 1
      <3>1. /\ nodes2[i] = r /\ rests2[i] = rests[m - 1] /\ stack2[i].obj = o /\ i + 1 = m
            /\ stack2[i + 1].idx = k + 1
        BY <1>1, <1>3, <1>11, <2>1
      <3>2. nodes2[i + 1] = r.elems[(k + 1) + 1]
            /\ rests2[i + 1] = After(r.elems)[(k + 1) + 1] \o rests2[i]
        <4>1. (k + 1) + 1 = k + 2
          BY <1>4
        <4>2. nodes2[i + 1] = r.elems[k + 2] /\ rests2[i + 1] = After(r.elems)[k + 2] \o rests2[i]
          BY <1>11, <3>1 DEF r2, x2
        <4> HIDE DEF k, r
        <4> QED
          BY <4>1, <4>2
      <3>3. /\ Built(os, At(m, stack, new), nodes[m], MaxDepth - m + 1)
            /\ os[o].elems[k + 1] = At(m, stack, new)
        BY <1>1 DEF Done, Linked
      <3>4. \A j \in 1 .. k + 1 : Built(os, os[o].elems[j], r.elems[j], MaxDepth - i)
        <4>1. Built(os, os[o].elems[k + 1], r.elems[k + 1], MaxDepth - i)
          BY <1>5, <1>9, <2>1, <3>3
        <4>2. \A j \in 1 .. k : Built(os, os[o].elems[j], r.elems[j], MaxDepth - i)
          BY <1>5, <2>1
        <4> HIDE DEF k, r, o
        <4>3. \A j \in 1 .. k + 1 : j = k + 1 \/ j \in 1 .. k
          BY <1>4
        <4> QED
          BY <4>1, <4>2, <4>3
      <3>5. \A j \in 1 .. k + 1 : \A x \in 1 .. m - 1 : stack2[x].obj \notin Below(os, os[o].elems[j])
        <4>1. \A j \in 1 .. k : \A x \in 1 .. m - 1 : stack2[x].obj \notin Below(os, os[o].elems[j])
          <5>1. \A x \in 1 .. m - 1 : x \in 1 .. L - 1 /\ stack2[x].obj = stack[x].obj
            BY <1>1, <1>2
          <5>2. \A j \in 1 .. k : \A x \in 1 .. L - 1 : stack[x].obj \notin Below(os, os[o].elems[j])
            BY <1>5
          <5> HIDE DEF k, o, L
          <5> QED
            BY <5>1, <5>2
        <4>2. \A x \in 1 .. m - 1 : stack2[x].obj \notin Below(os, os[o].elems[k + 1])
          <5> DEFINE e == At(m, stack, new)
          <5>1. e \in 1 .. Len(os) /\ Heap(os, Len(os)) /\ os[o].elems[k + 1] = e
            BY <3>3 DEF Built, Forest
          <5>2. \A x \in 1 .. m - 1 : stack2[x].obj < e /\ stack2[x].obj \in Int
            <6>1. \A x \in 1 .. m - 1 : stack2[x] = stack[x] /\ stack[x] \in Tasks /\ stack[x].obj < e
              BY <1>1, <1>2
            <6>2. \A t \in Tasks : t.obj \in Int
              BY DEF Tasks
            <6> HIDE DEF e
            <6> QED
              BY <6>1, <6>2
          <5> HIDE DEF e
          <5>3. \A y \in Below(os, e) : y \in 1 .. Len(os) /\ y >= e
            BY <5>1, BelowIsYounger
          <5>4. Len(os) \in Nat
            BY <5>1 DEF Heap
          <5>5. \A x \in 1 .. m - 1 : stack2[x].obj \notin Below(os, e)
            BY <5>1, <5>2, <5>3, <5>4
          <5> QED
            BY <5>1, <5>5
        <4> HIDE DEF k, r, o
        <4>3. \A j \in 1 .. k + 1 : j = k + 1 \/ j \in 1 .. k
          BY <1>4
        <4> QED
          BY <4>1, <4>2, <4>3
      <3> HIDE DEF k, r, o
      <3> QED
        BY <1>2, <1>5, <3>1, <3>2, <3>4, <3>5 DEF Level
    <2>2. CASE i # m - 1
      <3>1. /\ i \in 1 .. L - 1 /\ i + 1 \in 1 .. m - 1 /\ i \in 1 .. m - 1
        BY <1>1, <2>2
      <3>2. Level(i, nodes, rests, stack, os)
        BY <3>1
      <3>3. /\ stack2[i] = stack[i] /\ stack2[i + 1] = stack[i + 1] /\ nodes2[i] = nodes[i]
            /\ nodes2[i + 1] = nodes[i + 1] /\ rests2[i] = rests[i] /\ rests2[i + 1] = rests[i + 1]
        BY <1>2, <1>11, <3>1
      <3>4. \A x \in 1 .. m - 1 : stack2[x] = stack[x] /\ x \in 1 .. L - 1
        BY <1>1, <1>2
      <3> QED
        BY <1>2, <3>2, <3>3, <3>4 DEF Level
    <2> QED
      BY <2>1, <2>2
  <1>15. Here(stack2[m], nodes2[m], rests2[m], rests[L])
    <2>1. rests[L] = rests[m]
      BY DEF Done
    <2>2. rests[L] = Wire[r2] \o x2
      BY <1>5, <1>10, <2>1
    <2> QED
      BY <1>3, <1>11, <2>2 DEF Here
  <1>16. Linked(stack2, os, top, None)
    <2>1. At(1, stack2, None) = top
      <3>1. 1 # m /\ 1 # L /\ stack2[1] = stack[1]
        BY <1>1, <1>2
      <3>2. At(1, stack, new) = top
        BY DEF Linked
      <3> QED
        BY <1>2, <3>1, <3>2 DEF At
    <2>2. ASSUME NEW i \in 1 .. m - 1
          PROVE  os[stack2[i].obj].elems[stack2[i + 1].idx + 1] = At(i + 1, stack2, None)
      <3>1. CASE i = m - 1
        BY <1>1, <1>2, <3>1 DEF At
      <3>2. CASE i # m - 1
        <4>1. /\ i \in 1 .. L - 1 /\ i + 1 \in 1 .. m - 1 /\ i \in 1 .. m - 1 /\ i + 1 # m /\ i + 1 # L
          BY <1>1, <3>2
        <4>2. os[stack[i].obj].elems[stack[i + 1].idx + 1] = At(i + 1, stack, new)
          BY <4>1 DEF Linked
        <4>3. stack2[i] = stack[i] /\ stack2[i + 1] = stack[i + 1]
          BY <1>2, <4>1
        <4> QED
          BY <1>2, <4>1, <4>2, <4>3 DEF At
      <3> QED
        BY <3>1, <3>2
    <2> QED
      BY <1>2, <2>1, <2>2 DEF Linked
  <1>17. Reading(nodes2, rests2, stack2, os, rests[L], nodes[1], rests[1])
    BY <1>2, <1>12, <1>13, <1>14, <1>15 DEF Reading
  <1> QED
    BY <1>16, <1>17


Position == OutOK /\ Middle /\ Between /\ Whole

LEMMA StackIsFilled ==
  ASSUME IInvA, NEW i \in 1 .. Len(rstack) - 1
  PROVE  /\ rstack[i].obj \in 1 .. Len(objs) /\ rstack[i].obj \in Below(objs, root)
         /\ rstack[i].elements = Len(objs[rstack[i].obj].elems)
         /\ rstack[i + 1].idx \in 0 .. rstack[i].elements - 1
         /\ Len(objs) \in Nat
PROOF
  <1>1. /\ rstack[i].obj \in Below(objs, root)
        /\ rstack[i].elements = Len(objs[rstack[i].obj].elems)
        /\ rstack[i + 1].idx \in 0 .. rstack[i].elements - 1
    BY DEF IInvA, Filling, Fills
  <1>2. root # None
    BY <1>1, BelowNone
  <1>3. root \in 1 .. Len(objs) /\ Heap(objs, Len(objs)) /\ Len(objs) \in Nat
    BY <1>2 DEF IInvA, HeapTyped, Forest, Heap, None
  <1> QED
    BY <1>1, <1>3, BelowIsClosed

\* An item is finished: the new object is all of the reply that was to be read.
LEMMA FinishReads ==
  ASSUME IInvA, IInvA', OutOK, rstack # <<>>, NEW type \in Types, NEW s \in Seq(Chars),
         Create(type, s, 0), rstack' = Moved(rstack), Linked(rstack, objs, root, None),
         NEW nodes, NEW rests, K < Len(sent),
         Reading(nodes, rests, rstack, objs, Left, sent[K + 1], After(sent)[K + 1]),
         Plain[nodes[Len(rstack)]] = Reply(type, s, <<>>),
         MaxDepth - Len(rstack) + 1 \in Fits[nodes[Len(rstack)]],
         Left' = rests[Len(rstack)], sent' = sent, out' = out
  PROVE  Position'
PROOF
  <1> DEFINE L == Len(rstack)
             n == Len(objs)
  <1>0. 0 \in Nat
    OBVIOUS
  <1>1. /\ L \in Nat /\ L >= 1 /\ L \in 1 .. L /\ rstack \in Seq(Tasks) /\ L <= MaxDepth + 1
        /\ n \in Nat /\ MaxDepth \in Nat
    BY NotEmpty, ReaderAssumption DEF IInvA, StackTyped, HeapTyped
  <1>2. /\ objs' \in Seq(Cells) /\ Forest(objs)' /\ Len(objs') = n + 1
    BY <1>0, CreateExtends, CreateKeeps DEF Extends
  <1>3. /\ Path(nodes, rests, rstack) /\ nodes[1] = sent[K + 1] /\ rests[1] = After(sent)[K + 1]
        /\ \A i \in 1 .. L - 1 : Level(i, nodes, rests, rstack, objs)
    BY DEF Reading
  <1>4. /\ \A i \in 1 .. L - 1 : Level(i, nodes, rests, rstack, objs')
        /\ Linked(rstack, objs', root', n + 1)
    BY <1>0, <1>3, CreateLevels
  <1>5. Done(L, nodes, rests, rstack, objs', n + 1)
    <2>1. Built(objs', n + 1, nodes[L], MaxDepth - L + 1)
      BY NewDone
    <2> QED
      BY <2>1 DEF Done, At
  <1>6. \A i \in 1 .. L - 1 :
          /\ Level(i, nodes, rests, rstack, objs') /\ rstack[i].obj \in 1 .. Len(objs')
          /\ rstack[i].elements = Len(objs'[rstack[i].obj].elems)
          /\ objs'[rstack[i].obj].elems[rstack[i + 1].idx + 1] = At(i + 1, rstack, n + 1)
    <2> SUFFICES ASSUME NEW i \in 1 .. L - 1
                 PROVE  /\ rstack[i].obj \in 1 .. Len(objs')
                        /\ rstack[i].elements = Len(objs'[rstack[i].obj].elems)
                        /\ objs'[rstack[i].obj].elems[rstack[i + 1].idx + 1] = At(i + 1, rstack, n + 1)
      BY <1>4
    <2>1. rstack[i].obj \in 1 .. Len(objs')
      <3>1. rstack[i].obj \in 1 .. n
        BY StackIsFilled
      <3> QED
        BY <1>1, <1>2, <3>1
    <2>2. rstack[i].elements = Len(objs'[rstack[i].obj].elems)
      <3>1. Fills(i, rstack, objs', root')
        BY <1>0, CreateFills
      <3> QED
        BY <3>1 DEF Fills
    <2> QED
      BY <1>4, <2>1, <2>2 DEF Linked
  <1>7. ASSUME NEW m \in 1 .. L, \A i \in m + 1 .. L : rstack[i].idx = rstack[i - 1].elements - 1
        PROVE  Done(m, nodes, rests, rstack, objs', n + 1)
    <2> HIDE DEF n
    <2>1. Forest(objs')
      BY <1>2
    <2> QED
      BY <1>1, <1>2, <1>3, <1>5, <1>6, <1>7, <2>1, LevelsDone
  <1>8. K' = K /\ OutOK'
    BY DEF OutOK, K
  <1>9. CASE Moved(rstack) = <<>> /\ \A i \in 2 .. L : rstack[i].idx = rstack[i - 1].elements - 1
    <2>1. 1 \in 1 .. L /\ 1 + 1 = 2 /\ MaxDepth - 1 + 1 = MaxDepth
      BY <1>1
    <2>2. Done(1, nodes, rests, rstack, objs', n + 1)
      BY <1>7, <1>9, <2>1
    <2>3. At(1, rstack, n + 1) = root'
      BY <1>4 DEF Linked
    <2>4. Built(objs', root', sent[K + 1], MaxDepth) /\ rests[1] = rests[L]
      BY <1>3, <2>1, <2>2, <2>3 DEF Done
    <2>5. root' # None /\ Left' = After(sent)[K + 1]
      <3>1. root' \in 1 .. Len(objs')
        BY <2>4 DEF Built
      <3> QED
        BY <1>2, <1>3, <2>4, <3>1 DEF None
    <2>6. Whole'
      BY <1>8, <2>4, <2>5 DEF Whole
    <2>7. Middle' /\ Between'
      BY <1>9, <2>5 DEF Middle, Between
    <2> QED
      BY <1>8, <2>6, <2>7 DEF Position
  <1>10. ASSUME NEW m \in 2 .. L, LeftOf(rstack, Moved(rstack), m) PROVE Position'
    <2>1. LeftOf(rstack, rstack', m) /\ m \in 1 .. L /\ m - 1 \in 1 .. L - 1 /\ (m - 1) + 1 = m
      BY <1>1, <1>10
    <2>2. Done(m, nodes, rests, rstack, objs', n + 1)
      <3>1. \A i \in m + 1 .. L : rstack[i].idx = rstack[i - 1].elements - 1
        BY <2>1 DEF LeftOf
      <3> QED
        BY <1>7, <2>1, <3>1
    <2>3. rstack[m].idx \in Nat
      <3>1. rstack[(m - 1) + 1].idx \in 0 .. rstack[m - 1].elements - 1
        BY <2>1, StackIsFilled
      <3> QED
        BY <2>1, <3>1
    <2>4. Len(rstack') = m /\ rstack' # <<>> /\ rstack'[m].type = NoType
      BY <2>1 DEF LeftOf, Task
    <2>5. /\ Fills(m - 1, rstack', objs', root')
          /\ objs'[rstack'[m - 1].obj].elems[rstack'[m].idx + 1] = None
      <3>1. \A i \in 1 .. Len(rstack') - 1 : Fills(i, rstack', objs', root')
        BY DEF IInvA, Filling
      <3>2. Len(rstack') > 1 => objs'[rstack'[Len(rstack') - 1].obj].elems[rstack'[Len(rstack')].idx + 1] = None
        BY DEF IInvA, Filling, ridx, cur
      <3> QED
        BY <2>1, <2>4, <3>1, <3>2
    <2>6. \A x \in 1 .. m - 1 : rstack[x].obj < At(m, rstack, n + 1)
      <3> SUFFICES ASSUME NEW x \in 1 .. m - 1 PROVE rstack[x].obj < At(m, rstack, n + 1)
        OBVIOUS
      <3>1. x \in 1 .. L - 1 /\ rstack[x].obj \in 1 .. n
        <4>1. x \in 1 .. L - 1
          BY <1>1
        <4> QED
          BY <4>1, StackIsFilled
      <3>2. CASE m = L
        BY <1>1, <3>1, <3>2 DEF At
      <3>3. CASE m # L
        <4>1. m \in 1 .. L - 1 /\ x < m
          BY <1>1, <3>3
        <4>2. rstack[x].obj < rstack[m].obj
          BY <3>1, <4>1 DEF IInvA, Filling
        <4> QED
          BY <3>3, <4>2 DEF At
      <3> QED
        BY <3>2, <3>3
    <2>7. /\ Linked(rstack', objs', root', None)
          /\ \E nodes2, rests2 :
               Reading(nodes2, rests2, rstack', objs', rests[L], nodes[1], rests[1])
      <3> HIDE DEF n
      <3>1. Forest(objs')
        BY <1>2
      <3> QED
        BY <1>1, <1>2, <1>3, <1>4, <2>1, <2>2, <2>3, <2>5, <2>6, <3>1, MovedReading
    <2>8. Middle'
      BY <1>3, <1>8, <2>7 DEF Middle
    <2>9. Whole' /\ Between'
      BY <2>4 DEF Whole, Between
    <2> QED
      BY <1>8, <2>8, <2>9 DEF Position
  <1> QED
    BY <1>1, <1>9, <1>10, MovedIs


\* An error of the protocol is in the reply that the reader is at.
Wrong == err = "protocol" => K < Len(sent) /\ Refused(sent[K + 1])

LEMMA SetErrorReads ==
  ASSUME OutOK, NEW type \in {"protocol", "oom"}, SetError(type), sent' = sent, out' = out,
         type = "protocol" => K < Len(sent) /\ Refused(sent[K + 1])
  PROVE  Position' /\ Wrong'
PROOF
  <1>1. /\ err' = type /\ type # "none" /\ rstack' = <<>> /\ root' = None /\ K' = K
    BY DEF SetError, K
  <1>2. OutOK' /\ Wrong'
    BY <1>1 DEF OutOK, K, Wrong
  <1>3. Middle' /\ Between' /\ Whole'
    BY <1>1 DEF Middle, Between, Whole
  <1> QED
    BY <1>2, <1>3 DEF Position

LEMMA FinishB ==
  ASSUME IInvA, IInvA', OutOK, rstack # <<>>, NEW type \in Types, NEW s \in Seq(Chars),
         NEW c, Finish(type, s, c, Moved(rstack)), Linked(rstack, objs, root, None),
         NEW nodes, NEW rests, K < Len(sent),
         Reading(nodes, rests, rstack, objs, Left, sent[K + 1], After(sent)[K + 1]),
         Plain[nodes[Len(rstack)]] = Reply(type, s, <<>>),
         MaxDepth - Len(rstack) + 1 \in Fits[nodes[Len(rstack)]],
         Consume(c) => Left' = rests[Len(rstack)], sent' = sent, out' = out
  PROVE  Position' /\ Wrong'
PROOF
  <1>1. CASE Create(type, s, 0) /\ rstack' = Moved(rstack) /\ Consume(c)
    <2>1. Position'
      BY <1>1, FinishReads
    <2>2. err' = "none"
      BY <1>1, NotEmpty DEF Consume
    <2> QED
      BY <2>1, <2>2 DEF Wrong
  <1>2. CASE SetError("oom")
    BY <1>2, SetErrorReads
  <1> QED
    BY <1>1, <1>2 DEF Finish

LEMMA LeafIs ==
  ASSUME NEW r \in Replies
  PROVE  /\ r.type \in {"status", "error", "integer", "string", "nil"} =>
              /\ Plain[r] = Reply(r.type, r.s, <<>>)
              /\ \A d \in 0 .. MaxDepth : d \in Fits[r]
         /\ r.type \in {"nilarray", "array"} /\ r.elems = <<>> =>
              /\ Plain[r] = Reply(IF r.type = "nilarray" THEN "nil" ELSE "array", <<>>, <<>>)
              /\ \A d \in 1 .. MaxDepth : d \in Fits[r]
         /\ r.type \in {"nilarray", "array"} => 0 \notin Fits[r]
         /\ r.type = "garbage" => Fits[r] = {}
PROOF
  <1>1. Plain[r] = PlainStep(r, Elems(Plain, r)) /\ Fits[r] = FitsStep(r, Elems(Fits, r))
    BY PlainIs, FitsIs
  <1>2. r.elems = <<>> => Elems(Plain, r) = <<>> /\ DOMAIN r.elems = {}
    BY DEF Elems
  <1>3. r.type # "array" => r.elems = <<>>
    BY ReplyFields
  <1>4. r.type \in {"nilarray", "array"} => r.s = <<>>
    BY ReplyFields
  <1>5. MaxDepth \in Nat
    BY ReaderAssumption
  <1>6. r.elems = <<>> => Plain[r] = Reply(IF r.type = "nilarray" THEN "nil" ELSE r.type, r.s, <<>>)
    BY <1>1, <1>2 DEF PlainStep
  <1>7. ASSUME r.elems = <<>>, r.type # "garbage", NEW d \in 0 .. MaxDepth,
               d > 0 \/ r.type \notin {"nilarray", "array"}
        PROVE  d \in Fits[r]
    BY <1>1, <1>2, <1>7 DEF FitsStep
  <1>8. r.type \in {"nilarray", "array"} => 0 \notin Fits[r]
    BY <1>1 DEF FitsStep
  <1>9. r.type = "garbage" => Fits[r] = {}
    BY <1>1 DEF FitsStep
  <1> QED
    BY <1>3, <1>4, <1>5, <1>6, <1>7, <1>8, <1>9

LEMMA LeftConsumedTwo ==
  ASSUME BytesTyped, Avail >= 2, Consume(2), stream' = stream
  PROVE  Left = <<Tok(1), Tok(2)>> \o Left' /\ Left' \in Seq(Tokens)
         /\ Tok(1) \in Tokens /\ Tok(2) \in Tokens
PROOF
  <1>1. stream \in Seq(Tokens) /\ buf \in Seq(Tokens) /\ pos \in 0 .. Len(buf) - 1
        /\ pos + 1 \in 0 .. Len(buf) - 1 /\ (pos + 1) + 1 = pos + 2 /\ pos \in Nat
    BY DEF BytesTyped, Avail
  <1> DEFINE t == Cut(buf, pos + 2)
             a == Tok(1)
             b == Tok(2)
             p == pos + 1
  <1>2. Cut(buf, pos) = <<a>> \o Cut(buf, p) /\ a \in Tokens
    BY <1>1, CutOne DEF Tok
  <1>3. Cut(buf, p) = <<b>> \o t /\ b \in Tokens
    <2>1. Cut(buf, p) = <<buf[p + 1]>> \o Cut(buf, p + 1) /\ buf[p + 1] \in Tokens
      <3>1. p \in 0 .. Len(buf) - 1 /\ buf \in Seq(Tokens)
        BY <1>1
      <3> HIDE DEF p
      <3> QED
        BY <3>1, CutOne
    <2> QED
      BY <1>1, <2>1 DEF Tok
  <1>4. t \in Seq(Tokens)
    <2>1. pos + 2 \in 0 .. Len(buf)
      BY <1>1
    <2> QED
      BY <1>1, <2>1, CutIs
  <1>5. Left' = t \o stream /\ Left = (<<a>> \o (<<b>> \o t)) \o stream
    BY <1>2, <1>3 DEF Left, Consume
  <1> HIDE DEF t, a, b, p
  <1>6. <<a>> \in Seq(Tokens) /\ <<b>> \in Seq(Tokens) /\ <<a, b>> = <<a>> \o <<b>>
        /\ <<a, b>> \in Seq(Tokens)
    BY <1>2, <1>3, PairIs
  <1>7. <<a>> \o (<<b>> \o t) = <<a, b>> \o t
    BY <1>4, <1>6, ConcatAssociative
  <1>8. (<<a, b>> \o t) \o stream = <<a, b>> \o (t \o stream)
    <2>1. <<a, b>> \in Seq(Tokens) /\ t \in Seq(Tokens) /\ stream \in Seq(Tokens)
      BY <1>1, <1>4, <1>6
    <2> QED
      BY <2>1, ConcatAssociative
  <1>9. Left = <<a, b>> \o Left' /\ Left' \in Seq(Tokens)
    BY <1>1, <1>4, <1>5, <1>7, <1>8, JoinIs
  <1> QED
    BY <1>2, <1>3, <1>9 DEF a, b

\* The stack with another type in its innermost task.
LEMMA SameTasks ==
  ASSUME NEW stack, NEW stack2, Len(stack2) = Len(stack),
         \A i \in 1 .. Len(stack) : stack2[i].obj = stack[i].obj /\ stack2[i].idx = stack[i].idx,
         NEW nodes, NEW rests, NEW os, NEW top, NEW new, Len(stack) \in Nat, Len(stack) >= 1
  PROVE  /\ Path(nodes, rests, stack) => Path(nodes, rests, stack2)
         /\ \A i \in 1 .. Len(stack) - 1 :
              Level(i, nodes, rests, stack, os) => Level(i, nodes, rests, stack2, os)
         /\ (\A i \in 1 .. Len(stack) - 1 :
               os[stack[i].obj].elems[stack[i + 1].idx + 1] = At(i + 1, stack, new))
            /\ At(1, stack, new) = top
            => Linked(stack2, os, top, new)
PROOF
  <1> DEFINE L == Len(stack)
  <1>1. Path(nodes, rests, stack) => Path(nodes, rests, stack2)
    BY DEF Path
  <1>2. ASSUME NEW i \in 1 .. L - 1, Level(i, nodes, rests, stack, os)
        PROVE  Level(i, nodes, rests, stack2, os)
    <2>1. i \in 1 .. L /\ i + 1 \in 1 .. L
      OBVIOUS
    <2>2. stack2[i].obj = stack[i].obj /\ stack2[i + 1].idx = stack[i + 1].idx
      BY <2>1
    <2>3. \A x \in 1 .. L - 1 : stack2[x].obj = stack[x].obj
      OBVIOUS
    <2> QED
      BY <1>2, <2>2, <2>3 DEF Level
  <1>3. ASSUME \A i \in 1 .. L - 1 :
                 os[stack[i].obj].elems[stack[i + 1].idx + 1] = At(i + 1, stack, new),
               At(1, stack, new) = top
        PROVE  Linked(stack2, os, top, new)
    <2>1. \A i \in 1 .. L : At(i, stack2, new) = At(i, stack, new)
      BY DEF At
    <2>2. 1 \in 1 .. L /\ \A i \in 1 .. L - 1 : i \in 1 .. L /\ i + 1 \in 1 .. L
      OBVIOUS
    <2>3. At(1, stack2, new) = top
      BY <1>3, <2>1, <2>2
    <2>4. \A i \in 1 .. L - 1 : os[stack2[i].obj].elems[stack2[i + 1].idx + 1] = At(i + 1, stack2, new)
      BY <1>3, <2>1, <2>2
    <2> QED
      BY <2>3, <2>4 DEF Linked
  <1> QED
    BY <1>1, <1>2, <1>3


LEMMA SomethingToRead ==
  ASSUME IInvA, Position, rstack # <<>>, Avail >= 1 \/ cur.type # NoType
  PROVE  /\ K < Len(sent) /\ Linked(rstack, objs, root, None)
         /\ \E nodes, rests :
              Reading(nodes, rests, rstack, objs, Left, sent[K + 1], After(sent)[K + 1])
PROOF
  <1>1. Avail >= 1 => Left # <<>>
    BY LeftTyped DEF IInvA
  <1> QED
    BY <1>1 DEF Position, Middle

LEMMA NodeIs ==
  ASSUME IInvA, rstack # <<>>, NEW nodes, NEW rests, NEW left, NEW first, NEW after,
         Reading(nodes, rests, rstack, objs, left, first, after)
  PROVE  /\ nodes[Len(rstack)] \in Replies /\ rests[Len(rstack)] \in Seq(Tokens)
         /\ MaxDepth - Len(rstack) + 1 \notin Fits[nodes[Len(rstack)]] => Refused(first)
         /\ Here(cur, nodes[Len(rstack)], rests[Len(rstack)], left)
         /\ Len(rstack) \in Nat /\ Len(rstack) >= 1 /\ MaxDepth \in Nat \ {0}
         /\ MaxDepth - Len(rstack) + 1 \in 0 .. MaxDepth
         /\ ridx # MaxDepth => MaxDepth - Len(rstack) + 1 \in 1 .. MaxDepth
         /\ ridx = MaxDepth => MaxDepth - Len(rstack) + 1 = 0
PROOF
  <1>1. Len(rstack) \in Nat /\ Len(rstack) >= 1 /\ Len(rstack) \in 1 .. Len(rstack)
        /\ MaxDepth \in Nat \ {0} /\ Len(rstack) <= MaxDepth + 1
    BY NotEmpty, ReaderAssumption DEF IInvA, StackTyped
  <1>2. /\ nodes[Len(rstack)] \in Replies /\ rests[Len(rstack)] \in Seq(Tokens)
        /\ MaxDepth - Len(rstack) + 1 \notin Fits[nodes[Len(rstack)]] => Refused(first)
    BY <1>1 DEF Reading, Path
  <1>3. Here(cur, nodes[Len(rstack)], rests[Len(rstack)], left)
    BY DEF Reading, cur
  <1> QED
    BY <1>1, <1>2, <1>3 DEF ridx

LEMMA ReadTypeReads ==
  ASSUME IInvA, Position, ReadType
  PROVE  Position' /\ Wrong'
PROOF
  <1> DEFINE type == TypeOf(Tok(1).c[1])
             L == Len(rstack)
  <1>1. /\ rstack # <<>> /\ cur.type = NoType /\ Avail >= 1 /\ stream' = stream /\ out' = out
        /\ sent' = sent /\ BytesTyped /\ OutOK
    BY DEF ReadType, user, IInvA, Position
  <1>2. K < Len(sent) /\ Linked(rstack, objs, root, None)
    BY <1>1, SomethingToRead
  <1>3. PICK nodes, rests :
          Reading(nodes, rests, rstack, objs, Left, sent[K + 1], After(sent)[K + 1])
    BY <1>1, SomethingToRead
  <1> DEFINE r == nodes[L]
             x == rests[L]
  <1>4. /\ r \in Replies /\ x \in Seq(Tokens) /\ L \in Nat /\ L >= 1
        /\ MaxDepth - L + 1 \notin Fits[r] => Refused(sent[K + 1])
        /\ Here(cur, r, x, Left)
    BY <1>1, <1>3, NodeIs
  <1>5. Left = Wire[r] \o x
    BY <1>1, <1>4 DEF Here
  <1>6. PICK c \in Chars : /\ Wire[r] = <<TypeByte(c)>> \o RestOf(r) /\ TypeByte(c) \in Tokens
                           /\ TypeOf(c) = Kind(r) /\ TypeByte(c).c[1] = c
    BY <1>4, WireSplit
  <1>7. RestOf(r) \in Seq(Tokens)
    BY <1>4, RestTyped
  <1> DEFINE a == TypeByte(c)
             y == RestOf(r)
             z == RestOf(r) \o x
  <1>8. Left = <<a>> \o z /\ z \in Seq(Tokens) /\ a \in Tokens
    <2>1. y \in Seq(Tokens) /\ a \in Tokens /\ <<a>> \in Seq(Tokens) /\ x \in Seq(Tokens)
      BY <1>4, <1>6, <1>7
    <2>2. Left = (<<a>> \o y) \o x
      BY <1>5, <1>6
    <2>3. z = y \o x
      OBVIOUS
    <2> HIDE DEF a, y, x, z
    <2>4. (<<a>> \o y) \o x = <<a>> \o (y \o x) /\ y \o x \in Seq(Tokens)
      BY <2>1, ConcatAssociative, JoinIs
    <2> QED
      BY <2>1, <2>2, <2>3, <2>4
  <1>9. Tok(1) = a
    <2>1. 1 \in 1 .. Avail
      BY <1>1, LeftTyped
    <2>2. Left[1] = Tok(1)
      BY <1>1, <2>1, LeftTyped
    <2> HIDE DEF a, z
    <2>3. (<<a>> \o z)[1] = a
      BY <1>8, OneIs
    <2> QED
      BY <1>8, <2>2, <2>3
  <1>10. type = Kind(r)
    BY <1>6, <1>9
  <1>11. CASE type = NoType
    <2>1. SetError("protocol")
      BY <1>11 DEF ReadType
    <2>2. r.type = "garbage"
      <3>1. r.type \in ReplyTypes /\ Kind(r) = "none"
        BY <1>4, <1>10, <1>11, ReplyFields DEF NoType
      <3> HIDE DEF r
      <3> QED
        BY <3>1 DEF ReplyTypes, Kind
    <2>3. Refused(sent[K + 1])
      <3>1. Fits[r] = {}
        BY <1>4, <2>2, LeafIs
      <3> QED
        BY <1>4, <3>1
    <2> QED
      BY <1>1, <1>2, <2>1, <2>3, SetErrorReads
  <1>12. CASE type # NoType
    <2>1. /\ rstack' = [rstack EXCEPT ![L].type = type] /\ Consume(1) /\ root' = root
          /\ objs' = objs /\ err' = err
      BY <1>12 DEF ReadType, heap, Consume
    <2>2. type \in Types
      BY <1>12 DEF TypeOf, Types, NoType
    <2> HIDE DEF type
    <2>3. /\ rstack' \in Seq(Tasks) /\ Len(rstack') = L
          /\ \A i \in 1 .. L : rstack'[i].idx = rstack[i].idx /\ rstack'[i].obj = rstack[i].obj
          /\ rstack'[L].type = type
      BY <1>1, <2>1, <2>2, ReadTypeIs
    <2>4. Left' = z
      <3>1. Left = <<Tok(1)>> \o Left' /\ Left' \in Seq(Tokens)
        BY <1>1, <2>1, LeftConsumed
      <3> HIDE DEF z, a
      <3> QED
        BY <1>8, <1>9, <3>1, OneMore
    <2>5. Here(rstack'[L], r, x, Left')
      BY <1>10, <1>12, <2>3, <2>4 DEF Here
    <2>6. Reading(nodes, rests, rstack', objs, Left', sent[K + 1], After(sent)[K + 1])
      <3>1. Path(nodes, rests, rstack) => Path(nodes, rests, rstack')
        BY <1>4, <2>3, SameTasks
      <3>2. \A i \in 1 .. L - 1 :
              Level(i, nodes, rests, rstack, objs) => Level(i, nodes, rests, rstack', objs)
        BY <1>4, <2>3, SameTasks
      <3> QED
        BY <1>3, <2>3, <2>5, <3>1, <3>2 DEF Reading
    <2>7. Linked(rstack', objs, root, None)
      <3>1. (\A i \in 1 .. L - 1 :
               objs[rstack[i].obj].elems[rstack[i + 1].idx + 1] = At(i + 1, rstack, None))
            /\ At(1, rstack, None) = root
        BY <1>2 DEF Linked
      <3> QED
        BY <1>4, <2>3, <3>1, SameTasks
    <2>8. rstack' # <<>> /\ K' = K
      BY <1>1, <1>4, <2>3 DEF K
    <2>9. Middle'
      BY <1>1, <1>2, <2>1, <2>6, <2>7, <2>8 DEF Middle
    <2>10. OutOK' /\ Between' /\ Whole'
      BY <1>1, <2>8 DEF OutOK, Between, Whole, K
    <2>11. Wrong'
      <3>1. err' = "none"
        BY <1>1, <2>1, NotEmpty
      <3> QED
        BY <3>1 DEF Wrong
    <2> QED
      BY <2>9, <2>10, <2>11 DEF Position
  <1> QED
    BY <1>11, <1>12


LEMMA KindOf ==
  ASSUME NEW r \in Replies
  PROVE  /\ Kind(r) \in {"error", "status", "integer"} =>
              r.type = Kind(r) /\ RestOf(r) = <<Line(r.s)>>
         /\ Kind(r) = "string" =>
              \/ r.type = "string" /\ RestOf(r) = <<Number(Size(r.s)), Body(r.s)>>
              \/ r.type = "nil" /\ RestOf(r) = <<Number(-1)>>
         /\ Kind(r) = "array" =>
              \/ r.type = "array"
                 /\ RestOf(r) = <<Number(Len(r.elems))>> \o FlattenSeq(Wires(r.elems))
              \/ r.type = "nilarray" /\ RestOf(r) = <<Number(-1)>>
PROOF
  <1>1. r.type \in ReplyTypes
    BY ReplyFields
  <1> QED
    BY <1>1 DEF ReplyTypes, Kind, RestOf, NoType

\* One token is consumed, which was the first of what was to be read.
LEMMA OneRead ==
  ASSUME BytesTyped, Avail >= 1, NEW a \in Tokens, NEW x \in Seq(Tokens), Left = <<a>> \o x,
         stream' = stream
  PROVE  Tok(1) = a /\ (Consume(1) => Left' = x)
PROOF
  <1>1. Tok(1) = a
    <2>1. 1 \in 1 .. Avail
      BY LeftTyped
    <2>2. Left[1] = Tok(1)
      BY <2>1, LeftTyped
    <2>3. (<<a>> \o x)[1] = a
      BY OneIs
    <2> QED
      BY <2>2, <2>3
  <1>2. ASSUME Consume(1) PROVE Left' = x
    <2>1. Left = <<Tok(1)>> \o Left' /\ Left' \in Seq(Tokens)
      BY <1>2, LeftConsumed
    <2> QED
      BY <1>1, <2>1, OneMore
  <1> QED
    BY <1>1, <1>2

LEMMA LineReads ==
  ASSUME IInvA, IInvA', Position, ProcessLineItem
  PROVE  Position' /\ Wrong'
PROOF
  <1> DEFINE L == Len(rstack)
  <1>1. /\ rstack # <<>> /\ cur.type \in {"error", "status", "integer"} /\ Avail >= 1
        /\ stream' = stream /\ out' = out /\ sent' = sent /\ BytesTyped /\ OutOK
        /\ Finish(cur.type, Tok(1).c, 1, Moved(rstack))
    BY DEF ProcessLineItem, user, IInvA, Position
  <1>2. K < Len(sent) /\ Linked(rstack, objs, root, None)
    BY <1>1, SomethingToRead
  <1>3. PICK nodes, rests :
          Reading(nodes, rests, rstack, objs, Left, sent[K + 1], After(sent)[K + 1])
    BY <1>1, SomethingToRead
  <1> DEFINE r == nodes[L]
             x == rests[L]
  <1>4. /\ r \in Replies /\ x \in Seq(Tokens) /\ Here(cur, r, x, Left)
        /\ MaxDepth - L + 1 \in 0 .. MaxDepth
    BY <1>1, <1>3, NodeIs
  <1>5. /\ cur.type = Kind(r) /\ Left = RestOf(r) \o x
    BY <1>1, <1>4 DEF Here, NoType
  <1>6. r.type = cur.type /\ RestOf(r) = <<Line(r.s)>>
    BY <1>1, <1>4, <1>5, KindOf
  <1>7. Line(r.s) \in Tokens /\ Line(r.s).c = r.s /\ r.s \in Seq(Chars)
    BY <1>4, ReplyFields, TokensTyped DEF Line
  <1>8. Tok(1).c = r.s /\ (Consume(1) => Left' = x)
    <2> DEFINE a == Line(r.s)
    <2>1. a \in Tokens /\ Left = <<a>> \o x /\ a.c = r.s
      BY <1>5, <1>6, <1>7
    <2> HIDE DEF a
    <2> QED
      BY <1>1, <1>4, <2>1, OneRead
  <1>9. Plain[r] = Reply(cur.type, Tok(1).c, <<>>) /\ MaxDepth - L + 1 \in Fits[r]
    BY <1>1, <1>4, <1>6, <1>8, LeafIs
  <1>10. cur.type \in Types /\ Tok(1).c \in Seq(Chars)
    BY <1>1, <1>7, <1>8 DEF Types
  <1> QED
    BY <1>1, <1>2, <1>3, <1>8, <1>9, <1>10, FinishB

LEMMA BulkReads ==
  ASSUME IInvA, IInvA', Position, ProcessBulkItem
  PROVE  Position' /\ Wrong'
PROOF
  <1> DEFINE L == Len(rstack)
  <1>1. /\ rstack # <<>> /\ cur.type = "string" /\ Avail >= 1 /\ Avail \in Nat
        /\ stream' = stream /\ out' = out /\ sent' = sent /\ BytesTyped /\ OutOK
        /\ Tok(1).n < 0 \/ Avail >= 2
    BY LeftTyped DEF ProcessBulkItem, user, IInvA, Position, BulkReady
  <1>2. K < Len(sent) /\ Linked(rstack, objs, root, None)
    BY <1>1, SomethingToRead
  <1>3. PICK nodes, rests :
          Reading(nodes, rests, rstack, objs, Left, sent[K + 1], After(sent)[K + 1])
    BY <1>1, SomethingToRead
  <1> DEFINE r == nodes[L]
             x == rests[L]
  <1>4. /\ r \in Replies /\ x \in Seq(Tokens) /\ Here(cur, r, x, Left)
        /\ MaxDepth - L + 1 \in 0 .. MaxDepth
    BY <1>1, <1>3, NodeIs
  <1>5. /\ Kind(r) = "string" /\ Left = RestOf(r) \o x
    BY <1>1, <1>4 DEF Here, NoType
  <1>6. CASE r.type = "nil" /\ RestOf(r) = <<Number(-1)>>
    <2> DEFINE a == Number(-1)
    <2>1. a \in Tokens /\ Left = <<a>> \o x /\ a.n = -1
      BY <1>5, <1>6, TokensTyped DEF Number
    <2> HIDE DEF a
    <2>2. Tok(1).n = -1 /\ (Consume(1) => Left' = x)
      BY <1>1, <1>4, <2>1, OneRead
    <2>3. Finish("nil", <<>>, 1, Moved(rstack))
      BY <2>2 DEF ProcessBulkItem
    <2>4. Plain[r] = Reply("nil", <<>>, <<>>) /\ MaxDepth - L + 1 \in Fits[r]
      <3>1. r.s = <<>>
        BY <1>4, <1>6, ReplyFields
      <3> QED
        BY <1>4, <1>6, <3>1, LeafIs
    <2>5. "nil" \in Types /\ <<>> \in Seq(Chars)
      BY DEF Types
    <2> QED
      BY <1>1, <1>2, <1>3, <2>2, <2>3, <2>4, <2>5, FinishB
  <1>7. CASE r.type = "string" /\ RestOf(r) = <<Number(Size(r.s)), Body(r.s)>>
    <2> DEFINE a == Number(Size(r.s))
               b == Body(r.s)
    <2>1. /\ a \in Tokens /\ b \in Tokens /\ Left = <<a, b>> \o x /\ a.n \in Nat
          /\ b.c = r.s /\ r.s \in Seq(Chars)
      <3>1. r.s \in Seq(Pieces) /\ r.s \in Seq(Chars)
        BY <1>4, ReplyFields
      <3>2. Size(r.s) \in Nat /\ Body(r.s) \in Tokens
        BY <3>1, TokensTyped
      <3> QED
        BY <1>5, <1>7, <3>1, <3>2, TokensTyped DEF Number, Body
    <2> HIDE DEF a, b
    <2>2. Tok(1) = a
      <3>1. <<a, b>> = <<a>> \o <<b>> /\ <<a>> \in Seq(Tokens) /\ <<b>> \in Seq(Tokens)
        BY <2>1, PairIs
      <3>2. (<<a>> \o <<b>>) \o x = <<a>> \o (<<b>> \o x) /\ <<b>> \o x \in Seq(Tokens)
        BY <1>4, <3>1, ConcatAssociative, JoinIs
      <3>3. Left = <<a>> \o (<<b>> \o x)
        BY <2>1, <3>1, <3>2
      <3> QED
        BY <1>1, <2>1, <3>2, <3>3, OneRead
    <2>3. ~(Tok(1).n < 0) /\ Avail >= 2
      BY <1>1, <2>1, <2>2
    <2>4. Tok(2) = b
      <3>1. 2 \in 1 .. Avail
        BY <1>1, <2>3
      <3>2. Left[2] = Tok(2)
        BY <1>1, <3>1, LeftTyped
      <3>3. (<<a, b>> \o x)[2] = b
        <4>1. <<a, b>> \in Seq(Tokens) /\ Len(<<a, b>>) = 2 /\ <<a, b>>[2] = b
          BY <2>1
        <4>2. 2 \in 1 .. Len(<<a, b>>)
          BY <4>1
        <4> QED
          BY <1>4, <4>1, <4>2, JoinIs
      <3> QED
        BY <2>1, <3>2, <3>3
    <2>5. Consume(2) => Left' = x
      <3> SUFFICES ASSUME Consume(2) PROVE Left' = x
        OBVIOUS
      <3>1. Left = <<Tok(1), Tok(2)>> \o Left' /\ Left' \in Seq(Tokens)
        BY <1>1, <2>3, LeftConsumedTwo
      <3> DEFINE y == Left'
      <3>2. <<a, b>> \o x = <<a, b>> \o y /\ y \in Seq(Tokens) /\ x \in Seq(Tokens)
            /\ a \in Tokens /\ b \in Tokens
        BY <1>4, <2>1, <2>2, <2>4, <3>1
      <3> HIDE DEF x, y
      <3> DEFINE p == <<a, b>>
      <3>4. p \in Seq(Tokens) /\ p \o x = p \o y
        BY <3>2
      <3> HIDE DEF p
      <3>3. x = y
        BY <3>2, <3>4, ConcatSimplifications
      <3> QED
        BY <3>3 DEF y
    <2>6. Finish("string", r.s, 2, Moved(rstack))
      BY <2>1, <2>3, <2>4 DEF ProcessBulkItem
    <2>7. Plain[r] = Reply("string", r.s, <<>>) /\ MaxDepth - L + 1 \in Fits[r]
      BY <1>4, <1>7, LeafIs
    <2>8. "string" \in Types /\ r.s \in Seq(Chars)
      BY <2>1 DEF Types
    <2> QED
      BY <1>1, <1>2, <1>3, <2>5, <2>6, <2>7, <2>8, FinishB
  <1> QED
    BY <1>4, <1>5, <1>6, <1>7, KindOf


\* An array is entered: its first element is to be read.
LEMMA PushReads ==
  ASSUME IInvA, OutOK, rstack # <<>>, Len(rstack) <= MaxDepth,
         NEW nodes, NEW rests, K < Len(sent), Linked(rstack, objs, root, None),
         Reading(nodes, rests, rstack, objs, Left, sent[K + 1], After(sent)[K + 1]),
         NEW r, r = nodes[Len(rstack)], r.type = "array", NEW n \in Nat \ {0}, n = Len(r.elems),
         Create("array", <<>>, n), Pushed(n), sent' = sent, out' = out,
         Left' = FlattenSeq(Wires(r.elems)) \o rests[Len(rstack)]
  PROVE  Position'
PROOF
  <1> DEFINE L == Len(rstack)
             new == Len(objs) + 1
             x == rests[L]
             e == r.elems[1]
             y == After(r.elems)[1] \o x
             nodes2 == [i \in 1 .. L + 1 |-> IF i = L + 1 THEN e ELSE nodes[i]]
             rests2 == [i \in 1 .. L + 1 |-> IF i = L + 1 THEN y ELSE rests[i]]
  <1>1. /\ r \in Replies /\ x \in Seq(Tokens) /\ L \in Nat /\ L >= 1 /\ L \in 1 .. L
        /\ MaxDepth - L + 1 \notin Fits[r] => Refused(nodes[1])
        /\ MaxDepth \in Nat /\ nodes[1] = sent[K + 1] /\ rests[1] = After(sent)[K + 1]
    <2>1. nodes[1] = sent[K + 1] /\ rests[1] = After(sent)[K + 1]
      BY DEF Reading
    <2>2. /\ nodes[L] \in Replies /\ rests[L] \in Seq(Tokens)
          /\ MaxDepth - L + 1 \notin Fits[nodes[L]] => Refused(sent[K + 1])
          /\ L \in Nat /\ L >= 1 /\ MaxDepth \in Nat \ {0}
      BY NodeIs
    <2>3. L \in 1 .. L /\ MaxDepth \in Nat
      BY <2>2
    <2>4. r = nodes[L]
      OBVIOUS
    <2> HIDE DEF L
    <2> QED
      BY <2>1, <2>2, <2>3, <2>4 DEF x
  <1>2. "array" \in Types /\ <<>> \in Seq(Chars) /\ n \in Nat
    BY DEF Types
  <1>3. /\ Extends(objs, objs', Cell("array", <<>>, n)) /\ new <= MaxObjects
        /\ objs'[new] = Cell("array", <<>>, n)
    BY <1>2, CreateExtends DEF Extends
  <1>4. /\ rstack' \in Seq(Tasks) /\ Len(rstack') = L + 1
        /\ \A i \in 1 .. L - 1 : rstack'[i] = rstack[i]
        /\ rstack'[L] = [rstack[L] EXCEPT !.elements = n, !.obj = new]
        /\ rstack'[L + 1] = Task(NoType, 0, None)
    BY <1>2, <1>3, PushIs
  <1>5. /\ rstack'[L].obj = new /\ rstack'[L].idx = rstack[L].idx
        /\ rstack'[L + 1].idx = 0 /\ rstack'[L + 1].type = NoType
    <2>1. rstack[L] \in Tasks
      BY <1>1 DEF IInvA, StackTyped
    <2> DEFINE t == rstack[L]
    <2>2. t \in Tasks /\ rstack'[L] = [t EXCEPT !.elements = n, !.obj = new]
      BY <1>4, <2>1
    <2>3. t.idx = rstack[L].idx
      OBVIOUS
    <2> HIDE DEF t
    <2> QED
      BY <1>4, <2>2, <2>3 DEF Task, Tasks
  <1>6. /\ \A i \in 1 .. L - 1 : Level(i, nodes, rests, rstack, objs')
        /\ Linked(rstack, objs', root', new)
        /\ \A i \in 1 .. L - 1 : \A j \in 1 .. rstack[i + 1].idx :
              new \notin Below(objs', objs'[rstack[i].obj].elems[j])
    <2>1. \A i \in 1 .. L - 1 : Level(i, nodes, rests, rstack, objs)
      BY DEF Reading
    <2> QED
      BY <1>2, <2>1, CreateLevels
  <1>7. /\ e \in Replies /\ y \in Seq(Tokens)
        /\ Left' = Wire[e] \o y
        /\ MaxDepth - L + 1 \in Fits[r] => MaxDepth - (L + 1) + 1 \in Fits[e]
    <2>1. 1 \in 1 .. Len(r.elems) /\ r.elems \in Seq(Replies) /\ 1 - 1 = 0
      BY <1>1, ReplyFields
    <2>2. /\ r.elems[1] \in Replies /\ After(r.elems)[1] \o x \in Seq(Tokens)
          /\ After(r.elems)[1 - 1] \o x = Wire[r.elems[1]] \o (After(r.elems)[1] \o x)
          /\ \A d \in Int : d \in Fits[r] => d - 1 \in Fits[r.elems[1]]
      <3> HIDE DEF x
      <3> QED
        BY <1>1, <2>1, NextElement
    <2>3. After(r.elems)[0] = FlattenSeq(Wires(r.elems))
      BY <2>1, AfterIs
    <2>4. (MaxDepth - L + 1) - 1 = MaxDepth - (L + 1) + 1 /\ MaxDepth - L + 1 \in Int
      BY <1>1
    <2>5. Left' = After(r.elems)[1 - 1] \o x
      BY <2>1, <2>3
    <2>6. MaxDepth - L + 1 \in Fits[r] => MaxDepth - (L + 1) + 1 \in Fits[e]
      BY <2>2, <2>4
    <2> QED
      BY <2>2, <2>5, <2>6
  <1> HIDE DEF e, y
  <1>8. nodes \in [1 .. L -> Replies] /\ rests \in [1 .. L -> Seq(Tokens)]
        /\ \A i \in 1 .. L : MaxDepth - i + 1 \notin Fits[nodes[i]] => Refused(nodes[1])
    BY DEF Reading, Path
  <1>9. /\ nodes2[L + 1] = e /\ rests2[L + 1] = y
        /\ \A i \in 1 .. L : nodes2[i] = nodes[i] /\ rests2[i] = rests[i]
        /\ nodes2 \in [1 .. L + 1 -> Replies] /\ rests2 \in [1 .. L + 1 -> Seq(Tokens)]
    <2>1. L + 1 \in 1 .. L + 1 /\ \A i \in 1 .. L : i # L + 1 /\ i \in 1 .. L + 1
      BY <1>1
    <2>2. \A i \in 1 .. L + 1 : i # L + 1 => i \in 1 .. L
      BY <1>1
    <2>3. \A i \in 1 .. L + 1 : nodes2[i] \in Replies
      BY <1>7, <1>8, <2>2
    <2>4. \A i \in 1 .. L + 1 : rests2[i] \in Seq(Tokens)
      BY <1>7, <1>8, <2>2
    <2>5. nodes2[L + 1] = e /\ rests2[L + 1] = y
      BY <2>1
    <2>6. \A i \in 1 .. L : nodes2[i] = nodes[i] /\ rests2[i] = rests[i]
      BY <2>1
    <2> QED
      BY <2>3, <2>4, <2>5, <2>6
  <1> HIDE DEF nodes2, rests2
  <1>10. nodes2[1] = nodes[1] /\ rests2[1] = rests[1] /\ nodes2[L] = r /\ rests2[L] = x
    BY <1>1, <1>9
  <1>11. Path(nodes2, rests2, rstack')
    <2>1. ASSUME NEW i \in 1 .. L + 1, MaxDepth - i + 1 \notin Fits[nodes2[i]]
          PROVE  Refused(nodes2[1])
      <3>1. CASE i = L + 1
        <4>1. MaxDepth - L + 1 \notin Fits[r]
          BY <1>7, <1>9, <2>1, <3>1
        <4> QED
          BY <1>1, <1>10, <4>1
      <3>2. CASE i # L + 1
        <4>1. i \in 1 .. L
          BY <1>1, <3>2
        <4> QED
          BY <1>8, <1>9, <1>10, <2>1, <4>1
      <3> QED
        BY <3>1, <3>2
    <2> QED
      BY <1>4, <1>9, <2>1 DEF Path
  <1>12. \A i \in 1 .. L - 1 : rstack'[i].obj = rstack[i].obj /\ rstack'[i + 1].idx = rstack[i + 1].idx
    <2> SUFFICES ASSUME NEW i \in 1 .. L - 1
                 PROVE  rstack'[i].obj = rstack[i].obj /\ rstack'[i + 1].idx = rstack[i + 1].idx
      OBVIOUS
    <2>1. i + 1 = L \/ i + 1 \in 1 .. L - 1
      BY <1>1
    <2> QED
      BY <1>4, <1>5, <2>1
  <1>13. ASSUME NEW i \in 1 .. L - 1 PROVE Level(i, nodes2, rests2, rstack', objs')
    <2>1. Level(i, nodes, rests, rstack, objs')
      BY <1>6
    <2>2. /\ rstack'[i].obj = rstack[i].obj /\ rstack'[i + 1].idx = rstack[i + 1].idx
          /\ i \in 1 .. L /\ i + 1 \in 1 .. L
      BY <1>1, <1>12
    <2>3. /\ nodes2[i] = nodes[i] /\ rests2[i] = rests[i] /\ nodes2[i + 1] = nodes[i + 1]
          /\ rests2[i + 1] = rests[i + 1]
      BY <1>9, <2>2
    <2>4. \A j \in 1 .. rstack[i + 1].idx : \A z \in 1 .. L :
            rstack'[z].obj \notin Below(objs', objs'[rstack[i].obj].elems[j])
      <3> SUFFICES ASSUME NEW j \in 1 .. rstack[i + 1].idx, NEW z \in 1 .. L
                   PROVE  rstack'[z].obj \notin Below(objs', objs'[rstack[i].obj].elems[j])
        OBVIOUS
      <3>1. CASE z = L
        BY <1>5, <1>6, <3>1
      <3>2. CASE z # L
        <4>1. z \in 1 .. L - 1
          BY <1>1, <3>2
        <4>2. rstack[z].obj \notin Below(objs', objs'[rstack[i].obj].elems[j])
          BY <2>1, <4>1 DEF Level
        <4> QED
          BY <1>12, <4>1, <4>2
      <3> QED
        BY <3>1, <3>2
    <2>5. Len(rstack') - 1 = L
      BY <1>1, <1>4
    <2> QED
      BY <2>1, <2>2, <2>3, <2>4, <2>5 DEF Level
  <1>14. Level(L, nodes2, rests2, rstack', objs')
    <2>1. /\ objs'[new].type = "array" /\ objs'[new].s = <<>> /\ Len(objs'[new].elems) = n
      BY <1>3 DEF Cell
    <2>2. nodes2[L + 1] = r.elems[0 + 1] /\ rests2[L + 1] = After(r.elems)[0 + 1] \o rests2[L]
      BY <1>9, <1>10 DEF e, y
    <2> QED
      BY <1>5, <1>10, <2>1, <2>2 DEF Level
  <1>15. \A i \in 1 .. L : Level(i, nodes2, rests2, rstack', objs')
    <2>1. \A i \in 1 .. L : i = L \/ i \in 1 .. L - 1
      BY <1>1
    <2> QED
      BY <1>13, <1>14, <2>1
  <1>16. Linked(rstack', objs', root', None)
    <2>1. \A i \in 1 .. L : At(i, rstack', None) = At(i, rstack, new)
      <3> SUFFICES ASSUME NEW i \in 1 .. L PROVE At(i, rstack', None) = At(i, rstack, new)
        OBVIOUS
      <3>1. i # L + 1 /\ (i = L \/ i \in 1 .. L - 1)
        BY <1>1
      <3>2. At(i, rstack', None) = rstack'[i].obj
        BY <1>4, <3>1 DEF At
      <3>3. CASE i = L
        BY <1>5, <3>2, <3>3 DEF At
      <3>4. CASE i # L
        BY <1>12, <3>1, <3>2, <3>4 DEF At
      <3> QED
        BY <3>3, <3>4
    <2>2. At(1, rstack', None) = root'
      BY <1>1, <1>6, <2>1 DEF Linked
    <2>3. ASSUME NEW i \in 1 .. L
          PROVE  objs'[rstack'[i].obj].elems[rstack'[i + 1].idx + 1] = At(i + 1, rstack', None)
      <3>1. CASE i = L
        <4>1. At(L + 1, rstack', None) = None
          BY <1>4 DEF At
        <4>2. objs'[new].elems[0 + 1] = None
          BY <1>3 DEF Cell
        <4> QED
          BY <1>5, <3>1, <4>1, <4>2
      <3>2. CASE i # L
        <4>1. i \in 1 .. L - 1 /\ i + 1 \in 1 .. L
          BY <1>1, <3>2
        <4>2. objs'[rstack[i].obj].elems[rstack[i + 1].idx + 1] = At(i + 1, rstack, new)
          BY <1>6, <4>1 DEF Linked
        <4> QED
          BY <1>12, <2>1, <4>1, <4>2
      <3> QED
        BY <3>1, <3>2
    <2>4. Len(rstack') - 1 = L
      BY <1>1, <1>4
    <2> QED
      BY <2>2, <2>3, <2>4 DEF Linked
  <1>17. Reading(nodes2, rests2, rstack', objs', Left', sent[K + 1], After(sent)[K + 1])
    <2>1. Here(rstack'[L + 1], nodes2[L + 1], rests2[L + 1], Left')
      BY <1>5, <1>7, <1>9 DEF Here
    <2>2. Len(rstack') - 1 = L
      BY <1>1, <1>4
    <2> QED
      BY <1>1, <1>4, <1>10, <1>11, <1>15, <2>1, <2>2 DEF Reading
  <1>18. K' = K /\ OutOK' /\ rstack' # <<>>
    <2>1. rstack' # <<>>
      BY <1>1, <1>4
    <2> QED
      BY <2>1 DEF K, OutOK
  <1>19. Middle'
    BY <1>16, <1>17, <1>18 DEF Middle
  <1> QED
    BY <1>18, <1>19 DEF Position, Between, Whole


LEMMA MultiBulkReads ==
  ASSUME IInvA, IInvA', Position, ProcessMultiBulkItem
  PROVE  Position' /\ Wrong'
PROOF
  <1> DEFINE L == Len(rstack)
  <1>1. /\ rstack # <<>> /\ cur.type = "array" /\ stream' = stream /\ out' = out /\ sent' = sent
        /\ BytesTyped /\ OutOK
    BY DEF ProcessMultiBulkItem, user, IInvA, Position
  <1>2. K < Len(sent) /\ Linked(rstack, objs, root, None)
    BY <1>1, SomethingToRead DEF NoType
  <1>3. PICK nodes, rests :
          Reading(nodes, rests, rstack, objs, Left, sent[K + 1], After(sent)[K + 1])
    BY <1>1, SomethingToRead DEF NoType
  <1> DEFINE r == nodes[L]
             x == rests[L]
  <1>4. /\ r \in Replies /\ x \in Seq(Tokens) /\ Here(cur, r, x, Left)
        /\ MaxDepth - L + 1 \notin Fits[r] => Refused(sent[K + 1])
        /\ L \in Nat /\ L >= 1 /\ MaxDepth \in Nat
        /\ ridx # MaxDepth => MaxDepth - L + 1 \in 1 .. MaxDepth
        /\ ridx = MaxDepth => MaxDepth - L + 1 = 0
    BY <1>1, <1>3, NodeIs
  <1>5. /\ Kind(r) = "array" /\ Left = RestOf(r) \o x
    BY <1>1, <1>4 DEF Here, NoType
  <1>6. r.type \in {"array", "nilarray"}
    BY <1>4, <1>5, KindOf
  <1>7. CASE TooDeep
    <2>1. SetError("protocol") /\ MaxDepth - L + 1 = 0
      BY <1>4, <1>7 DEF ProcessMultiBulkItem, TooDeep
    <2>2. MaxDepth - L + 1 \notin Fits[r]
      BY <1>4, <1>6, <2>1, LeafIs
    <2> QED
      BY <1>1, <1>2, <1>4, <2>1, <2>2, SetErrorReads
  <1>8. CASE ~TooDeep
    <2> DEFINE n == Tok(1).n
    <2>1. /\ Avail >= 1 /\ ridx # MaxDepth /\ MaxDepth - L + 1 \in 1 .. MaxDepth
      BY <1>4, <1>8 DEF ProcessMultiBulkItem, TooDeep
    <2>2. CASE r.type = "nilarray" /\ RestOf(r) = <<Number(-1)>>
      <3> DEFINE a == Number(-1)
      <3>1. a \in Tokens /\ Left = <<a>> \o x /\ a.n = -1
        BY <1>5, <2>2, TokensTyped DEF Number
      <3> HIDE DEF a
      <3>2. n = -1 /\ (Consume(1) => Left' = x)
        BY <1>1, <1>4, <2>1, <3>1, OneRead
      <3>3. Finish("nil", <<>>, 1, Moved(rstack))
        BY <1>8, <3>2 DEF ProcessMultiBulkItem
      <3>4. Plain[r] = Reply("nil", <<>>, <<>>) /\ MaxDepth - L + 1 \in Fits[r]
        <4>1. r.elems = <<>>
          BY <1>4, <2>2, ReplyFields
        <4> QED
          BY <1>4, <2>1, <2>2, <4>1, LeafIs
      <3>5. "nil" \in Types /\ <<>> \in Seq(Chars)
        BY DEF Types
      <3> QED
        BY <1>1, <1>2, <1>3, <3>2, <3>3, <3>4, <3>5, FinishB
    <2>3. CASE r.type = "array"
               /\ RestOf(r) = <<Number(Len(r.elems))>> \o FlattenSeq(Wires(r.elems))
      <3> DEFINE a == Number(Len(r.elems))
                 z == FlattenSeq(Wires(r.elems))
                 y == z \o x
      <3>1. /\ r.elems \in Seq(Replies) /\ Len(r.elems) \in Nat
            /\ Wires(r.elems) \in Seq(Seq(Tokens))
        BY <1>4, ReplyFields, WiresTyped
      <3>2. z \in Seq(Tokens) /\ a \in Tokens /\ a.n = Len(r.elems)
        BY <3>1, JoinTyped, TokensTyped DEF Number
      <3>3. Left = (<<a>> \o z) \o x
        BY <1>5, <2>3
      <3> HIDE DEF a, z
      <3>4. Left = <<a>> \o y /\ y \in Seq(Tokens)
        <4>1. <<a>> \in Seq(Tokens) /\ x \in Seq(Tokens)
          BY <1>4, <3>2
        <4> HIDE DEF x
        <4>2. (<<a>> \o z) \o x = <<a>> \o (z \o x) /\ z \o x \in Seq(Tokens)
          BY <3>2, <4>1, ConcatAssociative, JoinIs
        <4> QED
          BY <3>3, <4>2
      <3> HIDE DEF y
      <3>5. n = Len(r.elems) /\ (Consume(1) => Left' = y)
        BY <1>1, <2>1, <3>2, <3>4, OneRead
      <3>6. n # -1
        BY <3>1, <3>5
      <3>7. CASE n = 0
        <4>1. Finish("array", <<>>, 1, Moved(rstack))
          BY <1>8, <3>6, <3>7 DEF ProcessMultiBulkItem
        <4>2. r.elems = <<>>
          BY <3>1, <3>5, <3>7
        <4>3. y = x
          <5>1. Wires(r.elems) = <<>>
            BY <4>2 DEF Wires
          <5>2. z = <<>>
            BY <5>1, FlattenNothing DEF z
          <5>3. x \in Seq(Tokens)
            BY <1>4
          <5> HIDE DEF x
          <5>4. <<>> \o x = x
            BY <5>3, ConcatEmptySeq
          <5> QED
            BY <5>2, <5>4 DEF y
        <4>4. Plain[r] = Reply("array", <<>>, <<>>) /\ MaxDepth - L + 1 \in Fits[r]
          BY <1>4, <2>1, <2>3, <4>2, LeafIs
        <4>5. "array" \in Types /\ <<>> \in Seq(Chars)
          BY DEF Types
        <4>6. Consume(1) => Left' = x
          BY <3>5, <4>3
        <4> QED
          BY <1>1, <1>2, <1>3, <4>1, <4>4, <4>5, <4>6, FinishB
      <3>8. CASE n # 0
        <4>1. \/ Create("array", <<>>, n) /\ Consume(1) /\ Pushed(n)
              \/ SetError("oom")
          BY <1>8, <3>6, <3>8 DEF ProcessMultiBulkItem, Pushed
        <4>2. CASE Create("array", <<>>, n) /\ Consume(1) /\ Pushed(n)
          <5>1. Left' = FlattenSeq(Wires(r.elems)) \o rests[L]
            BY <3>5, <4>2 DEF y, z
          <5>2. L <= MaxDepth
            BY <1>4, <2>1
          <5>3. n \in Nat \ {0} /\ n = Len(r.elems)
            BY <3>1, <3>5, <3>8
          <5>4. Position'
            <6> DEFINE q == nodes[L]
            <6>1. q = nodes[Len(rstack)] /\ q.type = "array" /\ n = Len(q.elems)
                  /\ Left' = FlattenSeq(Wires(q.elems)) \o rests[Len(rstack)]
              BY <2>3, <5>1, <5>3
            <6> HIDE DEF q, n, r, x, y, z, a
            <6> QED
              BY <1>1, <1>2, <1>3, <4>2, <5>2, <5>3, <6>1, PushReads
          <5>5. err' = "none"
            BY <1>1, <4>2, NotEmpty DEF Consume
          <5> QED
            BY <5>4, <5>5 DEF Wrong
        <4>3. CASE SetError("oom")
          BY <1>1, <4>3, SetErrorReads
        <4> QED
          BY <4>1, <4>2, <4>3
      <3> QED
        BY <3>7, <3>8
    <2> QED
      BY <1>4, <1>5, <2>2, <2>3, KindOf
  <1> QED
    BY <1>7, <1>8


\* The reader has to be fed before it gets any further.
Stuck == rstack # <<>> /\ (Avail = 0 \/ (cur.type = "string" /\ ~BulkReady))

\* A user who was told that there is no reply is told so until he feeds more.
Waiting ==
  /\ err = "none" /\ pc = "emit" /\ rstack # <<>> => Stuck
  /\ err = "none" /\ pc = "idle" /\ asked => buf = <<>> \/ Stuck
  /\ pc \in {"parse", "emit"} => ~asked
  /\ pc = "freed" /\ asked /\ stream = <<>> /\ err = "none" => K = Len(sent)

IInvB == Position /\ Wrong /\ Waiting

LEMMA PositionStays ==
  ASSUME Position, Wrong, rstack' = rstack, objs' = objs, root' = root, Left' = Left,
         out' = out, sent' = sent, err' = err, pc # "freed"
  PROVE  Position' /\ Wrong'
PROOF
  <1>1. K' = K /\ OutOK' /\ Wrong'
    BY DEF Position, OutOK, K, Wrong
  <1>2. Middle'
    BY <1>1 DEF Position, Middle, cur
  <1>3. Between' /\ Whole'
    BY <1>1 DEF Position, Between, Whole
  <1> QED
    BY <1>1, <1>2, <1>3 DEF Position

\* Nothing has been read of a reply that is left to read.
LEMMA SomethingIsLeftOf ==
  ASSUME OutOK, K < Len(sent)
  PROVE  /\ sent[K + 1] \in Replies /\ K \in Nat /\ K + 1 \in 1 .. Len(sent)
         /\ After(sent)[K + 1] \in Seq(Tokens)
         /\ After(sent)[K] = Wire[sent[K + 1]] \o After(sent)[K + 1]
         /\ After(sent)[K] # <<>>
PROOF
  <1>1. K \in Nat /\ K + 1 \in 1 .. Len(sent) /\ sent \in Seq(Replies) /\ K + 1 \in 0 .. Len(sent)
        /\ (K + 1) - 1 = K
    BY DEF OutOK, K
  <1>2. sent[K + 1] \in Replies
    BY <1>1
  <1> DEFINE a == Wire[sent[K + 1]]
             b == After(sent)[K + 1]
  <1>3. a \in Seq(Tokens) /\ Len(a) >= 1
    BY <1>2, WireTyped
  <1>4. b \in Seq(Tokens) /\ After(sent)[(K + 1) - 1] = a \o b
    BY <1>1, AfterIs
  <1>5. After(sent)[K] = a \o b
    BY <1>1, <1>4
  <1>6. a \o b # <<>>
    <2> HIDE DEF a, b
    <2>1. Len(a \o b) = Len(a) + Len(b) /\ Len(a) \in Nat /\ Len(b) \in Nat
      BY <1>3, <1>4, JoinIs
    <2> QED
      BY <1>3, <2>1
  <1> QED
    BY <1>1, <1>2, <1>4, <1>5, <1>6

\* When the user has fed all and been told that there is no reply, he has all.
LEMMA AllRead ==
  ASSUME IInvA, IInvB, pc = "idle", asked, stream = <<>>, err = "none"
  PROVE  K = Len(sent)
PROOF
  <1>1. /\ BytesTyped /\ OutOK /\ (buf = <<>> \/ Stuck) /\ Middle /\ Between
    BY DEF IInvA, IInvB, Position, Waiting
  <1>2. K \in Nat /\ Len(sent) \in Nat /\ K <= Len(sent)
    BY <1>1 DEF OutOK, K
  <1>3. Len(Left) = Avail /\ Left \in Seq(Tokens) /\ Avail \in Nat
    BY <1>1, LeftTyped
  <1>4. CASE rstack = <<>>
    <2>1. root = None
      BY <1>4 DEF IInvA, Control
    <2>2. Left = After(sent)[K]
      BY <1>1, <1>4, <2>1 DEF Between
    <2>3. Left = <<>>
      <3>1. buf = <<>>
        BY <1>1, <1>4 DEF Stuck
      <3>2. pos = 0 /\ Avail = 0
        BY <1>1, <3>1 DEF BytesTyped, Avail
      <3> QED
        BY <1>3, <3>2
    <2> QED
      BY <1>1, <1>2, <2>2, <2>3, SomethingIsLeftOf
  <1>5. CASE rstack # <<>>
    <2> SUFFICES ASSUME K < Len(sent) PROVE FALSE
      BY <1>2
    <2>1. PICK nodes, rests :
            Reading(nodes, rests, rstack, objs, Left, sent[K + 1], After(sent)[K + 1])
      BY <1>1, <1>2, <1>5 DEF Middle
    <2> DEFINE r == nodes[Len(rstack)]
               x == rests[Len(rstack)]
    <2>2. r \in Replies /\ x \in Seq(Tokens) /\ Here(cur, r, x, Left)
      BY <1>5, <2>1, NodeIs
    <2> HIDE DEF r, x
    <2>3. CASE cur.type = NoType
      <3>1. Left = Wire[r] \o x /\ Wire[r] \in Seq(Tokens) /\ Len(Wire[r]) >= 1
        BY <2>2, <2>3, WireTyped DEF Here
      <3>2. Len(Left) = Len(Wire[r]) + Len(x) /\ Len(x) \in Nat /\ Len(Wire[r]) \in Nat
        BY <2>2, <3>1, JoinIs
      <3>3. Avail = 0
        <4>1. buf = <<>> => Avail = 0
          BY <1>1 DEF BytesTyped, Avail
        <4> QED
          BY <1>1, <2>3, <4>1 DEF Stuck, NoType
      <3> QED
        BY <1>3, <3>1, <3>2, <3>3
    <2>4. CASE cur.type # NoType
      <3>1. Left = RestOf(r) \o x /\ Kind(r) = cur.type
        BY <2>2, <2>4 DEF Here
      <3>2. RestOf(r) \in Seq(Tokens) /\ Len(RestOf(r)) >= 1
        BY <2>2, <2>4, <3>1, RestTyped
      <3>3. Len(Left) = Len(RestOf(r)) + Len(x) /\ Len(x) \in Nat /\ Len(RestOf(r)) \in Nat
            /\ \A i \in 1 .. Len(RestOf(r)) : Left[i] = RestOf(r)[i]
        BY <2>2, <3>1, <3>2, JoinIs
      <3>4. Avail >= 1
        BY <1>3, <3>2, <3>3
      <3>5. cur.type = "string" /\ Tok(1).n >= 0 /\ Avail < 2
        <4>1. buf # <<>>
          BY <1>1, <3>4 DEF BytesTyped, Avail
        <4>2. cur.type = "string" /\ ~BulkReady
          BY <1>1, <1>3, <3>4, <4>1 DEF Stuck
        <4>3. Tok(1).n \in Int
          BY <1>3, <3>4, TokenTyped
        <4> QED
          BY <1>3, <3>4, <4>2, <4>3 DEF BulkReady
      <3>6. Left[1] = Tok(1)
        BY <1>1, <1>3, <3>4, LeftTyped
      <3>7. Tok(1) = RestOf(r)[1]
        BY <3>2, <3>3, <3>6
      <3>8. CASE r.type = "nil" /\ RestOf(r) = <<Number(-1)>>
        <4>1. Tok(1).n = -1
          BY <3>7, <3>8 DEF Number
        <4> QED
          BY <3>5, <4>1
      <3>9. CASE r.type = "string" /\ RestOf(r) = <<Number(Size(r.s)), Body(r.s)>>
        <4>1. Len(RestOf(r)) = 2
          BY <3>9
        <4> QED
          BY <1>3, <3>3, <3>5, <4>1
      <3> QED
        BY <2>2, <3>1, <3>5, <3>8, <3>9, KindOf
    <2> QED
      BY <2>3, <2>4
  <1> QED
    BY <1>4, <1>5

LEMMA ParseEndsReads ==
  ASSUME IInvA, IInvB, ParseEnds
  PROVE  IInvB'
PROOF
  <1>1. /\ pc = "parse" /\ pc' = "emit" /\ rstack' = rstack /\ objs' = objs /\ root' = root
        /\ Left' = Left /\ out' = out /\ sent' = sent /\ err' = err
    BY DEF ParseEnds, reader, heap, user, Left
  <1>2. Position' /\ Wrong'
    BY <1>1, PositionStays DEF IInvB
  <1>3. rstack # <<>> => Stuck'
    BY DEF ParseEnds, Stuck, reader, cur, Avail, BulkReady, Tok
  <1>4. ~asked
    BY <1>1 DEF IInvB, Waiting
  <1>5. ~asked'
    BY <1>4, Zenon DEF ParseEnds
  <1> QED
    BY <1>1, <1>2, <1>3, <1>5 DEF IInvB, Waiting

LEMMA FeedReads ==
  ASSUME IInvA, IInvB, Feed
  PROVE  IInvB'
PROOF
  <1>1. pc = "idle" /\ pc' = pc /\ out' = out /\ sent' = sent /\ BytesTyped /\ OutOK
    BY DEF Feed, IInvA, IInvB, Position
  <1>2. ~asked'
    BY Zenon DEF Feed
  <1>3. Position' /\ Wrong'
    <2>1. CASE \E k \in 1 .. Len(stream) :
                 /\ buf' = buf \o SubSeq(stream, 1, k) /\ pos' = pos
                 /\ stream' = SubSeq(stream, k + 1, Len(stream))
                 /\ err' = err /\ rstack' = rstack /\ root' = root /\ objs' = objs
      <3>1. Left' = Left
        BY <1>1, <2>1, LeftFed
      <3> QED
        BY <1>1, <2>1, <3>1, PositionStays DEF IInvB
    <2>2. CASE SetError("oom")
      BY <1>1, <2>2, SetErrorReads
    <2> QED
      BY <2>1, <2>2 DEF Feed, heap
  <1> QED
    BY <1>1, <1>2, <1>3 DEF IInvB, Waiting

LEMMA GetReplyReads ==
  ASSUME IInvA, IInvB, GetReply
  PROVE  IInvB'
PROOF
  <1>1. /\ pc = "idle" /\ err = "none" /\ out' = out /\ sent' = sent /\ OutOK /\ objs' = objs
        /\ root' = root /\ Left' = Left /\ err' = err /\ K' = K /\ BytesTyped
    BY DEF GetReply, IInvA, IInvB, Position, heap, user, Left, K
  <1>2. CASE buf = <<>>
    <2>1. rstack' = rstack /\ pc' = pc /\ buf' = buf
      BY <1>2 DEF GetReply
    <2>2. Position' /\ Wrong'
      BY <1>1, <2>1, PositionStays DEF IInvB
    <2> QED
      BY <1>1, <1>2, <2>1, <2>2 DEF IInvB, Waiting
  <1>3. CASE buf # <<>>
    <2>1. pc' = "parse" /\ rstack' = IF rstack = <<>> THEN <<Task(NoType, -1, None)>> ELSE rstack
      BY <1>3 DEF GetReply
    <2>2. ~asked'
      BY <1>3, Zenon DEF GetReply
    <2>3. Waiting'
      BY <2>1, <2>2 DEF Waiting
    <2>4. CASE rstack # <<>>
      <3>1. Position' /\ Wrong'
        BY <1>1, <2>1, <2>4, PositionStays DEF IInvB
      <3> QED
        BY <2>3, <3>1 DEF IInvB
    <2>5. CASE rstack = <<>>
      <3> DEFINE st == <<Task(NoType, -1, None)>>
      <3>1. /\ rstack' = st /\ Len(st) = 1 /\ st[1].type = NoType /\ st # <<>>
        BY <2>1, <2>5 DEF Task
      <3>2. root = None
        BY <1>1, <2>5 DEF IInvA, Control
      <3>3. Left = After(sent)[K] /\ K \in Nat /\ Len(sent) \in Nat /\ K <= Len(sent)
        BY <1>1, <2>5, <3>2 DEF IInvB, Position, Between, OutOK, K
      <3> HIDE DEF st
      <3>4. Linked(st, objs, root, None)
        BY <3>1, <3>2 DEF Linked, At
      <3>5. CASE K < Len(sent)
        <4> DEFINE nodes == [i \in 1 .. 1 |-> sent[K + 1]]
                   rests == [i \in 1 .. 1 |-> After(sent)[K + 1]]
        <4>1. /\ sent[K + 1] \in Replies /\ After(sent)[K + 1] \in Seq(Tokens)
              /\ Left = Wire[sent[K + 1]] \o After(sent)[K + 1]
          BY <1>1, <3>3, <3>5, SomethingIsLeftOf
        <4>2. /\ nodes \in [1 .. 1 -> Replies] /\ rests \in [1 .. 1 -> Seq(Tokens)]
              /\ nodes[1] = sent[K + 1] /\ rests[1] = After(sent)[K + 1]
          BY <4>1
        <4> HIDE DEF nodes, rests
        <4>3. MaxDepth - 1 + 1 = MaxDepth
          BY ReaderAssumption
        <4>4. Path(nodes, rests, st)
          BY <3>1, <4>2, <4>3 DEF Path, Refused
        <4>5. Here(st[1], nodes[1], rests[1], Left)
          BY <3>1, <4>1, <4>2 DEF Here
        <4>6. Reading(nodes, rests, st, objs, Left, sent[K + 1], After(sent)[K + 1])
          BY <3>1, <4>2, <4>4, <4>5 DEF Reading
        <4> QED
          BY <1>1, <2>3, <3>1, <3>4, <3>5, <4>6
             DEF IInvB, Position, OutOK, Middle, Between, Whole, Wrong
      <3>6. CASE K = Len(sent)
        <4>1. Left = <<>>
          BY <1>1, <3>3, <3>6, AfterIs DEF OutOK
        <4> QED
          BY <1>1, <2>3, <3>1, <3>4, <3>6, <4>1
             DEF IInvB, Position, OutOK, Middle, Between, Whole, Wrong, cur
      <3> QED
        BY <3>3, <3>5, <3>6
    <2> QED
      BY <2>4, <2>5
  <1> QED
    BY <1>2, <1>3


LEMMA EmitReads ==
  ASSUME IInvA, IInvB, Emit
  PROVE  IInvB'
PROOF
  <1>1. /\ pc = "emit" /\ pc' = "idle" /\ err' = err /\ rstack' = rstack /\ objs' = objs
        /\ stream' = stream /\ sent' = sent /\ BytesTyped /\ OutOK
    BY DEF Emit, IInvA, IInvB, Position
  <1>2. Left' = Left /\ Avail' = Avail /\ (Avail >= 1 => Tok(1)' = Tok(1))
    <2>1. CASE buf' = Cut(buf, pos) /\ pos' = 0
      <3>1. Left' = Left /\ Avail' = Avail /\ \A i \in 1 .. Avail : Tok(i)' = Tok(i)
        BY <1>1, <2>1, LeftCut
      <3>2. Avail >= 1 => 1 \in 1 .. Avail
        BY <1>1, LeftTyped
      <3> QED
        BY <3>1, <3>2
    <2>2. CASE buf' = buf /\ pos' = pos
      BY <1>1, <2>2 DEF Left, Avail, Tok
    <2> QED
      BY <2>1, <2>2 DEF Emit, Cut
  <1>3. CASE err = "none" /\ rstack = <<>>
    <2>1. /\ out' = Append(out, Value(objs, root)) /\ root' = None
      BY <1>3 DEF Emit
    <2>2. ~asked'
      <3>1. ~asked
        BY <1>1 DEF IInvB, Waiting
      <3> QED
        BY <1>3, <3>1, Zenon DEF Emit
    <2>3. /\ K < Len(sent) /\ Built(objs, root, sent[K + 1], MaxDepth)
          /\ Left = After(sent)[K + 1]
      <3>1. root # None
        BY <1>1, <1>3 DEF IInvA, Control
      <3> QED
        BY <1>3, <3>1 DEF IInvB, Position, Whole
    <2>4. /\ sent[K + 1] \in Replies /\ K \in Nat /\ K + 1 \in 1 .. Len(sent) /\ out \in Seq(Outs)
          /\ sent \in Seq(Replies)
      BY <1>1, <2>3, SomethingIsLeftOf DEF OutOK
    <2>5. Value(objs, root) = Plain[sent[K + 1]] /\ MaxDepth \in Fits[sent[K + 1]]
      BY <2>3 DEF Built
    <2> DEFINE v == Value(objs, root)
    <2>6. v \in Outs
      BY <2>4, <2>5 DEF Outs
    <2>7. v = Plain[sent[K + 1]] /\ out' = Append(out, v)
      BY <2>1, <2>5
    <2> HIDE DEF v
    <2>8. /\ out' \in Seq(Outs) /\ Len(out') = K + 1 /\ out'[K + 1] = v
          /\ \A i \in 1 .. K : out'[i] = out[i]
      BY <2>4, <2>6, <2>7 DEF K
    <2>9. K' = K + 1
      BY <2>8 DEF K
    <2>10. OutOK'
      <3>1. ASSUME NEW i \in 1 .. K + 1 PROVE out'[i] = Plain[sent[i]] /\ MaxDepth \in Fits[sent[i]]
        <4>1. CASE i = K + 1
          BY <2>5, <2>7, <2>8, <4>1
        <4>2. CASE i # K + 1
          <5>1. i \in 1 .. K
            BY <2>4, <4>2
          <5> QED
            BY <1>1, <2>8, <5>1 DEF OutOK
        <4> QED
          BY <4>1, <4>2
      <3>2. K + 1 <= Len(sent)
        BY <2>4
      <3> QED
        BY <1>1, <2>4, <2>8, <2>9, <3>1, <3>2 DEF OutOK
    <2>11. Middle' /\ Between' /\ Whole' /\ Wrong'
      BY <1>1, <1>2, <1>3, <2>1, <2>3, <2>9 DEF Middle, Between, Whole, Wrong
    <2> QED
      BY <1>1, <2>2, <2>10, <2>11 DEF IInvB, Position, Waiting
  <1>4. CASE ~(err = "none" /\ rstack = <<>>)
    <2>1. out' = out /\ root' = root
      BY <1>4 DEF Emit
    <2>2. Position' /\ Wrong'
      BY <1>1, <1>2, <2>1, PositionStays DEF IInvB
    <2>3. ASSUME err = "none" PROVE Stuck'
      <3>1. Stuck
        BY <1>1, <1>4, <2>3 DEF IInvB, Waiting
      <3>2. cur' = cur
        BY <1>1 DEF cur
      <3>3. Avail \in Nat
        BY <1>1, LeftTyped
      <3> QED
        BY <1>1, <1>2, <3>1, <3>2, <3>3 DEF Stuck, BulkReady
    <2> QED
      BY <1>1, <2>2, <2>3 DEF IInvB, Waiting
  <1> QED
    BY <1>3, <1>4

LEMMA FreeReplyObjectReads ==
  ASSUME IInvA, IInvB, FreeReplyObject
  PROVE  IInvB'
PROOF
  <1>1. /\ pc' = pc /\ err' = err /\ rstack' = rstack /\ objs' = objs /\ root' = root
        /\ buf' = buf /\ pos' = pos /\ stream' = stream /\ sent' = sent /\ out' = out
    BY DEF FreeReplyObject, reader, user
  <1>2. asked' = asked
    BY Zenon DEF FreeReplyObject
  <1>3. /\ K' = K /\ Left' = Left /\ cur' = cur /\ Avail' = Avail /\ Tok(1)' = Tok(1)
    BY <1>1 DEF K, Left, cur, Avail, Tok
  <1>4. Position' /\ Wrong'
    BY <1>1, <1>3 DEF IInvB, Position, OutOK, Middle, Between, Whole, Wrong
  <1>5. Stuck' <=> Stuck
    BY <1>1, <1>3 DEF Stuck, BulkReady
  <1>6. /\ err = "none" /\ pc = "emit" /\ rstack # <<>> => Stuck'
        /\ err = "none" /\ pc = "idle" /\ asked => buf = <<>> \/ Stuck'
        /\ pc \in {"parse", "emit"} => ~asked
        /\ pc = "freed" /\ asked /\ stream = <<>> /\ err = "none" => K = Len(sent)
    BY <1>5, Zenon DEF IInvB, Waiting
  <1>7. Waiting'
    BY <1>1, <1>2, <1>3, <1>6, Zenon DEF Waiting
  <1> QED
    BY <1>4, <1>7 DEF IInvB

LEMMA ReaderFreeReads ==
  ASSUME IInvA, IInvB, ReaderFree
  PROVE  IInvB'
PROOF
  <1>1. /\ pc = "idle" /\ pc' = "freed" /\ err' = err /\ rstack' = <<>> /\ root' = None
        /\ stream' = stream /\ sent' = sent /\ out' = out /\ K' = K
    BY DEF ReaderFree, user, K
  <1>2. asked' = asked
    BY Zenon DEF ReaderFree
  <1>3. Position' /\ Wrong'
    BY <1>1 DEF IInvB, Position, OutOK, Middle, Between, Whole, Wrong, K
  <1>4. asked /\ stream = <<>> /\ err = "none" => K = Len(sent)
    BY <1>1, AllRead
  <1>5. asked' /\ stream' = <<>> /\ err' = "none" => K' = Len(sent')
    BY <1>1, <1>2, <1>4, Zenon
  <1>6. Waiting'
    BY <1>1, <1>5, Zenon DEF Waiting
  <1> QED
    BY <1>3, <1>6 DEF IInvB

LEMMA ParseStep ==
  ASSUME IInvB, pc = "parse", pc' = pc, asked' = asked, Position', Wrong'
  PROVE  IInvB'
PROOF
  <1>1. ~asked
    BY DEF IInvB, Waiting
  <1>2. ~asked' /\ pc' = "parse"
    BY <1>1, Zenon
  <1>3. Waiting'
    BY <1>2 DEF Waiting
  <1> QED
    BY <1>3 DEF IInvB

LEMMA StutterReads ==
  ASSUME IInvB, UNCHANGED vars
  PROVE  IInvB'
PROOF
  <1>1. /\ pc' = pc /\ err' = err /\ rstack' = rstack /\ objs' = objs /\ root' = root
        /\ buf' = buf /\ pos' = pos /\ stream' = stream /\ sent' = sent /\ out' = out
    BY DEF vars, reader, heap
  <1>2. asked' = asked
    BY Zenon DEF vars
  <1>3. /\ K' = K /\ Left' = Left /\ cur' = cur /\ Avail' = Avail /\ Tok(1)' = Tok(1)
    BY <1>1 DEF K, Left, cur, Avail, Tok
  <1>4. Position' /\ Wrong'
    BY <1>1, <1>3 DEF IInvB, Position, OutOK, Middle, Between, Whole, Wrong
  <1>5. Stuck' <=> Stuck
    BY <1>1, <1>3 DEF Stuck, BulkReady
  <1>6. /\ err = "none" /\ pc = "emit" /\ rstack # <<>> => Stuck'
        /\ err = "none" /\ pc = "idle" /\ asked => buf = <<>> \/ Stuck'
        /\ pc \in {"parse", "emit"} => ~asked
        /\ pc = "freed" /\ asked /\ stream = <<>> /\ err = "none" => K = Len(sent)
    BY <1>5, Zenon DEF IInvB, Waiting
  <1>7. Waiting'
    BY <1>1, <1>2, <1>3, <1>6, Zenon DEF Waiting
  <1> QED
    BY <1>4, <1>7 DEF IInvB

LEMMA NextB ==
  ASSUME IInvA, IInvA', IInvB, [Next]_vars
  PROVE  IInvB'
PROOF
  <1>1. Position
    BY DEF IInvB
  <1>2. ASSUME ReadType \/ ProcessLineItem \/ ProcessBulkItem \/ ProcessMultiBulkItem
        PROVE  IInvB'
    <2>1. Position' /\ Wrong'
      BY <1>1, <1>2, ReadTypeReads, LineReads, BulkReads, MultiBulkReads
    <2>2. pc = "parse" /\ pc' = pc
      BY <1>2 DEF ReadType, ProcessLineItem, ProcessBulkItem, ProcessMultiBulkItem
    <2>3. asked' = asked
      BY <1>2, Zenon DEF ReadType, ProcessLineItem, ProcessBulkItem, ProcessMultiBulkItem
    <2> QED
      BY <2>1, <2>2, <2>3, ParseStep
  <1> QED
    BY <1>2, ParseEndsReads, FeedReads, GetReplyReads, EmitReads, FreeReplyObjectReads,
       ReaderFreeReads, StutterReads DEF Next

LEMMA InitB ==
  ASSUME Init
  PROVE  IInvB
PROOF
  <1>1. /\ pc = "idle" /\ err = "none" /\ buf = <<>> /\ pos = 0 /\ rstack = <<>>
        /\ root = None /\ objs = <<>> /\ out = <<>>
    BY DEF Init
  <1>2. ~asked
    BY Zenon DEF Init
  <1>3. sent \in Seq(Replies) /\ stream = FlattenSeq(Wires(sent)) /\ stream \in Seq(Tokens)
    BY StreamIs
  <1>4. K = 0 /\ Len(sent) \in Nat /\ out \in Seq(Outs)
    BY <1>1, <1>3 DEF K
  <1>5. Left = After(sent)[K]
    <2>1. Cut(buf, pos) = <<>>
      BY <1>1 DEF Cut
    <2>2. After(sent)[0] = stream
      BY <1>3, AfterIs
    <2>3. <<>> \o stream = stream
      BY <1>3, ConcatEmptySeq
    <2> QED
      BY <1>4, <2>1, <2>2, <2>3 DEF Left
  <1>6. OutOK
    BY <1>3, <1>4 DEF OutOK
  <1>7. Position /\ Wrong
    BY <1>1, <1>5, <1>6 DEF Position, Middle, Between, Whole, Wrong
  <1>8. Waiting
    BY <1>1, <1>2 DEF Waiting
  <1> QED
    BY <1>7, <1>8 DEF IInvB

\* What is to be handed out in all, where nothing or a certain reply is refused.
LEMMA ExpectedIs ==
  ASSUME OutOK
  PROVE  /\ K = Len(sent) => Len(Expected) = K
         /\ K < Len(sent) /\ Refused(sent[K + 1]) => Len(Expected) = K /\ out = Expected
         /\ IsPrefix(out, Expected)
PROOF
  <1> DEFINE bad == {i \in DOMAIN sent : Refused(sent[i])}
             n == IF bad = {} THEN Len(sent) ELSE Min(bad) - 1
  <1>1. /\ sent \in Seq(Replies) /\ DOMAIN sent = 1 .. Len(sent) /\ Len(sent) \in Nat
        /\ K \in Nat /\ K <= Len(sent) /\ out \in Seq(Outs) /\ Len(out) = K
        /\ DOMAIN out = 1 .. K
        /\ \A i \in 1 .. K : out[i] = Plain[sent[i]]
    BY DEF OutOK, K
  <1>2. bad \in SUBSET Nat /\ bad \subseteq 1 .. Len(sent) /\ \A i \in bad : i > K
    <2>1. bad \subseteq 1 .. Len(sent)
      BY <1>1
    <2>2. \A i \in 1 .. K : ~Refused(sent[i])
      BY DEF OutOK, Refused
    <2> QED
      BY <1>1, <2>1, <2>2
  <1>3. Expected = [i \in 1 .. n |-> Plain[sent[i]]]
    BY DEF Expected
  <1>4. K \in Nat /\ (K < Len(sent) /\ Refused(sent[K + 1]) => K + 1 \in bad)
    BY <1>1
  <1> HIDE DEF bad
  <1>5. bad # {} => Min(bad) \in bad /\ \A x \in bad : Min(bad) <= x
    BY <1>2, MinIs
  <1>6. n \in Nat /\ n >= K /\ n <= Len(sent) /\ (K + 1 \in bad => n = K)
    <2>1. CASE bad = {}
      BY <1>1, <2>1
    <2>2. CASE bad # {}
      <3>1. Min(bad) \in 1 .. Len(sent) /\ Min(bad) > K
        BY <1>2, <1>5, <2>2
      <3> DEFINE mn == Min(bad)
      <3>2. n = mn - 1
        BY <2>2
      <3>3. mn \in Nat /\ mn > K /\ mn <= Len(sent)
        BY <1>1, <3>1
      <3>4. K + 1 \in bad => mn <= K + 1
        BY <1>5
      <3> HIDE DEF n, mn
      <3>5. n \in Nat /\ n >= K /\ n <= Len(sent)
        BY <1>1, <3>2, <3>3
      <3>6. K + 1 \in bad => n = K
        BY <1>1, <3>2, <3>3, <3>4
      <3> QED
        BY <3>5, <3>6
    <2> QED
      BY <2>1, <2>2
  <1> HIDE DEF n
  <1>7. Expected \in Seq(Outs) /\ Len(Expected) = n /\ \A i \in 1 .. n : Expected[i] = Plain[sent[i]]
    <2>1. \A i \in 1 .. n : Plain[sent[i]] \in Outs
      BY <1>1, <1>6 DEF Outs
    <2> QED
      BY <1>3, <1>6, <2>1
  <1>8. IsPrefix(out, Expected)
    <2>1. \A i \in 1 .. K : out[i] = Expected[i]
      BY <1>1, <1>6, <1>7
    <2> QED
      BY <1>1, <1>6, <1>7, <2>1 DEF IsPrefix
  <1>9. n = K => out = Expected
    BY <1>1, <1>7, SeqEqual
  <1>10. K = Len(sent) => Len(Expected) = K
    <2>1. n \in Nat /\ n >= K /\ n <= Len(sent) /\ Len(Expected) = n
      BY <1>6, <1>7
    <2>2. K \in Nat
      BY <1>1
    <2>3. K = Len(sent) => n = K
      BY <2>1, <2>2
    <2> QED
      BY <2>1, <2>3
  <1>11. K < Len(sent) /\ Refused(sent[K + 1]) => Len(Expected) = K /\ out = Expected
    BY <1>4, <1>6, <1>7, <1>9
  <1> QED
    BY <1>8, <1>10, <1>11

LEMMA SentHolds ==
  ASSUME IInvA, IInvB
  PROVE  RepliesAreSent /\ ErrorIsReal
PROOF
  <1>1. OutOK /\ Len(out) = K
    BY DEF IInvB, Position, K
  <1>2. IsPrefix(out, Expected)
    BY <1>1, ExpectedIs
  <1>3. ASSUME asked, stream = <<>>, err = "none" PROVE Len(out) = Len(Expected)
    <2>1. pc \in {"idle", "parse", "emit", "freed"}
      BY DEF IInvA, Control
    <2>2. ~(pc \in {"parse", "emit"})
      BY <1>3, Zenon DEF IInvB, Waiting
    <2>3. K = Len(sent)
      <3>1. CASE pc = "idle"
        BY <1>3, <3>1, AllRead
      <3>2. CASE pc = "freed"
        BY <1>3, <3>2, Zenon DEF IInvB, Waiting
      <3> QED
        BY <2>1, <2>2, <3>1, <3>2
    <2> QED
      BY <1>1, <2>3, ExpectedIs
  <1>4. ErrorIsReal
    BY <1>1, ExpectedIs DEF IInvB, Wrong, ErrorIsReal
  <1> QED
    BY <1>2, <1>3, <1>4 DEF RepliesAreSent

\* However the stream is cut into reads and whichever allocation fails, the
\* replies handed out are a beginning of those the servers sent, with their
\* values and structure, and none is missing once all has been fed and asked for.
THEOREM Delivery == Spec => []RepliesAreSent
PROOF
  <1>1. Init => IInvA /\ IInvB
    BY InitA, InitB
  <1>2. IInvA /\ IInvB /\ [Next]_vars => IInvA' /\ IInvB'
    BY NextA, NextB
  <1>3. IInvA /\ IInvB => RepliesAreSent
    BY SentHolds
  <1> QED
    BY <1>1, <1>2, <1>3, PTL DEF Spec

\* The reader reports an error of the protocol exactly at the first reply that
\* is garbage or nested deeper than it has room for, after all those before it.
THEOREM ErrorsAreReal == Spec => []ErrorIsReal
PROOF
  <1>1. Init => IInvA /\ IInvB
    BY InitA, InitB
  <1>2. IInvA /\ IInvB /\ [Next]_vars => IInvA' /\ IInvB'
    BY NextA, NextB
  <1>3. IInvA /\ IInvB => ErrorIsReal
    BY SentHolds
  <1> QED
    BY <1>1, <1>2, <1>3, PTL DEF Spec

=============================================================================
