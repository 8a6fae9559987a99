------------------------- MODULE ShortHandlesProofs -------------------------
(***************************************************************************)
(* The short handles, for any Cases, layers, artifacts and cap.            *)
(*                                                                         *)
(* The numbers of a registry, of a stored Case and of a pending save are   *)
(* 1 to n, each given once: a cap that is not reached therefore leaves no  *)
(* uri of a result without a handle.  When turns do not overlap (the code  *)
(* leaves them free to), the registry of the open Case is what reopening   *)
(* its record would build, so that a handle shown to the model keeps its   *)
(* meaning over every save, switch and reopening.                          *)
(*                                                                         *)
(* MintAll is a recursive function over the uris of a result.  What it     *)
(* computes is proved by induction on how many of them it has walked, from *)
(* the well-foundedness of < on Nat.                                       *)
(***************************************************************************)
EXTENDS ShortHandles, SequenceTheorems, FunctionTheorems, FiniteSetTheorems, WellFoundedInduction, TLAPS

\* The numbers of a map are 1 to n, each given once.
Numbers(map, n) ==
    /\ n \in 0 .. Cap
    /\ map \in [Uris -> 0 .. n]
    /\ \A u, v \in Uris : map[u] = map[v] /\ map[u] # 0 => u = v
    /\ \A i \in 1 .. n : \E u \in Uris : map[u] = i

Numbered(map) == \E n \in 0 .. Cap : Numbers(map, n)

\* Every uri of a sequence has a number, or there are none left to give.
Covers(map, n, us) == \A i \in 1 .. Len(us) : map[us[i]] # 0 \/ n = Cap

\* A map keeps the numbers of another one.
Keeps(old, new) == \A u \in Uris : old[u] # 0 => new[u] = old[u]

\* Every map in memory or in the store numbers its uris so.
MapsInv ==
    /\ Numbers(number, seq)
    /\ \A k \in Cases : Numbered(saved[k])
    /\ \A t \in Turns : Numbered(export[t])

\* The layers of a Case are a sequence, and what a call has produced fits its phase.
CallsInv ==
    /\ layers \in [Cases -> Seq(Layers)] /\ fetched \in Seq(Layers)
    /\ \A t \in Turns :
         /\ phase[t] # "unused" => case[t] \in Cases
         /\ phase[t] = "called" => result[t] = {}
         /\ phase[t] = "emitted" => \E u \in Layers : result[t] = {u}

HandlesInv == TypeOK /\ MapsInv /\ CallsInv

\* What opening a Case would make of the registry.
Reopened(k) == ReplaceFromLayers(saved[k], layers[k])

\* Without overlap a turn runs alone, in the Case the registry was seeded for.
LoneTurn ==
    /\ \A t, r \in Turns : Running(t) /\ Running(r) => t = r
    /\ \A t \in Turns : Running(t) => opening = None /\ case[t] = seeded
    /\ opening # None => fetched = layers[opening]

\* Opening a Case would resolve every handle its conversation shows.
ShownInv == \A k \in Cases \ lost : \A h \in shown[k] : Reopened(k).map[h[2]] = h[1]

(* The registry is what reopening the seeded Case would make of it, but for the layer
   of a call that is not kept yet and the artifact of one that is not saved. *)
RegistryInv ==
    seeded \notin lost \cup {None} =>
       /\ (\A t \in Turns : phase[t] \notin {"emitted", "saving"}) => number = Reopened(seeded).map
       /\ \A t \in Turns :
            /\ phase[t] = "emitted" => \A u \in result[t] : number = MintShort(Reopened(seeded), u).map
            /\ phase[t] = "saving" => /\ export[t] = number /\ Keeps(Reopened(seeded).map, number)
                                      /\ Covers(number, seq, layers[seeded])

LoneInv == LoneTurn /\ ShownInv /\ RegistryInv
-----------------------------------------------------------------------------
\* Induction, from the well-foundedness of the natural numbers.
LEMMA Induction ==
    ASSUME NEW S, S \subseteq Nat, 0 \in S, \A n \in S : n + 1 \in S
    PROVE  S = Nat
<1> DEFINE R == OpToRel(<, Nat)
           T == Nat \ S
<1>1. IsWellFoundedOn(R, Nat) BY NatLessThanWellFounded
<1>2. \A x, y \in Nat : x < y => <<x, y>> \in R BY DEF OpToRel
<1> HIDE DEF R
<1>3. SUFFICES ASSUME T # {} PROVE FALSE OBVIOUS
<1>4. T \subseteq Nat OBVIOUS
<1> HIDE DEF T
<1>5. PICK x \in T : \A y \in T : ~(<<y, x>> \in R) BY <1>1, <1>3, <1>4, WFMin
<1>6. x \in Nat /\ x \notin S BY DEF T
<1>7. x # 0 BY <1>6
<1>8. x - 1 \in Nat /\ x - 1 < x /\ (x - 1) + 1 = x BY <1>6, <1>7
<1>9. x - 1 \in T BY <1>6, <1>8 DEF T
<1> QED BY <1>2, <1>5, <1>6, <1>8, <1>9

\* As many uris are numbered as the map has numbers.
LEMMA NumberedCount ==
    ASSUME NEW map, NEW n, Numbers(map, n)
    PROVE  Cardinality({v \in Uris : map[v] # 0}) = n
<1> DEFINE D == {v \in Uris : map[v] # 0}
           f == [v \in D |-> map[v]]
<1>1. n \in Nat BY HandlesAssumption DEF Numbers
<1>2. f \in [D -> 1 .. n]
  <2>1. \A v \in D : map[v] \in 1 .. n BY <1>1 DEF Numbers
  <2> QED BY <2>1
<1>3. \A a, b \in D : f[a] = f[b] => a = b BY DEF Numbers
<1>4. \A i \in 1 .. n : \E v \in D : f[v] = i
  <2> SUFFICES ASSUME NEW i \in 1 .. n PROVE \E v \in D : f[v] = i OBVIOUS
  <2>1. PICK u \in Uris : map[u] = i BY DEF Numbers
  <2>2. u \in D BY <1>1, <2>1
  <2> QED BY <2>1, <2>2
<1> HIDE DEF f, D
<1>5. f \in Bijection(D, 1 .. n) BY <1>2, <1>3, <1>4, Fun_IsBij
<1>6. ExistsBijection(1 .. n, D) BY <1>5, Fun_BijInverse DEF ExistsBijection
<1>7. Cardinality(D) = n BY <1>1, <1>6, FS_CountingElements
<1> QED BY <1>7 DEF D

\* A registry whose numbers are 1 to its counter.
Registries == [map : Maps, seq : 0 .. Cap, dirty : BOOLEAN]
Sound(reg) == reg \in Registries /\ Numbers(reg.map, reg.seq)

\* An import resumes the counter at the number of entries.
LEMMA ImportIs ==
    ASSUME NEW map, NEW n, Numbers(map, n)
    PROVE  /\ ImportShortHandles(map) = [map |-> map, seq |-> n, dirty |-> FALSE]
           /\ Sound(ImportShortHandles(map))
<1> DEFINE S == {map[u] : u \in Uris} \cup {0}
<1>1. n \in Nat /\ n \in 0 .. Cap BY HandlesAssumption DEF Numbers
<1>2. S \subseteq Nat /\ \A y \in S : n >= y BY <1>1 DEF Numbers
<1>3. n \in S
  <2>1. CASE n = 0 BY <2>1
  <2>2. CASE n # 0
    <3>1. n \in 1 .. n BY <1>1, <2>2
    <3> QED BY <3>1 DEF Numbers
  <2> QED BY <2>1, <2>2
<1> HIDE DEF S
<1>4. Max(S) \in S /\ \A y \in S : Max(S) >= y BY <1>2, <1>3 DEF Max
<1>5. Max(S) = n
  <2> DEFINE m == Max(S)
  <2>1. m \in Nat /\ n >= m /\ m >= n BY <1>2, <1>3, <1>4
  <2> HIDE DEF m
  <2>2. m = n BY <1>1, <2>1
  <2> QED BY <2>2 DEF m
<1>6. ImportShortHandles(map) = [map |-> map, seq |-> n, dirty |-> FALSE] BY <1>5 DEF ImportShortHandles, S
<1>7. map \in Maps BY <1>1, HandlesAssumption DEF Numbers, Maps
<1> QED BY <1>1, <1>6, <1>7 DEF Sound, Registries

\* A mint without the cardinality.
LEMMA MintIs ==
    ASSUME NEW reg, Sound(reg), NEW u \in Uris
    PROVE  MintShort(reg, u) =
             IF reg.map[u] # 0 \/ reg.seq = Cap THEN reg
             ELSE [map |-> [reg.map EXCEPT ![u] = reg.seq + 1], seq |-> reg.seq + 1, dirty |-> TRUE]
<1>1. Cardinality({v \in Uris : reg.map[v] # 0}) = reg.seq BY NumberedCount DEF Sound
<1>2. reg.seq \in Nat /\ Cap \in Nat /\ reg.seq <= Cap BY HandlesAssumption DEF Sound, Registries
<1>3. reg.seq >= Cap <=> reg.seq = Cap BY <1>2
<1> QED BY <1>1, <1>3 DEF MintShort

\* What may be said of a registry after some mints.
Grown(old, new) ==
    /\ Sound(new) /\ Keeps(old.map, new.map)
    /\ old.seq = Cap => new = old
    /\ ~new.dirty => new = old

LEMMA MintGrows ==
    ASSUME NEW reg, Sound(reg), NEW u \in Uris
    PROVE  /\ Grown(reg, MintShort(reg, u))
           /\ MintShort(reg, u).map[u] # 0 \/ MintShort(reg, u).seq = Cap
           /\ reg.map[u] # 0 \/ reg.seq = Cap => MintShort(reg, u) = reg
<1>0. /\ reg.seq \in Nat /\ Cap \in Nat /\ reg.seq <= Cap /\ reg.map \in [Uris -> 0 .. reg.seq]
      /\ reg.map \in Maps /\ \A v, w \in Uris : reg.map[v] = reg.map[w] /\ reg.map[v] # 0 => v = w
      /\ \A i \in 1 .. reg.seq : \E v \in Uris : reg.map[v] = i
  BY HandlesAssumption DEF Sound, Registries, Numbers
<1>1. CASE reg.map[u] # 0 \/ reg.seq = Cap
  BY <1>1, MintIs DEF Grown, Keeps
<1>2. CASE reg.map[u] = 0 /\ reg.seq # Cap
  <2> DEFINE n == reg.seq + 1
             m == [reg.map EXCEPT ![u] = n]
  <2>1. MintShort(reg, u) = [map |-> m, seq |-> n, dirty |-> TRUE] BY <1>2, MintIs
  <2>2. n \in 1 .. Cap /\ n \in 0 .. Cap /\ n # 0 /\ n \in Nat BY <1>0, <1>2
  <2>3. m[u] = n /\ \A v \in Uris : v # u => m[v] = reg.map[v] BY <1>0
  <2>4. \A v \in Uris : reg.map[v] \in 0 .. n /\ reg.map[v] # n BY <1>0
  <2>5. m \in [Uris -> 0 .. n] /\ m \in Maps
    <3>1. \A v \in Uris : m[v] \in 0 .. n /\ m[v] \in 0 .. Cap BY <1>0, <2>2, <2>3, <2>4 DEF Maps
    <3>2. m = [v \in Uris |-> m[v]] BY <1>0
    <3> HIDE DEF m
    <3> QED BY <3>1, <3>2 DEF Maps
  <2>6. \A i \in 1 .. n : \E v \in Uris : m[v] = i
    <3> SUFFICES ASSUME NEW i \in 1 .. n PROVE \E v \in Uris : m[v] = i OBVIOUS
    <3>1. CASE i = n BY <2>3, <3>1
    <3>2. CASE i # n
      <4>1. i \in 1 .. reg.seq /\ i # 0 BY <1>0, <3>2
      <4>2. PICK v \in Uris : reg.map[v] = i BY <1>0, <4>1
      <4> QED BY <1>2, <2>3, <4>1, <4>2
    <3> QED BY <3>1, <3>2
  <2> HIDE DEF n, m
  <2>7. \A v, w \in Uris : m[v] = m[w] /\ m[v] # 0 => v = w BY <1>0, <2>3, <2>4
  <2>8. Numbers(m, n) BY <2>2, <2>5, <2>6, <2>7 DEF Numbers
  <2>9. Keeps(reg.map, m) BY <1>2, <2>3 DEF Keeps
  <2> QED BY <1>2, <2>1, <2>2, <2>3, <2>5, <2>8, <2>9 DEF Grown, Sound, Registries
<1> QED BY <1>0, <1>1, <1>2

\* The registry after each uri of a sequence.
Minted(reg, us, n, h) == h = [i \in 0 .. n |-> IF i = 0 THEN reg ELSE MintShort(h[i - 1], us[i])]

LEMMA MintedIs ==
    ASSUME NEW reg, NEW us, NEW n \in Nat, NEW h, Minted(reg, us, n, h)
    PROVE  DOMAIN h = 0 .. n /\ h[0] = reg /\ \A i \in 1 .. n : h[i] = MintShort(h[i - 1], us[i])
<1> DEFINE F(i) == IF i = 0 THEN reg ELSE MintShort(h[i - 1], us[i])
<1>1. h = [i \in 0 .. n |-> F(i)] BY DEF Minted
<1>2. F(0) = reg /\ \A i \in 1 .. n : F(i) = MintShort(h[i - 1], us[i]) OBVIOUS
<1>3. 0 \in 0 .. n /\ \A i \in 1 .. n : i \in 0 .. n OBVIOUS
<1> HIDE DEF F
<1> QED BY <1>1, <1>2, <1>3

\* The loop can be run, and in one way only.
LEMMA MintedExists ==
    ASSUME NEW reg, NEW us, NEW n \in Nat
    PROVE  \E h : Minted(reg, us, n, h)
<1> DEFINE P(m) == \E h : Minted(reg, us, m, h)
           S == {m \in Nat : P(m)}
<1>1. 0 \in S
  <2> DEFINE h == [i \in 0 .. 0 |-> reg]
  <2>1. h = [i \in 0 .. 0 |-> IF i = 0 THEN reg ELSE MintShort(h[i - 1], us[i])] OBVIOUS
  <2> HIDE DEF h
  <2>2. Minted(reg, us, 0, h) BY <2>1 DEF Minted
  <2> QED BY <2>2
<1>2. ASSUME NEW m \in S PROVE m + 1 \in S
  <2>1. PICK h : Minted(reg, us, m, h) OBVIOUS
  <2>2. m \in Nat OBVIOUS
  <2>3. DOMAIN h = 0 .. m /\ h[0] = reg /\ \A i \in 1 .. m : h[i] = MintShort(h[i - 1], us[i])
    BY <2>1, <2>2, MintedIs
  <2> DEFINE g == [i \in 0 .. m + 1 |-> IF i <= m THEN h[i] ELSE MintShort(h[m], us[m + 1])]
             F(i) == IF i = 0 THEN reg ELSE MintShort(g[i - 1], us[i])
  <2>4. ASSUME NEW i \in 0 .. m + 1 PROVE g[i] = F(i)
    <3>1. CASE i = 0 BY <2>2, <2>3, <3>1
    <3>2. CASE i \in 1 .. m
      <4>1. i - 1 \in 0 .. m + 1 /\ i - 1 <= m /\ i <= m /\ i # 0 BY <2>2, <3>2
      <4> QED BY <2>3, <3>2, <4>1
    <3>3. CASE i = m + 1
      <4>1. i - 1 = m /\ m \in 0 .. m + 1 /\ ~(i <= m) /\ i # 0 /\ m <= m BY <2>2, <3>3
      <4>2. g[m] = h[m] /\ g[i] = MintShort(h[m], us[i]) BY <3>3, <4>1
      <4> HIDE DEF g
      <4> QED BY <4>1, <4>2
    <3>4. i = 0 \/ i \in 1 .. m \/ i = m + 1 BY <2>2
    <3> QED BY <3>1, <3>2, <3>3, <3>4
  <2>5. g = [i \in 0 .. m + 1 |-> F(i)]
    <3>1. g = [i \in 0 .. m + 1 |-> g[i]] OBVIOUS
    <3> HIDE DEF g, F
    <3> QED BY <2>4, <3>1
  <2>6. Minted(reg, us, m + 1, g)
    <3> HIDE DEF g
    <3> QED BY <2>5 DEF Minted
  <2>7. P(m + 1) BY <2>6
  <2> HIDE DEF P
  <2> QED BY <2>2, <2>7
<1>3. S \subseteq Nat OBVIOUS
<1> HIDE DEF S
<1>4. S = Nat BY <1>1, <1>2, <1>3, Induction
<1>5. n \in S BY <1>4
<1> QED BY <1>5 DEF S

Runs(reg, us, n, h) == h[0] = reg /\ \A i \in 1 .. n : h[i] = MintShort(h[i - 1], us[i])

LEMMA RunsUnique ==
    ASSUME NEW reg, NEW us, NEW n \in Nat, NEW g, NEW h, Runs(reg, us, n, g), Runs(reg, us, n, h)
    PROVE  \A i \in 0 .. n : g[i] = h[i]
<1> DEFINE S == {i \in Nat : i <= n => g[i] = h[i]}
<1>1. 0 \in S BY DEF Runs
<1>2. ASSUME NEW i \in S PROVE i + 1 \in S
  <2>1. CASE i + 1 <= n
    <3>1. i + 1 \in 1 .. n /\ (i + 1) - 1 = i /\ i <= n BY <2>1
    <3>2. g[i] = h[i] BY <3>1
    <3>3. g[i + 1] = MintShort(g[i], us[i + 1]) /\ h[i + 1] = MintShort(h[i], us[i + 1]) BY <3>1 DEF Runs
    <3>4. g[i + 1] = h[i + 1] BY <3>2, <3>3
    <3> QED BY <3>4
  <2>2. CASE ~(i + 1 <= n) BY <2>2
  <2> QED BY <2>1, <2>2
<1>3. S \subseteq Nat OBVIOUS
<1> HIDE DEF S
<1>4. S = Nat BY <1>1, <1>2, <1>3, Induction
<1>5. \A i \in 0 .. n : i \in S /\ i <= n BY <1>4
<1> QED BY <1>5 DEF S

LEMMA MintAllIs ==
    ASSUME NEW reg, NEW us, NEW n \in Nat, Len(us) = n
    PROVE  \E h : Minted(reg, us, n, h) /\ MintAll(reg, us) = h[n]
<1> DEFINE minted[i \in 0 .. Len(us)] == IF i = 0 THEN reg ELSE MintShort(minted[i - 1], us[i])
           P(h) == h = [i \in 0 .. Len(us) |-> IF i = 0 THEN reg ELSE MintShort(h[i - 1], us[i])]
<1>1. \E h : P(h)
  <2>1. PICK h : Minted(reg, us, n, h) BY MintedExists
  <2>2. P(h) BY <2>1 DEF Minted
  <2> QED BY <2>2
<1>2. minted = CHOOSE h : P(h) BY DEF minted
<1>3. MintAll(reg, us) = minted[Len(us)] BY DEF MintAll
<1> HIDE DEF P, minted
<1>4. P(minted) BY <1>1, <1>2
<1>5. Minted(reg, us, n, minted) BY <1>4 DEF Minted, P
<1> QED BY <1>3, <1>5

\* Minting for a sequence, one uri at a time.
LEMMA MintAllSteps ==
    ASSUME NEW reg
    PROVE  /\ MintAll(reg, << >>) = reg
           /\ \A us \in Seq(Uris), u \in Uris : MintAll(reg, Append(us, u)) = MintShort(MintAll(reg, us), u)
<1>1. MintAll(reg, << >>) = reg
  <2>1. Len(<< >>) = 0 OBVIOUS
  <2>2. PICK h : Minted(reg, << >>, 0, h) /\ MintAll(reg, << >>) = h[0] BY <2>1, MintAllIs
  <2>3. h[0] = reg BY <2>2, MintedIs
  <2> QED BY <2>2, <2>3
<1>2. ASSUME NEW us \in Seq(Uris), NEW u \in Uris
      PROVE  MintAll(reg, Append(us, u)) = MintShort(MintAll(reg, us), u)
  <2> DEFINE vs == Append(us, u)
             n == Len(us)
             m == n + 1
  <2>1. n \in Nat /\ m \in Nat /\ n <= m /\ m - 1 = n /\ m \in 1 .. m /\ n \in 0 .. n BY LenProperties
  <2>2. Len(vs) = m /\ vs[m] = u /\ \A i \in 1 .. n : us[i] = vs[i] BY AppendProperties
  <2>l. Len(us) = n OBVIOUS
  <2> HIDE DEF vs, n, m
  <2>m. m \in Nat BY <2>1
  <2>3. PICK g : Minted(reg, us, n, g) /\ MintAll(reg, us) = g[n] BY <2>1, <2>l, MintAllIs
  <2>4. PICK h : Minted(reg, vs, m, h) /\ MintAll(reg, vs) = h[m]
    BY <2>m, <2>2, MintAllIs
  <2>5. \A i \in 0 .. n : g[i] = h[i]
    <3>1. Runs(reg, us, n, g) BY <2>1, <2>3, MintedIs DEF Runs
    <3>2. Runs(reg, us, n, h)
      <4>0. Minted(reg, vs, m, h) BY <2>4
      <4>h. h[0] = reg BY <2>m, <4>0, MintedIs
      <4>1. \A i \in 1 .. m : h[i] = MintShort(h[i - 1], vs[i]) BY <2>m, <4>0, MintedIs
      <4>2. \A i \in 1 .. n : i \in 1 .. m /\ vs[i] = us[i] BY <2>1, <2>2
      <4> QED BY <4>h, <4>1, <4>2 DEF Runs
    <3>3. n \in Nat BY <2>1
    <3> QED BY <3>1, <3>2, <3>3, RunsUnique
  <2>6. \A i \in 1 .. m : h[i] = MintShort(h[i - 1], vs[i]) BY <2>m, <2>4, MintedIs
  <2>7. h[m] = MintShort(h[n], vs[m]) BY <2>1, <2>6
  <2>8. MintAll(reg, vs) = MintShort(MintAll(reg, us), u) BY <2>1, <2>2, <2>3, <2>4, <2>5, <2>7
  <2> QED BY <2>8 DEF vs
<1> QED BY <1>1, <1>2

\* What the loop leaves: sound and grown, every uri numbered unless the cap was reached.
LEMMA MintAllGrows ==
    ASSUME NEW reg, Sound(reg), NEW us \in Seq(Uris)
    PROVE  /\ Grown(reg, MintAll(reg, us))
           /\ Covers(MintAll(reg, us).map, MintAll(reg, us).seq, us)
           /\ Covers(reg.map, reg.seq, us) => MintAll(reg, us) = reg
<1> DEFINE n == Len(us)
<1>1. n \in Nat /\ n \in 0 .. n BY LenProperties
<1>l. Len(us) = n OBVIOUS
<1>2. \A i \in 1 .. n : us[i] \in Uris BY ElementOfSeq
<1> HIDE DEF n
<1>3. PICK h : Minted(reg, us, n, h) /\ MintAll(reg, us) = h[n] BY <1>1, <1>l, MintAllIs
<1>4. h[0] = reg /\ \A i \in 1 .. n : h[i] = MintShort(h[i - 1], us[i]) BY <1>1, <1>3, MintedIs
<1> DEFINE Fine(i) == /\ Grown(reg, h[i])
                      /\ \A j \in 1 .. i : h[i].map[us[j]] # 0 \/ h[i].seq = Cap
                      /\ Covers(reg.map, reg.seq, us) => h[i] = reg
           S == {i \in Nat : i <= n => Fine(i)}
<1>5. 0 \in S BY <1>4 DEF Grown, Keeps
<1>6. ASSUME NEW i \in S PROVE i + 1 \in S
  <2>1. CASE i + 1 <= n
    <3>1. i \in Nat /\ i + 1 \in 1 .. n /\ (i + 1) - 1 = i /\ i <= n BY <1>1, <2>1
    <3>2. Fine(i) BY <3>1
    <3> DEFINE a == h[i]
               b == h[i + 1]
               u == us[i + 1]
    <3>3. b = MintShort(a, u) /\ u \in Uris /\ Sound(a) BY <1>2, <1>4, <3>1, <3>2 DEF Grown
    <3>4. /\ Grown(reg, a) /\ (\A j \in 1 .. i : a.map[us[j]] # 0 \/ a.seq = Cap)
          /\ Covers(reg.map, reg.seq, us) => a = reg
      BY <3>2
    <3>5. \A j \in 1 .. i : us[j] \in Uris BY <1>1, <1>2, <3>1
    <3>6. Covers(reg.map, reg.seq, us) => reg.map[u] # 0 \/ reg.seq = Cap BY <1>l, <3>1 DEF Covers
    <3>7. \A j \in 1 .. i + 1 : j \in 1 .. i \/ us[j] = u BY <3>1
    <3> HIDE DEF a, b, u
    <3>8. Grown(a, b) /\ (b.map[u] # 0 \/ b.seq = Cap) /\ (a.map[u] # 0 \/ a.seq = Cap => b = a)
      BY <3>3, MintGrows
    <3>9. Grown(reg, b)
      <4>1. Keeps(reg.map, b.map)
        <5> SUFFICES ASSUME NEW v \in Uris, reg.map[v] # 0 PROVE b.map[v] = reg.map[v] BY DEF Keeps
        <5>1. a.map[v] = reg.map[v] BY <3>4 DEF Grown, Keeps
        <5> QED BY <3>8, <5>1 DEF Grown, Keeps
      <4>2. reg.seq = Cap => b = reg BY <3>4, <3>8 DEF Grown
      <4>3. ~b.dirty => b = reg BY <3>4, <3>8 DEF Grown
      <4> QED BY <3>8, <4>1, <4>2, <4>3 DEF Grown
    <3>10. \A j \in 1 .. i + 1 : b.map[us[j]] # 0 \/ b.seq = Cap
      <4> SUFFICES ASSUME NEW j \in 1 .. i + 1 PROVE b.map[us[j]] # 0 \/ b.seq = Cap OBVIOUS
      <4>1. CASE us[j] = u BY <3>8, <4>1
      <4>2. CASE j \in 1 .. i
        <5>1. CASE a.seq = Cap BY <3>8, <5>1 DEF Grown
        <5>2. CASE a.map[us[j]] # 0 BY <3>5, <3>8, <4>2, <5>2 DEF Grown, Keeps
        <5> QED BY <3>4, <4>2, <5>1, <5>2
      <4> QED BY <3>7, <4>1, <4>2
    <3>11. Covers(reg.map, reg.seq, us) => b = reg BY <3>4, <3>6, <3>8
    <3>12. Fine(i + 1) BY <3>9, <3>10, <3>11 DEF b
    <3> HIDE DEF Fine
    <3> QED BY <3>1, <3>12
  <2>2. CASE ~(i + 1 <= n) BY <2>2
  <2> QED BY <2>1, <2>2
<1>7. S \subseteq Nat OBVIOUS
<1>8. S = Nat
  <2> HIDE DEF S
  <2> QED BY <1>5, <1>6, <1>7, Induction
<1>9. Fine(n)
  <2> HIDE DEF Fine
  <2>1. n \in S BY <1>1, <1>8
  <2> QED BY <1>1, <2>1
<1> QED BY <1>l, <1>3, <1>9 DEF Covers
-----------------------------------------------------------------------------
\* A set of at most one element as a sequence.
LEMMA FewToSeq == SetToSeq({}) = << >> /\ \A u : SetToSeq({u}) = <<u>>
<1>1. SetToSeq({}) = << >>
  <2>1. Cardinality({}) = 0 BY FS_EmptySet
  <2>2. << >> \in [1 .. 0 -> {}] /\ IsInjective(<< >>) BY DEF IsInjective
  <2>3. \A f \in [1 .. 0 -> {}] : f = << >> OBVIOUS
  <2> QED BY <2>1, <2>2, <2>3 DEF SetToSeq
<1>2. ASSUME NEW u PROVE SetToSeq({u}) = <<u>>
  <2>1. Cardinality({u}) = 1 BY FS_Singleton
  <2>2. <<u>> \in [1 .. 1 -> {u}] /\ IsInjective(<<u>>) BY DEF IsInjective
  <2>3. \A f \in [1 .. 1 -> {u}] : f = <<u>> OBVIOUS
  <2> QED BY <2>1, <2>2, <2>3 DEF SetToSeq
<1> QED BY <1>1, <1>2

\* The range of a sequence.
LEMMA RangeIs ==
    ASSUME NEW S, NEW us \in Seq(S)
    PROVE  Range(us) \subseteq S /\ Range(us) = {us[i] : i \in 1 .. Len(us)}
<1>1. DOMAIN us = 1 .. Len(us) BY LenProperties
<1> QED BY <1>1, ElementOfSeq DEF Range

\* The empty map and the registry it makes.
LEMMA NoNumbers == /\ Numbers(NoHandles, 0) /\ Numbered(NoHandles) /\ NoHandles \in Maps
                   /\ ImportShortHandles(NoHandles) = [map |-> NoHandles, seq |-> 0, dirty |-> FALSE]
<1>1. Numbers(NoHandles, 0) /\ 0 \in 0 .. Cap BY HandlesAssumption DEF Numbers, NoHandles
<1>2. NoHandles \in Maps BY HandlesAssumption DEF NoHandles, Maps
<1> QED BY <1>1, <1>2, ImportIs DEF Numbered

LEMMA RegistrySound == HandlesInv => Sound(Registry)
BY DEF HandlesInv, TypeOK, MapsInv, Sound, Registries, Registry

\* The registry becomes a sound one.
LEMMA RegistrySet ==
    ASSUME NEW reg, Sound(reg), SetRegistry(reg)
    PROVE  number' \in Maps /\ seq' \in 0 .. Cap /\ dirty' \in BOOLEAN /\ Numbers(number', seq')
BY DEF Sound, Registries, SetRegistry

\* What opening a Case makes of the registry is sound and has its layers.
LEMMA ReplaceSound ==
    ASSUME NEW map, Numbered(map), NEW us \in Seq(Layers)
    PROVE  /\ Sound(ReplaceFromLayers(map, us)) /\ Keeps(map, ReplaceFromLayers(map, us).map)
           /\ Covers(ReplaceFromLayers(map, us).map, ReplaceFromLayers(map, us).seq, us)
<1>1. PICK n \in 0 .. Cap : Numbers(map, n) BY DEF Numbered
<1> DEFINE reg == ImportShortHandles(map)
<1>2. Sound(reg) /\ reg.map = map BY <1>1, ImportIs
<1>3. us \in Seq(Uris) BY SeqMonotonic DEF Uris
<1> HIDE DEF reg
<1>4. Grown(reg, MintAll(reg, us)) /\ Covers(MintAll(reg, us).map, MintAll(reg, us).seq, us)
  BY <1>2, <1>3, MintAllGrows
<1>5. ReplaceFromLayers(map, us) = MintAll(reg, us) BY DEF ReplaceFromLayers, reg
<1> QED BY <1>2, <1>4, <1>5 DEF Grown

LEMMA HandlesInit == Init => HandlesInv
<1> SUFFICES ASSUME Init PROVE HandlesInv OBVIOUS
<1> USE DEF Init
<1>1. Range(<< >>) = {} /\ IsInjective(<< >>) BY DEF Range, IsInjective
<1>2. /\ number \in Maps /\ saved \in [Cases -> Maps] /\ export \in [Turns -> Maps] /\ seq \in 0 .. Cap
  BY NoNumbers, HandlesAssumption
<1>3. /\ \A k \in Cases : layers[k] = << >> /\ saved[k] = NoHandles
      /\ \A t \in Turns : export[t] = NoHandles /\ phase[t] = "unused"
  OBVIOUS
<1>4. TypeOK BY <1>1, <1>2, <1>3 DEF TypeOK, Phases
<1>5. MapsInv BY <1>3, NoNumbers DEF MapsInv
<1>6. CallsInv BY <1>3 DEF CallsInv
<1> QED BY <1>4, <1>5, <1>6 DEF HandlesInv

\* The call's finally appends a layer the Case does not have yet.
LEMMA KeepEffect ==
    ASSUME HandlesInv, NEW t \in Turns, KeepLayers(t)
    PROVE  /\ case[t] \in Cases /\ layers' \in [Cases -> Seq(Layers)]
           /\ \A k \in Cases : k # case[t] => layers'[k] = layers[k]
           /\ \/ layers'[case[t]] = layers[case[t]] /\ \A u \in result[t] : u \in Range(layers[case[t]])
              \/ \E u \in Layers : /\ result[t] = {u} /\ u \notin Range(layers[case[t]])
                                   /\ layers'[case[t]] = Append(layers[case[t]], u)
<1> DEFINE k == case[t]
           s == layers[k]
           new == (result[t] \cap Layers) \ Range(s)
<1>1. /\ phase[t] \in {"called", "emitted"} /\ k \in Cases /\ layers \in [Cases -> Seq(Layers)]
      /\ result[t] = {} \/ \E u \in Layers : result[t] = {u}
  BY DEF KeepLayers, HandlesInv, CallsInv
<1>2. s \in Seq(Layers) BY <1>1
<1>3. layers' = [layers EXCEPT ![k] = s \o SetToSeq(new)] BY DEF KeepLayers
<1>4. layers'[k] = s \o SetToSeq(new) /\ \A j \in Cases : j # k => layers'[j] = layers[j] BY <1>1, <1>3
<1>5. CASE new = {}
  <2>1. s \o SetToSeq(new) = s BY <1>2, <1>5, FewToSeq, ConcatEmptySeq
  <2>2. \A u \in result[t] : u \in Range(s) BY <1>1, <1>5
  <2>3. layers' = layers BY <1>1, <1>3, <2>1
  <2> QED BY <1>1, <1>4, <2>1, <2>2, <2>3
<1>6. CASE new # {}
  <2>1. PICK u \in Layers : result[t] = {u} /\ u \notin Range(s) BY <1>1, <1>6
  <2>2. new = {u} BY <2>1
  <2>3. s \o SetToSeq(new) = Append(s, u) /\ Append(s, u) \in Seq(Layers)
    <3>1. SetToSeq(new) = <<u>> BY <2>2, FewToSeq
    <3> HIDE DEF s, new
    <3>2. Append(s, u) = s \o <<u>> BY <1>2, AppendIsConcat
    <3>3. Append(s, u) \in Seq(Layers) BY <1>2, AppendProperties
    <3> QED BY <3>1, <3>2, <3>3
  <2>4. layers' \in [Cases -> Seq(Layers)] BY <1>1, <1>3, <2>3
  <2> QED BY <1>1, <1>4, <2>1, <2>3, <2>4
<1> QED BY <1>5, <1>6

LEMMA AppendInjects ==
    ASSUME NEW us \in Seq(Layers), IsInjective(us), NEW u \in Layers, u \notin Range(us)
    PROVE  IsInjective(Append(us, u)) /\ Range(Append(us, u)) \subseteq Layers
<1> DEFINE vs == Append(us, u)
           n == Len(us)
<1>1. /\ n \in Nat /\ vs \in Seq(Layers) /\ Len(vs) = n + 1 /\ vs[n + 1] = u
      /\ \A i \in 1 .. n : vs[i] = us[i]
  BY AppendProperties, LenProperties
<1>2. DOMAIN us = 1 .. n BY LenProperties
<1> HIDE DEF vs, n
<1>3. DOMAIN vs = 1 .. n + 1 BY <1>1, LenProperties
<1>4. \A i \in 1 .. n : us[i] # u BY <1>2 DEF Range
<1>5. ASSUME NEW i \in 1 .. n + 1, NEW j \in 1 .. n + 1, vs[i] = vs[j] PROVE i = j
  <2>1. (i \in 1 .. n \/ i = n + 1) /\ (j \in 1 .. n \/ j = n + 1) BY <1>1
  <2> QED BY <1>1, <1>2, <1>4, <1>5, <2>1 DEF IsInjective
<1>6. Range(vs) \subseteq Layers BY <1>1, RangeIs
<1>7. IsInjective(vs) BY <1>3, <1>5 DEF IsInjective
<1> QED BY <1>6, <1>7 DEF vs

LEMMA HandlesStep == HandlesInv /\ [Next]_vars => HandlesInv'
<1> SUFFICES ASSUME HandlesInv, [Next]_vars PROVE HandlesInv' OBVIOUS
<1> USE DEF vars, regVars, turnVars, histVars
<1>0. TypeOK /\ MapsInv /\ CallsInv BY DEF HandlesInv
<1>e. Range(<< >>) = {} /\ << >> \in Seq(Layers) BY DEF Range
<1>s. Sound(Registry) BY RegistrySound
<1>u. \A u \in Layers : u \in Uris BY DEF Uris
<1>1. ASSUME NEW k \in Cases, OpenCase(k) PROVE HandlesInv'
  BY <1>0, <1>1 DEF OpenCase, HandlesInv, TypeOK, MapsInv, CallsInv
<1>2. ASSUME NEW k \in Cases \cup {None}, ClearRegistry(k) PROVE HandlesInv'
  <2>1. number' = NoHandles /\ seq' = 0 /\ dirty' = FALSE BY <1>2, NoNumbers DEF ClearRegistry, SetRegistry
  <2>2. number' \in Maps /\ seq' \in 0 .. Cap /\ Numbers(number', seq')
    BY <2>1, NoNumbers, HandlesAssumption
  <2> QED BY <1>0, <1>2, <2>1, <2>2 DEF ClearRegistry, HandlesInv, TypeOK, MapsInv, CallsInv
<1>3. CASE SeedRegistry
  <2>1. opening \in Cases /\ fetched \in Seq(Layers) BY <1>0, <1>3 DEF SeedRegistry, TypeOK, CallsInv
  <2>2. Numbered(saved[opening]) BY <1>0, <2>1 DEF MapsInv
  <2>3. number' \in Maps /\ seq' \in 0 .. Cap /\ dirty' \in BOOLEAN /\ Numbers(number', seq')
    <3>1. Sound(ReplaceFromLayers(saved[opening], fetched)) /\ Sound(ReplaceFromLayers(NoHandles, fetched))
      BY <2>1, <2>2, NoNumbers, ReplaceSound
    <3> QED BY <1>3, <3>1, RegistrySet DEF SeedRegistry
  <2> QED BY <1>0, <1>3, <1>e, <2>1, <2>3 DEF SeedRegistry, HandlesInv, TypeOK, MapsInv, CallsInv
<1>4. CASE Restart
  <2>1. number' = NoHandles /\ seq' = 0 /\ dirty' = FALSE BY <1>4, NoNumbers DEF Restart, SetRegistry
  <2>2. number' \in Maps /\ seq' \in 0 .. Cap /\ Numbers(number', seq')
    BY <2>1, NoNumbers, HandlesAssumption
  <2>3. export' \in [Turns -> Maps] /\ \A t \in Turns : Numbered(export'[t]) BY <1>4, NoNumbers DEF Restart
  <2> QED BY <1>0, <1>4, <1>e, <2>1, <2>2, <2>3 DEF Restart, HandlesInv, TypeOK, MapsInv, CallsInv, Phases
<1>5. ASSUME NEW t \in Turns,
             StartTurn(t) \/ CallTool(t) \/ ShowResult(t) \/ ShowInventory(t) \/ EndTurn(t)
      PROVE  HandlesInv'
  <2>1. UNCHANGED <<number, seq, dirty, opening, fetched, seeded, layers, saved, export, lost>>
    BY <1>5 DEF StartTurn, CallTool, ShowResult, ShowInventory, EndTurn
  <2>2. MapsInv' BY <1>0, <2>1 DEF MapsInv
  <2>3. shown' \in [Cases -> SUBSET ((1 .. Cap) \X Uris)]
    <3>1. CASE UNCHANGED shown BY <1>0, <3>1 DEF TypeOK
    <3>2. ASSUME NEW us \in SUBSET Uris, Show(t, us) PROVE shown' \in [Cases -> SUBSET ((1 .. Cap) \X Uris)]
      <4>1. \A v \in us : number[v] # 0 => number[v] \in 1 .. Cap
        BY <1>0, HandlesAssumption DEF TypeOK, Maps
      <4>2. HandlesOf(us) \subseteq (1 .. Cap) \X Uris BY <4>1 DEF HandlesOf
      <4> QED BY <1>0, <3>2, <4>2 DEF Show, TypeOK
    <3>3. result[t] \subseteq Uris /\ Layers \subseteq Uris BY <1>0 DEF TypeOK, Uris
    <3> QED BY <1>5, <3>1, <3>2, <3>3 DEF StartTurn, CallTool, ShowResult, ShowInventory, EndTurn
  <2>4. /\ phase' \in [Turns -> Phases] /\ case' \in [Turns -> Cases \cup {None}]
        /\ result' \in [Turns -> SUBSET Uris]
        /\ \A r \in Turns : /\ phase'[r] # "unused" => case'[r] \in Cases
                            /\ phase'[r] = "called" => result'[r] = {}
                            /\ phase'[r] = "emitted" => \E u \in Layers : result'[r] = {u}
    <3>0. /\ phase \in [Turns -> Phases] /\ case \in [Turns -> Cases \cup {None}]
          /\ result \in [Turns -> SUBSET Uris] /\ seeded \in Cases \cup {None}
          /\ \A r \in Turns : /\ phase[r] # "unused" => case[r] \in Cases
                              /\ phase[r] = "called" => result[r] = {}
                              /\ phase[r] = "emitted" => \E u \in Layers : result[r] = {u}
      BY <1>0 DEF TypeOK, CallsInv
    <3>1. CASE StartTurn(t) BY <3>0, <3>1 DEF StartTurn, Go, Phases
    <3>2. CASE CallTool(t) BY <3>0, <3>2 DEF CallTool, Go, Phases
    <3>3. CASE ShowResult(t) BY <3>0, <3>3 DEF ShowResult, Go, Phases
    <3>4. CASE ShowInventory(t) BY <3>0, <3>4 DEF ShowInventory
    <3>5. CASE EndTurn(t) BY <3>0, <3>5 DEF EndTurn, Go, Phases
    <3> QED BY <1>5, <3>1, <3>2, <3>3, <3>4, <3>5
  <2>5. TypeOK' BY <1>0, <2>1, <2>3, <2>4 DEF TypeOK
  <2>6. CallsInv' BY <1>0, <2>1, <2>4 DEF CallsInv
  <2> QED BY <2>2, <2>5, <2>6 DEF HandlesInv
<1>6. ASSUME NEW t \in Turns, NEW u \in Layers, EmitLayer(t, u) PROVE HandlesInv'
  <2>1. Sound(MintShort(Registry, u)) BY <1>s, <1>u, MintGrows DEF Grown
  <2>2. number' \in Maps /\ seq' \in 0 .. Cap /\ dirty' \in BOOLEAN /\ Numbers(number', seq')
    BY <1>6, <2>1, RegistrySet DEF EmitLayer
  <2> QED BY <1>0, <1>6, <1>u, <2>2 DEF EmitLayer, Go, HandlesInv, TypeOK, MapsInv, CallsInv, Phases
<1>7. ASSUME NEW t \in Turns, KeepLayers(t) PROVE HandlesInv'
  <2>1. /\ case[t] \in Cases /\ layers' \in [Cases -> Seq(Layers)]
        /\ \A k \in Cases : k # case[t] => layers'[k] = layers[k]
        /\ \/ layers'[case[t]] = layers[case[t]]
           \/ \E u \in Layers : u \notin Range(layers[case[t]]) /\ layers'[case[t]] = Append(layers[case[t]], u)
    BY <1>7, KeepEffect
  <2>2. \A k \in Cases : Range(layers'[k]) \subseteq Layers /\ IsInjective(layers'[k])
    <3>1. \A k \in Cases : Range(layers[k]) \subseteq Layers /\ IsInjective(layers[k]) /\ layers[k] \in Seq(Layers)
      BY <1>0 DEF TypeOK, CallsInv
    <3>2. CASE layers'[case[t]] = layers[case[t]] BY <2>1, <3>1, <3>2
    <3>3. ASSUME NEW u \in Layers, u \notin Range(layers[case[t]]), layers'[case[t]] = Append(layers[case[t]], u)
          PROVE  \A k \in Cases : Range(layers'[k]) \subseteq Layers /\ IsInjective(layers'[k])
      <4>1. IsInjective(layers'[case[t]]) /\ Range(layers'[case[t]]) \subseteq Layers
        BY <2>1, <3>1, <3>3, AppendInjects
      <4> QED BY <2>1, <3>1, <4>1
    <3> QED BY <2>1, <3>2, <3>3
  <2>3. /\ UNCHANGED <<number, seq, dirty, opening, fetched, seeded, saved, case, result, export, shown, lost>>
        /\ phase' \in [Turns -> Phases]
        /\ \A r \in Turns : phase'[r] = phase[r] \/ (r = t /\ phase'[r] \in {"kept", "thinking"} /\ phase[r] # "unused")
    BY <1>0, <1>7 DEF KeepLayers, Go, TypeOK, Phases
  <2>4. TypeOK' BY <1>0, <2>2, <2>3 DEF TypeOK
  <2>5. MapsInv' BY <1>0, <2>3 DEF MapsInv
  <2>6. CallsInv' BY <1>0, <2>1, <2>3 DEF CallsInv
  <2> QED BY <2>4, <2>5, <2>6 DEF HandlesInv
<1>8. ASSUME NEW t \in Turns, NEW more \in Carried, RegisterResult(t, more) PROVE HandlesInv'
  <2>1. more \in Seq(Uris)
    <3>1. << >> \in Seq(Uris) /\ \A a \in Artifacts : <<a>> \in Seq(Uris) BY DEF Uris
    <3> QED BY <3>1 DEF Carried
  <2> DEFINE reg == MintAll(Registry, more)
  <2>2. Sound(reg) BY <1>s, <2>1, MintAllGrows DEF Grown
  <2>3. SetRegistry(reg) BY <1>8 DEF RegisterResult
  <2>4. /\ UNCHANGED <<opening, fetched, seeded, layers, saved, case, shown, lost>>
        /\ result' = [result EXCEPT ![t] = result[t] \cup Range(more)]
        /\ \/ Go(t, "saving") /\ export' = [export EXCEPT ![t] = reg.map]
           \/ Go(t, "returned") /\ UNCHANGED export
        /\ phase[t] = "kept"
    BY <1>8 DEF RegisterResult
  <2> HIDE DEF reg
  <2>5. number' \in Maps /\ seq' \in 0 .. Cap /\ dirty' \in BOOLEAN /\ Numbers(number', seq')
    BY <2>2, <2>3, RegistrySet
  <2>6. reg.map \in Maps /\ Numbered(reg.map) BY <2>2 DEF Sound, Registries, Numbered
  <2>7. result' \in [Turns -> SUBSET Uris] BY <1>0, <2>1, <2>4, RangeIs DEF TypeOK
  <2>8. phase' \in [Turns -> Phases] /\ \A r \in Turns : phase'[r] = phase[r] \/ (r = t /\ phase'[r] \in {"saving", "returned"})
    BY <1>0, <2>4 DEF Go, TypeOK, Phases
  <2>9. export' \in [Turns -> Maps] /\ \A r \in Turns : Numbered(export'[r]) BY <1>0, <2>4, <2>6 DEF TypeOK, MapsInv
  <2>10. TypeOK' BY <1>0, <2>4, <2>5, <2>7, <2>8, <2>9 DEF TypeOK
  <2>11. MapsInv' BY <1>0, <2>4, <2>5, <2>9 DEF MapsInv
  <2>12. CallsInv'
    <3>1. \A r \in Turns : r # t => result'[r] = result[r] BY <1>0, <2>4 DEF TypeOK
    <3> QED BY <1>0, <2>4, <2>8, <3>1 DEF CallsInv
  <2> QED BY <2>10, <2>11, <2>12 DEF HandlesInv
<1>9. ASSUME NEW t \in Turns, SaveHandles(t) PROVE HandlesInv'
  <2>1. /\ UNCHANGED <<number, seq, opening, fetched, seeded, layers, case, result, shown>>
        /\ dirty' \in BOOLEAN /\ phase[t] = "saving" /\ case[t] \in Cases /\ lost' \in SUBSET Cases
        /\ phase' = [phase EXCEPT ![t] = "returned"] /\ export' = [export EXCEPT ![t] = NoHandles]
        /\ saved' \in {saved, [saved EXCEPT ![case[t]] = export[t]]}
    BY <1>0, <1>9 DEF SaveHandles, Go, TypeOK, CallsInv
  <2>2. saved' \in [Cases -> Maps] /\ \A k \in Cases : Numbered(saved'[k])
    BY <1>0, <2>1 DEF TypeOK, MapsInv
  <2>3. export' \in [Turns -> Maps] /\ \A r \in Turns : Numbered(export'[r])
    BY <1>0, <2>1, NoNumbers DEF TypeOK, MapsInv
  <2>4. phase' \in [Turns -> Phases] BY <1>0, <2>1 DEF TypeOK, Phases
  <2>5. TypeOK' BY <1>0, <2>1, <2>2, <2>3, <2>4 DEF TypeOK
  <2>6. MapsInv' BY <1>0, <2>1, <2>2, <2>3 DEF MapsInv
  <2>7. CallsInv' BY <1>0, <2>1 DEF CallsInv, TypeOK
  <2> QED BY <2>5, <2>6, <2>7 DEF HandlesInv
<1>10. CASE UNCHANGED vars BY <1>0, <1>10 DEF HandlesInv, TypeOK, MapsInv, CallsInv
<1> QED BY <1>1, <1>2, <1>3, <1>4, <1>5, <1>6, <1>7, <1>8, <1>9, <1>10 DEF Next, TurnStep

\* Types of the registry, the saved maps and the calls, whatever overlaps or fails.
THEOREM TypeCorrect == Spec => []TypeOK
<1>1. Spec => []HandlesInv BY HandlesInit, HandlesStep, PTL DEF Spec
<1> QED BY <1>1, PTL DEF HandlesInv

(* For any number of Cases, turns, uris and any cap, whatever overlaps and whatever
   reads and saves fail, no two uris share a number, in the registry or in a saved map
   (SessionUriRegistry._mint_short, import_short_handles). *)
THEOREM NumbersAreDistinct == Spec => []HandlesDistinct
<1>1. HandlesInv => HandlesDistinct
  BY DEF HandlesInv, MapsInv, Numbered, Numbers, HandlesDistinct
<1> QED BY <1>1, HandlesInit, HandlesStep, PTL DEF Spec
-----------------------------------------------------------------------------
\* The map determines the counter, and with it what a mint does to the map.
LEMMA SameMint ==
    ASSUME NEW a, NEW b, Sound(a), Sound(b), a.map = b.map
    PROVE  a.seq = b.seq /\ \A u \in Uris : MintShort(a, u).map = MintShort(b, u).map
<1>1. a.seq = b.seq BY NumberedCount DEF Sound
<1> QED BY <1>1, MintIs

LEMMA ReopenedSound ==
    ASSUME HandlesInv, NEW k \in Cases
    PROVE  Sound(Reopened(k)) /\ Covers(Reopened(k).map, Reopened(k).seq, layers[k])
<1>1. Numbered(saved[k]) /\ layers[k] \in Seq(Layers) BY DEF HandlesInv, MapsInv, CallsInv
<1> QED BY <1>1, ReplaceSound DEF Reopened

\* What was shown stays true while the maps only grow.
LEMMA ShownGrows ==
    ASSUME HandlesInv, ShownInv, UNCHANGED shown, lost \subseteq lost',
           \A k \in Cases \ lost' : Keeps(Reopened(k).map, Reopened(k)'.map)
    PROVE  ShownInv'
<1> SUFFICES ASSUME NEW k \in Cases \ lost', NEW h \in shown[k] PROVE Reopened(k)'.map[h[2]] = h[1]
  BY DEF ShownInv
<1>1. h[1] \in 1 .. Cap /\ h[2] \in Uris BY DEF HandlesInv, TypeOK
<1>2. Reopened(k).map[h[2]] = h[1] /\ h[1] # 0 BY <1>1, HandlesAssumption DEF ShownInv
<1> QED BY <1>1, <1>2 DEF Keeps

LEMMA LoneInit == Init => LoneInv
<1> SUFFICES ASSUME Init PROVE LoneInv OBVIOUS
<1>1. /\ opening = None /\ seeded = None /\ (\A k \in Cases : shown[k] = {})
      /\ \A t \in Turns : phase[t] = "unused"
  BY DEF Init
<1> QED BY <1>1 DEF LoneInv, LoneTurn, ShownInv, RegistryInv, Running

\* A turn alone: what is known of the registry, by the phase of its call.
LEMMA AloneFacts ==
    ASSUME HandlesInv, LoneInv, NEW t \in Turns, Running(t)
    PROVE  /\ case[t] = seeded /\ seeded \in Cases /\ seeded # None /\ opening = None
           /\ \A r \in Turns : r # t => phase[r] = "unused"
           /\ seeded \notin lost /\ phase[t] \notin {"emitted", "saving"} => number = Reopened(seeded).map
<1>1. case[t] = seeded /\ seeded \in Cases /\ opening = None
  BY DEF HandlesInv, CallsInv, LoneInv, LoneTurn, Running
<1>2. seeded # None BY <1>1, HandlesAssumption
<1>3. \A r \in Turns : r # t => phase[r] = "unused" BY DEF LoneInv, LoneTurn, Running
<1> QED BY <1>1, <1>2, <1>3 DEF LoneInv, RegistryInv

\* A turn goes on alone.
LEMMA StaysAlone ==
    ASSUME HandlesInv, LoneInv, NEW t \in Turns, Running(t), UNCHANGED <<opening, fetched, seeded, case>>,
           \A r \in Turns : r # t => phase'[r] = phase[r]
    PROVE  LoneTurn'
<1>1. \A r \in Turns : Running(r)' => r = t BY AloneFacts DEF Running
<1>2. opening = None /\ case[t] = seeded BY AloneFacts
<1> QED BY <1>1, <1>2 DEF LoneTurn

\* Steps that leave the maps, the layers and what was shown alone.
LEMMA ShownStays ==
    ASSUME ShownInv, UNCHANGED <<saved, layers, shown>>, lost \subseteq lost'
    PROVE  ShownInv'
BY DEF ShownInv, Reopened

\* A turn shows handles from a registry that is what reopening would make it.
LEMMA ShowStep ==
    ASSUME HandlesInv, LoneInv, NEW t \in Turns, Running(t), phase[t] \notin {"emitted", "saving"},
           NEW us \in SUBSET Uris, Show(t, us), UNCHANGED <<saved, layers, lost>>
    PROVE  ShownInv'
<1> SUFFICES ASSUME NEW k \in Cases \ lost, NEW h \in shown'[k] PROVE Reopened(k).map[h[2]] = h[1]
  BY DEF ShownInv, Reopened
<1>1. case[t] = seeded /\ seeded \in Cases /\ (seeded \notin lost => number = Reopened(seeded).map)
  BY AloneFacts
<1>2. h \in shown[k] \/ (k = seeded /\ h \in HandlesOf(us))
  BY <1>1 DEF Show, HandlesInv, TypeOK
<1>3. CASE h \in shown[k] BY <1>3 DEF LoneInv, ShownInv
<1>4. CASE k = seeded /\ h \in HandlesOf(us)
  <2>1. PICK u \in us : h = <<number[u], u>> BY <1>4 DEF HandlesOf
  <2>2. h[1] = number[u] /\ h[2] = u BY <2>1
  <2> QED BY <1>1, <1>4, <2>2
<1> QED BY <1>2, <1>3, <1>4

\* The layer of a call is kept: reopening now gives it the number the call did.
LEMMA KeepStep ==
    ASSUME HandlesInv, LoneInv, NEW t \in Turns, KeepLayers(t)
    PROVE  LoneInv'
<1>0. Running(t) /\ phase[t] \in {"called", "emitted"} BY DEF KeepLayers, Running
<1>k. PICK k \in Cases : k = seeded BY <1>0, AloneFacts
<1>1. case[t] = k /\ k \in Cases /\ opening = None BY <1>0, <1>k, AloneFacts
<1>2. /\ UNCHANGED <<number, seq, dirty, opening, fetched, seeded, saved, case, result, export, shown, lost>>
      /\ phase'[t] \in {"kept", "thinking"} /\ \A r \in Turns : r # t => phase'[r] = phase[r]
  BY DEF KeepLayers, Go, regVars, histVars, HandlesInv, TypeOK
<1>3. LoneTurn' BY <1>0, <1>2, StaysAlone
<1>4. /\ \A j \in Cases : j # k => layers'[j] = layers[j]
      /\ \/ layers'[k] = layers[k] /\ \A u \in result[t] : u \in Range(layers[k])
         \/ \E u \in Layers : result[t] = {u} /\ layers'[k] = Append(layers[k], u)
  BY <1>1, KeepEffect
<1>5. Sound(Reopened(k)) /\ Covers(Reopened(k).map, Reopened(k).seq, layers[k]) /\ layers[k] \in Seq(Layers)
  BY <1>1, ReopenedSound DEF HandlesInv, CallsInv
<1>6. Keeps(Reopened(k).map, Reopened(k)'.map) /\ (k \notin lost => number = Reopened(k)'.map)
  <2>1. CASE layers'[k] = layers[k] /\ \A u \in result[t] : u \in Range(layers[k])
    <3>1. Reopened(k)' = Reopened(k) BY <1>2, <2>1 DEF Reopened
    <3>2. ASSUME k \notin lost PROVE number = Reopened(k).map
      <4>1. CASE phase[t] = "called" BY <1>0, <1>k, <3>2, <4>1, AloneFacts
      <4>2. CASE phase[t] = "emitted"
        <5>1. PICK u \in Layers : result[t] = {u} BY <4>2 DEF HandlesInv, CallsInv
        <5>2. number = MintShort(Reopened(k), u).map BY <1>k, <3>2, <4>2, <5>1, HandlesAssumption DEF LoneInv, RegistryInv
        <5>3. u \in Range(layers[k]) BY <2>1, <5>1
        <5>4. Reopened(k).map[u] # 0 \/ Reopened(k).seq = Cap BY <1>5, <5>3, RangeIs DEF Covers
        <5>5. u \in Uris BY DEF Uris
        <5> QED BY <1>5, <5>2, <5>4, <5>5, MintGrows
      <4> QED BY <1>0, <4>1, <4>2
    <3> QED BY <3>1, <3>2 DEF Keeps
  <2>2. ASSUME NEW u \in Layers, result[t] = {u}, layers'[k] = Append(layers[k], u)
        PROVE  Keeps(Reopened(k).map, Reopened(k)'.map) /\ (k \notin lost => number = Reopened(k)'.map)
    <3>1. layers[k] \in Seq(Uris) /\ u \in Uris BY <1>5, SeqMonotonic DEF Uris
    <3>2. Reopened(k)' = MintShort(Reopened(k), u)
      <4>1. Reopened(k)' = MintAll(ImportShortHandles(saved[k]), Append(layers[k], u))
        BY <1>2, <2>2 DEF Reopened, ReplaceFromLayers
      <4>2. Reopened(k) = MintAll(ImportShortHandles(saved[k]), layers[k]) BY DEF Reopened, ReplaceFromLayers
      <4>3. \A reg : MintAll(reg, Append(layers[k], u)) = MintShort(MintAll(reg, layers[k]), u)
        BY <3>1, MintAllSteps
      <4> QED BY <4>1, <4>2, <4>3
    <3>3. phase[t] = "emitted" BY <1>0, <2>2 DEF HandlesInv, CallsInv
    <3>4. k \notin lost => number = MintShort(Reopened(k), u).map
      BY <1>k, <2>2, <3>3, HandlesAssumption DEF LoneInv, RegistryInv
    <3>5. Keeps(Reopened(k).map, MintShort(Reopened(k), u).map) BY <1>5, <3>1, MintGrows DEF Grown
    <3> QED BY <3>2, <3>4, <3>5
  <2> QED BY <1>4, <2>1, <2>2
<1>7. \A j \in Cases : Keeps(Reopened(j).map, Reopened(j)'.map)
  <2> SUFFICES ASSUME NEW j \in Cases PROVE Keeps(Reopened(j).map, Reopened(j)'.map) OBVIOUS
  <2>1. CASE j = k BY <1>6, <2>1
  <2>2. CASE j # k
    <3>1. Reopened(j)' = Reopened(j) BY <1>2, <1>4, <2>2 DEF Reopened
    <3> QED BY <3>1 DEF Keeps
  <2> QED BY <2>1, <2>2
<1>8. ShownInv' BY <1>2, <1>7, ShownGrows DEF LoneInv
<1>9. RegistryInv'
  <2>1. \A r \in Turns : phase'[r] \notin {"emitted", "saving"} BY <1>0, <1>2, AloneFacts
  <2>2. seeded' = k /\ Reopened(seeded)' = Reopened(k)' BY <1>k, <1>2 DEF Reopened
  <2> QED BY <1>2, <1>6, <2>1, <2>2 DEF RegistryInv
<1> QED BY <1>3, <1>8, <1>9 DEF LoneInv

\* A call mints a number for its layer.
LEMMA EmitStep ==
    ASSUME HandlesInv, LoneInv, NEW t \in Turns, NEW u \in Layers, EmitLayer(t, u)
    PROVE  LoneInv'
<1>0. Running(t) /\ phase[t] = "called" BY DEF EmitLayer, Running
<1>1. /\ UNCHANGED <<opening, fetched, seeded, layers, saved, case, export, shown, lost>>
      /\ result'[t] = {u} /\ phase'[t] = "emitted" /\ \A r \in Turns : r # t => phase'[r] = phase[r]
  BY DEF EmitLayer, Go, histVars, HandlesInv, TypeOK
<1>2. LoneTurn' BY <1>0, <1>1, StaysAlone
<1>3. ShownInv' BY <1>1, ShownStays DEF LoneInv
<1>4. RegistryInv'
  <2>1. /\ seeded \in Cases /\ (\A r \in Turns : r # t => phase[r] = "unused")
        /\ seeded \notin lost => number = Reopened(seeded).map
    BY <1>0, AloneFacts
  <2>2. seeded \notin lost => number' = MintShort(Reopened(seeded), u).map
    <3>1. number' = MintShort(Registry, u).map BY DEF EmitLayer, SetRegistry
    <3>2. Sound(Registry) /\ Sound(Reopened(seeded)) /\ Registry.map = number
      BY <2>1, RegistrySound, ReopenedSound DEF Registry
    <3>3. u \in Uris BY DEF Uris
    <3> QED BY <2>1, <3>1, <3>2, <3>3, SameMint
  <2>3. Reopened(seeded)' = Reopened(seeded) BY <1>1 DEF Reopened
  <2> QED BY <1>1, <2>1, <2>2, <2>3 DEF RegistryInv
<1> QED BY <1>2, <1>3, <1>4 DEF LoneInv

\* Its result is registered, and exported if anything was minted since the last save.
LEMMA RegisterStep ==
    ASSUME HandlesInv, LoneInv, NEW t \in Turns, NEW more \in Seq(Uris), RegisterResult(t, more)
    PROVE  LoneInv'
<1> DEFINE reg == MintAll(Registry, more)
<1>0. Running(t) /\ phase[t] = "kept" BY DEF RegisterResult, Running
<1>1. /\ UNCHANGED <<opening, fetched, seeded, layers, saved, case, shown, lost>>
      /\ number' = reg.map /\ seq' = reg.seq
      /\ \A r \in Turns : r # t => phase'[r] = phase[r]
      /\ IF reg.dirty THEN phase'[t] = "saving" /\ export'[t] = reg.map ELSE phase'[t] = "returned"
  BY DEF RegisterResult, SetRegistry, Go, histVars, HandlesInv, TypeOK
<1>2. Grown(Registry, reg) /\ Sound(Registry) BY RegistrySound, MintAllGrows
<1> HIDE DEF reg
<1>3. LoneTurn' BY <1>0, <1>1, StaysAlone
<1>4. ShownInv' BY <1>1, ShownStays DEF LoneInv
<1>5. /\ seeded \in Cases /\ (\A r \in Turns : r # t => phase[r] = "unused")
      /\ seeded \notin lost => number = Reopened(seeded).map
  BY <1>0, AloneFacts
<1>6. Reopened(seeded)' = Reopened(seeded) BY <1>1 DEF Reopened
<1>7. Registry.map = number /\ Registry.seq = seq BY DEF Registry
<1>8. CASE ~reg.dirty
  <2>1. number' = number BY <1>1, <1>2, <1>7, <1>8 DEF Grown
  <2> QED BY <1>1, <1>3, <1>4, <1>5, <1>6, <1>8, <2>1 DEF LoneInv, RegistryInv
<1>9. CASE reg.dirty
  <2>1. ASSUME seeded \notin lost
        PROVE  Keeps(Reopened(seeded).map, number') /\ Covers(number', seq', layers[seeded])
    <3>1. Keeps(number, number') BY <1>1, <1>2, <1>7 DEF Grown
    <3>2. number = Reopened(seeded).map BY <1>5, <2>1
    <3>3. Sound(Reopened(seeded)) /\ Covers(Reopened(seeded).map, Reopened(seeded).seq, layers[seeded])
      BY <1>5, ReopenedSound
    <3>4. Reopened(seeded).seq = seq BY <1>2, <1>7, <3>2, <3>3, SameMint
    <3>5. \A i \in 1 .. Len(layers[seeded]) : layers[seeded][i] \in Uris
      BY <1>5, ElementOfSeq DEF HandlesInv, CallsInv, Uris
    <3>6. seq = Cap => seq' = Cap BY <1>1, <1>2, <1>7 DEF Grown
    <3>7. Covers(number, seq, layers[seeded]) BY <3>2, <3>3, <3>4
    <3>8. Covers(number', seq', layers[seeded]) BY <3>1, <3>5, <3>6, <3>7 DEF Covers, Keeps
    <3> QED BY <3>1, <3>2, <3>8
  <2> QED BY <1>1, <1>3, <1>4, <1>5, <1>6, <1>9, <2>1 DEF LoneInv, RegistryInv
<1> QED BY <1>8, <1>9

\* The map is saved: reopening now gives the registry as it is.
LEMMA SaveStep ==
    ASSUME HandlesInv, LoneInv, NEW t \in Turns, SaveHandles(t)
    PROVE  LoneInv'
<1>0. Running(t) /\ phase[t] = "saving" BY DEF SaveHandles, Running
<1>k. PICK k \in Cases : k = seeded BY <1>0, AloneFacts
<1>1. /\ UNCHANGED <<number, seq, opening, fetched, seeded, layers, case, result, shown>>
      /\ phase'[t] = "returned" /\ \A r \in Turns : r # t => phase'[r] = phase[r]
  BY DEF SaveHandles, Go, HandlesInv, TypeOK
<1>2. LoneTurn' BY <1>0, <1>1, StaysAlone
<1>3. case[t] = k /\ \A r \in Turns : r # t => phase[r] = "unused" BY <1>0, <1>k, AloneFacts
<1>4. \A r \in Turns : phase'[r] \notin {"emitted", "saving"} BY <1>1, <1>3
<1>5. Reopened(seeded)' = Reopened(k)' BY <1>k, <1>1 DEF Reopened
<1>6. CASE lost' = lost \cup {case[t]} /\ UNCHANGED saved
  <2>1. ShownInv' BY <1>1, <1>6, ShownStays DEF LoneInv
  <2> QED BY <1>k, <1>1, <1>2, <1>3, <1>6, <2>1 DEF LoneInv, RegistryInv
<1>7. CASE lost' = lost /\ saved' = [saved EXCEPT ![case[t]] = export[t]]
  <2>1. saved'[k] = export[t] /\ \A j \in Cases : j # k => saved'[j] = saved[j]
    BY <1>3, <1>7 DEF HandlesInv, TypeOK
  <2>2. ASSUME k \notin lost
        PROVE  Reopened(k)'.map = number /\ Keeps(Reopened(k).map, number)
    <3>1. export[t] = number /\ Keeps(Reopened(k).map, number) /\ Covers(number, seq, layers[k])
      BY <1>0, <1>k, <2>2, HandlesAssumption DEF LoneInv, RegistryInv
    <3> DEFINE reg == ImportShortHandles(number)
    <3>2. reg = [map |-> number, seq |-> seq, dirty |-> FALSE] /\ Sound(reg)
      BY ImportIs DEF HandlesInv, MapsInv
    <3>3. Reopened(k)' = MintAll(reg, layers[k]) BY <1>1, <2>1, <3>1 DEF Reopened, ReplaceFromLayers
    <3>4. layers[k] \in Seq(Uris)
      <4>1. layers[k] \in Seq(Layers) /\ Layers \subseteq Uris BY DEF HandlesInv, CallsInv, Uris
      <4> QED BY <4>1, SeqMonotonic
    <3> HIDE DEF reg
    <3>5. reg.map = number /\ reg.seq = seq BY <3>2
    <3>6. MintAll(reg, layers[k]) = reg BY <3>1, <3>2, <3>4, <3>5, MintAllGrows
    <3> QED BY <3>1, <3>3, <3>5, <3>6
  <2>3. \A j \in Cases \ lost' : Keeps(Reopened(j).map, Reopened(j)'.map)
    <3> SUFFICES ASSUME NEW j \in Cases \ lost' PROVE Keeps(Reopened(j).map, Reopened(j)'.map) OBVIOUS
    <3>1. CASE j = k BY <1>7, <2>2, <3>1
    <3>2. CASE j # k
      <4>1. Reopened(j)' = Reopened(j) BY <1>1, <2>1, <3>2 DEF Reopened
      <4> QED BY <4>1 DEF Keeps
    <3> QED BY <3>1, <3>2
  <2>4. ShownInv' BY <1>1, <1>7, <2>3, ShownGrows DEF LoneInv
  <2>5. RegistryInv' BY <1>k, <1>1, <1>4, <1>5, <1>7, <2>2 DEF RegistryInv
  <2> QED BY <1>2, <2>4, <2>5 DEF LoneInv
<1> QED BY <1>6, <1>7 DEF SaveHandles

LEMMA LoneStep ==
    ASSUME Overlap = FALSE
    PROVE  HandlesInv /\ LoneInv /\ [Next]_vars => LoneInv'
<1> SUFFICES ASSUME HandlesInv, LoneInv, [Next]_vars PROVE LoneInv' OBVIOUS
<1>0. LoneTurn /\ ShownInv /\ RegistryInv BY DEF LoneInv
<1>1. ASSUME NEW k \in Cases, OpenCase(k) PROVE LoneInv'
  <2>1. /\ UNCHANGED <<number, seq, seeded, layers, saved, phase, case, result, export, shown, lost>>
        /\ opening' = k /\ fetched' = layers[k] /\ \A t \in Turns : ~Running(t)
    BY <1>1 DEF OpenCase, Quiet, regVars, turnVars, histVars
  <2>2. LoneTurn' BY <2>1 DEF LoneTurn, Running
  <2>3. ShownInv' BY <1>0, <2>1, ShownStays
  <2>4. RegistryInv' BY <1>0, <2>1 DEF RegistryInv, Reopened
  <2> QED BY <2>2, <2>3, <2>4 DEF LoneInv
<1>2. ASSUME NEW k \in Cases \cup {None}, ClearRegistry(k) PROVE LoneInv'
  <2>1. /\ UNCHANGED <<opening, fetched, layers, saved, phase, case, result, export, shown, lost>>
        /\ seeded' = k /\ number' = NoHandles /\ opening = None /\ \A t \in Turns : ~Running(t)
    BY <1>2, NoNumbers DEF ClearRegistry, SetRegistry, Quiet, turnVars, histVars
  <2>2. LoneTurn' BY <2>1 DEF LoneTurn, Running
  <2>3. ShownInv' BY <1>0, <2>1, ShownStays
  <2>4. k # None => Reopened(k)'.map = NoHandles
    <3> SUFFICES ASSUME k # None PROVE Reopened(k)'.map = NoHandles OBVIOUS
    <3>1. layers'[k] = << >> /\ saved'[k] = NoHandles BY <1>2, <2>1 DEF ClearRegistry
    <3>2. Reopened(k)' = ImportShortHandles(NoHandles) BY <3>1, MintAllSteps DEF Reopened, ReplaceFromLayers
    <3> QED BY <3>2, NoNumbers
  <2>5. Reopened(seeded)' = Reopened(k)' BY <2>1 DEF Reopened
  <2>6. RegistryInv' BY <2>1, <2>4, <2>5 DEF RegistryInv, Running
  <2> QED BY <2>2, <2>3, <2>6 DEF LoneInv
<1>3. CASE SeedRegistry
  <2>1. /\ UNCHANGED <<layers, saved, phase, case, result, export, shown>>
        /\ seeded' = opening /\ opening' = None /\ opening # None /\ lost \subseteq lost'
    BY <1>3 DEF SeedRegistry, turnVars
  <2>2. (\A t \in Turns : ~Running(t)) /\ fetched = layers[opening] BY <1>0, <2>1 DEF LoneTurn
  <2>3. LoneTurn' BY <2>1, <2>2 DEF LoneTurn, Running
  <2>4. ShownInv' BY <1>0, <2>1, ShownStays
  <2>5. opening \notin lost' => number' = ReplaceFromLayers(saved[opening], fetched).map
    BY <1>3 DEF SeedRegistry, SetRegistry
  <2>6. Reopened(seeded)' = ReplaceFromLayers(saved[opening], layers[opening]) BY <2>1 DEF Reopened
  <2>7. RegistryInv' BY <2>1, <2>2, <2>5, <2>6 DEF RegistryInv, Running
  <2> QED BY <2>3, <2>4, <2>7 DEF LoneInv
<1>4. CASE Restart
  <2>1. /\ UNCHANGED <<layers, saved, shown, lost>> /\ seeded' = None /\ opening' = None
        /\ \A t \in Turns : phase'[t] = "unused"
    BY <1>4 DEF Restart, histVars
  <2>2. LoneTurn' BY <2>1 DEF LoneTurn, Running
  <2>3. ShownInv' BY <1>0, <2>1, ShownStays
  <2> QED BY <2>1, <2>2, <2>3 DEF LoneInv, RegistryInv
<1>5. ASSUME NEW t \in Turns, StartTurn(t) PROVE LoneInv'
  <2>1. /\ UNCHANGED <<number, seq, opening, fetched, seeded, layers, saved, result, export, shown, lost>>
        /\ (\A r \in Turns : phase[r] = "unused") /\ opening = None
        /\ phase'[t] = "thinking" /\ (\A r \in Turns : r # t => phase'[r] = "unused") /\ case'[t] = seeded
    BY <1>5 DEF StartTurn, Quiet, Running, Go, regVars, histVars, HandlesInv, TypeOK
  <2>2. LoneTurn' BY <2>1 DEF LoneTurn, Running
  <2>3. ShownInv' BY <1>0, <2>1, ShownStays
  <2>4. RegistryInv' BY <1>0, <2>1 DEF RegistryInv, Reopened
  <2> QED BY <2>2, <2>3, <2>4 DEF LoneInv
<1>6. ASSUME NEW t \in Turns, CallTool(t) \/ ShowResult(t) \/ ShowInventory(t) \/ EndTurn(t) PROVE LoneInv'
  <2>1. /\ UNCHANGED <<number, seq, opening, fetched, seeded, layers, saved, export, lost>>
        /\ phase[t] \in {"thinking", "returned"} /\ phase'[t] \in {"unused", "thinking", "called"}
        /\ \A r \in Turns : r # t => phase'[r] = phase[r] /\ case'[r] = case[r]
        /\ phase'[t] # "unused" => case'[t] = case[t]
    BY <1>6 DEF CallTool, ShowResult, ShowInventory, EndTurn, Go, regVars, turnVars, histVars, HandlesInv, TypeOK
  <2>2. Running(t) /\ phase[t] \notin {"emitted", "saving"} BY <2>1 DEF Running
  <2>3. /\ case[t] = seeded /\ opening = None /\ (\A r \in Turns : r # t => phase[r] = "unused")
        /\ seeded \notin lost => number = Reopened(seeded).map
    BY <2>2, AloneFacts
  <2>4. LoneTurn' BY <2>1, <2>3 DEF LoneTurn, Running
  <2>5. ShownInv'
    <3>1. CASE UNCHANGED shown BY <1>0, <2>1, <3>1, ShownStays
    <3>2. ASSUME NEW us \in SUBSET Uris, Show(t, us) PROVE ShownInv' BY <2>1, <2>2, <3>2, ShowStep
    <3>3. result[t] \subseteq Uris /\ Layers \subseteq Uris BY DEF HandlesInv, TypeOK, Uris
    <3> QED BY <1>6, <3>1, <3>2, <3>3 DEF CallTool, ShowResult, ShowInventory, EndTurn, histVars
  <2>6. RegistryInv' BY <2>1, <2>3 DEF RegistryInv, Reopened
  <2> QED BY <2>4, <2>5, <2>6 DEF LoneInv
<1>7. ASSUME NEW t \in Turns, NEW more \in Carried, RegisterResult(t, more) PROVE LoneInv'
  <2>1. << >> \in Seq(Uris) /\ \A a \in Artifacts : <<a>> \in Seq(Uris) BY DEF Uris
  <2>2. more \in Seq(Uris) BY <2>1 DEF Carried
  <2> QED BY <1>7, <2>2, RegisterStep
<1>8. CASE UNCHANGED vars
  BY <1>0, <1>8 DEF vars, regVars, turnVars, histVars, LoneInv, LoneTurn, ShownInv, RegistryInv, Reopened, Running
<1> QED BY <1>1, <1>2, <1>3, <1>4, <1>5, <1>6, <1>7, <1>8, EmitStep, KeepStep, SaveStep DEF Next, TurnStep

(* One turn at a time, for any number of Cases, uris, turns and any cap: a handle the
   model was shown names the same uri whenever the registry is seeded for its Case,
   across calls that fail, Case switches, reconnects, restarts between a mint and its
   save, and the cap; a failed read or save of the Case's own map alone ends it
   (SessionUriRegistry, _seed_registry_for_case, _persist_case_layer_handles). *)
THEOREM HandlesKeepTheirMeaning ==
    ASSUME Overlap = FALSE
    PROVE  Spec => []ShownHandlesResolve
<1>1. HandlesInv /\ LoneInv => ShownHandlesResolve
  <2> SUFFICES ASSUME HandlesInv, LoneInv, seeded \notin lost \cup {None}, NEW h \in shown[seeded]
               PROVE  number[h[2]] = h[1]
    BY DEF ShownHandlesResolve
  <2>1. seeded \in Cases \ lost /\ h[2] \in Uris /\ h[1] \in 1 .. Cap BY DEF HandlesInv, TypeOK
  <2>2. Reopened(seeded).map[h[2]] = h[1] /\ h[1] # 0 BY <2>1, HandlesAssumption DEF LoneInv, ShownInv
  <2>3. Sound(Reopened(seeded)) BY <2>1, ReopenedSound
  <2>4. Keeps(Reopened(seeded).map, number)
    <3>1. CASE \A t \in Turns : phase[t] \notin {"emitted", "saving"} BY <3>1 DEF LoneInv, RegistryInv, Keeps
    <3>2. ASSUME NEW t \in Turns, phase[t] = "saving" PROVE Keeps(Reopened(seeded).map, number)
      BY <3>2 DEF LoneInv, RegistryInv
    <3>3. ASSUME NEW t \in Turns, phase[t] = "emitted" PROVE Keeps(Reopened(seeded).map, number)
      <4>1. PICK u \in Layers : result[t] = {u} BY <3>3 DEF HandlesInv, CallsInv
      <4>2. number = MintShort(Reopened(seeded), u).map BY <3>3, <4>1 DEF LoneInv, RegistryInv
      <4>3. u \in Uris BY DEF Uris
      <4> QED BY <2>3, <4>2, <4>3, MintGrows DEF Grown
    <3> QED BY <3>1, <3>2, <3>3
  <2> QED BY <2>1, <2>2, <2>4 DEF Keeps
<1> QED BY <1>1, HandlesInit, HandlesStep, LoneInit, LoneStep, PTL DEF Spec
=============================================================================
