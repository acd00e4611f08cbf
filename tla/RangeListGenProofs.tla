-------------------------- MODULE RangeListGenProofs --------------------------
(***************************************************************************)
(* The generator for every file size, degree of parallelism and block size. *)
(* Two facts about one call carry everything: a call of GenRange begins     *)
(* where the generator stands and moves it forward to the end of the range  *)
(* it returns, and that end stays inside the file.  The default mode needs  *)
(* to know how far its blocks reach, which is what Sized says.              *)
(***************************************************************************)
EXTENDS RangeListGen, TLAPS

\* In the default mode a generator that is not done either has not chosen its
\* block size yet, or stands at a multiple of a block size that fits.
Sized(g) ==
  g.mode = "default" =>
    /\ g.parallel \in Nat \ {0} /\ g.parallel <= g.total
    /\ \/ g.begin = g.total
       \/ g.begin = 0 /\ g.count = 0 /\ g.blockSize = 0
       \/ /\ g.blockSize \in Nat \ {0}
          /\ g.blockSize * g.parallel <= g.total
          /\ g.count < g.parallel
          /\ g.begin = g.count * g.blockSize

GenInv ==
  /\ first \in Gens /\ gen \in Gens
  /\ first.begin <= gen.begin /\ gen.begin <= gen.total
  /\ Sized(gen)

\* What was handed out lies behind the generator.
IssuedInv ==
  /\ issued \subseteq Ranges
  /\ \A r \in issued : r.begin < r.end /\ r.end <= gen.begin
  /\ IssuedIsPrefix /\ IssuedDisjoint

IInv == GenInv /\ IssuedInv

-------------------------------------------------------------------------------
(* One call *)

\* The block size that the default mode chooses is positive, and that many
\* bytes per range do not run past the file.
LEMMA DivFits ==
  ASSUME NEW t \in Nat, NEW p \in Nat \ {0}, p <= t
  PROVE  t \div p \in Nat \ {0} /\ (t \div p) * p <= t
  OBVIOUS

LEMMA MoreBlocks ==
  ASSUME NEW a \in Nat, NEW b \in Nat, a <= b, NEW s \in Nat
  PROVE  a * s <= b * s
  OBVIOUS

\* What the two updates of a generator leave alone.
MovedTo(g, b, c) == [g EXCEPT !.begin = b, !.count = c]

LEMMA Moved ==
  ASSUME NEW g \in Gens, NEW b \in Nat, NEW c \in Nat
  PROVE  /\ MovedTo(g, b, c) \in Gens
         /\ MovedTo(g, b, c).begin = b /\ MovedTo(g, b, c).count = c
         /\ MovedTo(g, b, c).mode = g.mode /\ MovedTo(g, b, c).total = g.total
         /\ MovedTo(g, b, c).parallel = g.parallel
         /\ MovedTo(g, b, c).blockSize = g.blockSize
  BY DEF Gens, MovedTo

SizedTo(g, p, s) == [g EXCEPT !.parallel = p, !.blockSize = s]

LEMMA Resized ==
  ASSUME NEW g \in Gens, NEW p \in Int, NEW s \in Int
  PROVE  /\ SizedTo(g, p, s) \in Gens
         /\ SizedTo(g, p, s).parallel = p /\ SizedTo(g, p, s).blockSize = s
         /\ SizedTo(g, p, s).mode = g.mode /\ SizedTo(g, p, s).total = g.total
         /\ SizedTo(g, p, s).begin = g.begin /\ SizedTo(g, p, s).count = g.count
  BY DEF Gens, SizedTo

\* The repair of the fields moves nothing and leaves a usable block size.
LEMMA RepairedIsSized ==
  ASSUME NEW g \in Gens, g.begin <= g.total, Sized(g)
  PROVE  LET r == Repaired(g)
         IN  /\ r \in Gens /\ Sized(r)
             /\ r.mode = g.mode /\ r.total = g.total
             /\ r.begin = g.begin /\ r.count = g.count
             /\ g.begin < g.total => r.blockSize \in Nat \ {0}
<1> DEFINE r == Repaired(g)
<1>1. CASE g.mode = "blockSize"
  <2> DEFINE p == IF g.parallel < 1 THEN 1 ELSE g.parallel
             s == IF g.blockSize > 0 THEN g.blockSize ELSE DefaultBlockSize
  <2>1. p \in Int /\ s \in Nat \ {0}
    BY RangeListGenAssumption DEF Gens
  <2>2. r = SizedTo(g, p, s)
    BY <1>1 DEF Repaired, SizedTo
  <2>3. /\ r \in Gens /\ r.mode = g.mode /\ r.total = g.total /\ r.begin = g.begin
        /\ r.count = g.count /\ r.blockSize = s
    <3> HIDE DEF p, s, r
    <3> QED  BY <2>1, <2>2, Resized
  <2> QED  BY <1>1, <2>1, <2>3 DEF Sized
<1>2. CASE g.mode = "default"
  <2>1. g.parallel \in Nat \ {0} /\ g.parallel <= g.total /\ g.total \in Nat
    BY <1>2 DEF Sized, Gens
  <2>2. g.total \div g.parallel \in Nat \ {0}
        /\ (g.total \div g.parallel) * g.parallel <= g.total
    BY <2>1, DivFits
  <2> DEFINE p == IF g.parallel < 1 THEN 1 ELSE g.parallel
             s == IF g.blockSize > 0 THEN g.blockSize ELSE g.total \div p
  <2>3. p = g.parallel /\ s \in Nat \ {0}
    BY <2>1, <2>2 DEF Gens
  <2>4. r = SizedTo(g, p, s)
    BY <1>2 DEF Repaired, SizedTo
  <2>5. /\ r \in Gens /\ r.mode = g.mode /\ r.total = g.total /\ r.begin = g.begin
        /\ r.count = g.count /\ r.parallel = g.parallel /\ r.blockSize = s
    <3> HIDE DEF p, s, r
    <3> QED  BY <2>1, <2>3, <2>4, Resized
  <2>6. r.blockSize \in Nat \ {0}
    BY <2>3, <2>5
  <2>7. Sized(r)
    <3>1. CASE g.begin = g.total
      BY <3>1, <2>1, <2>5 DEF Sized
    <3>2. CASE g.begin = 0 /\ g.count = 0 /\ g.blockSize = 0
      <4>1. r.blockSize = g.total \div g.parallel
        BY <2>3, <2>5, <3>2
      <4>2. r.begin = r.count * r.blockSize
        BY <3>2, <2>5, <2>6
      <4> QED  BY <4>1, <4>2, <2>1, <2>2, <2>5, <2>6, <3>2 DEF Sized
    <3>3. CASE /\ g.blockSize \in Nat \ {0}
               /\ g.blockSize * g.parallel <= g.total
               /\ g.count < g.parallel
               /\ g.begin = g.count * g.blockSize
      BY <3>3, <2>1, <2>5 DEF Sized
    <3> QED  BY <1>2, <3>1, <3>2, <3>3 DEF Sized
  <2> QED  BY <2>5, <2>6, <2>7
<1> QED  BY <1>1, <1>2 DEF Gens, Modes

\* On repaired fields the next end lies ahead of the generator and in the file,
\* and a generator moved there is still one whose blocks fit.
LEMMA EndMovesOn ==
  ASSUME NEW r \in Gens, r.begin < r.total, Sized(r), r.blockSize \in Nat \ {0},
         NEW e, e = NextEnd(r)
  PROVE  /\ e \in Nat /\ r.begin < e /\ e <= r.total
         /\ r.mode = "default" /\ r.count + 1 >= r.parallel => e = r.total
         /\ r.mode = "default" /\ r.count + 1 < r.parallel =>
              e = (r.count + 1) * r.blockSize
<1>1. r.begin \in Nat /\ r.total \in Nat /\ r.count \in Nat
  BY DEF Gens
<1>2. CASE r.mode = "blockSize"
  BY <1>1, <1>2 DEF NextEnd, BlockEnd
<1>3. CASE r.mode = "default"
  <2>1. /\ r.parallel \in Nat \ {0} /\ r.parallel <= r.total
        /\ r.blockSize * r.parallel <= r.total /\ r.count < r.parallel
        /\ r.begin = r.count * r.blockSize
    BY <1>1, <1>3 DEF Sized
  <2>2. CASE r.count + 1 >= r.parallel
    BY <1>1, <1>3, <2>1, <2>2 DEF NextEnd
  <2>3. CASE r.count + 1 < r.parallel
    <3>1. e = (r.count + 1) * r.blockSize
      BY <1>1, <1>3, <2>1, <2>3 DEF NextEnd
    <3>2. (r.count + 1) * r.blockSize <= r.parallel * r.blockSize
      BY <1>1, <2>1, <2>3, MoreBlocks
    <3>3. (r.count + 1) * r.blockSize = r.count * r.blockSize + r.blockSize
      BY <1>1
    <3>4. r.parallel * r.blockSize = r.blockSize * r.parallel
      BY <2>1
    <3>5. r.count * r.blockSize \in Nat /\ r.parallel * r.blockSize \in Nat
      BY <1>1, <2>1
    <3>6. e \in Nat /\ r.begin < e /\ e <= r.total
      BY <1>1, <2>1, <3>1, <3>2, <3>3, <3>4, <3>5
    <3> QED  BY <1>1, <1>3, <2>1, <2>3, <3>1, <3>6
  <2> QED  BY <1>1, <2>1, <2>2, <2>3
<1> QED  BY <1>2, <1>3 DEF Gens, Modes

\* A call on a generator that is not done returns a range that begins where the
\* generator stood, is not empty, and ends where the generator now stands.
LEMMA CallMovesOn ==
  ASSUME NEW g \in Gens, ~IsDone(g), Sized(g)
  PROVE  LET step == GenRange(g)
         IN  /\ step.gen \in Gens /\ Sized(step.gen)
             /\ step.range = [begin |-> g.begin, end |-> step.gen.begin]
             /\ g.begin < step.gen.begin /\ step.gen.begin <= step.gen.total
<1>1. PICK r : r = Repaired(g)
  OBVIOUS
<1>2. PICK e : e = NextEnd(r)
  OBVIOUS
<1>3. PICK c : c = g.count + 1
  OBVIOUS
<1>4. PICK n : n = MovedTo(r, e, c)
  OBVIOUS
<1>5. g.begin < g.total /\ c \in Nat
  BY <1>3 DEF IsDone, Gens
<1>6. /\ r \in Gens /\ Sized(r) /\ r.total = g.total
      /\ r.begin = g.begin /\ r.count = g.count /\ r.blockSize \in Nat \ {0}
  BY <1>1, <1>5, RepairedIsSized DEF Gens
<1>7. /\ e \in Nat /\ r.begin < e /\ e <= r.total
      /\ r.mode = "default" /\ r.count + 1 >= r.parallel => e = r.total
      /\ r.mode = "default" /\ r.count + 1 < r.parallel =>
           e = (r.count + 1) * r.blockSize
  BY <1>2, <1>5, <1>6, EndMovesOn
<1>8. e \in Nat /\ c \in Nat /\ r \in Gens
  BY <1>5, <1>6, <1>7
<1>9. /\ n \in Gens /\ n.begin = e /\ n.count = c /\ n.mode = r.mode
      /\ n.total = r.total /\ n.parallel = r.parallel /\ n.blockSize = r.blockSize
  BY <1>4, <1>8, Moved
<1>10. Sized(n)
  BY <1>3, <1>5, <1>6, <1>7, <1>9 DEF Sized, Gens
<1>11. GenRange(g) = [range |-> [begin |-> g.begin, end |-> e], gen |-> n]
  BY <1>1, <1>2, <1>3, <1>4 DEF GenRange, MovedTo
<1> QED  BY <1>6, <1>7, <1>9, <1>10, <1>11

-------------------------------------------------------------------------------
(* The generator over time *)

LEMMA InitIInv == Init => IInv
<1> SUFFICES ASSUME Init PROVE IInv
  OBVIOUS
<1>1. gen \in InitialGens /\ gen.parallel <= gen.total /\ gen.begin <= gen.total
      /\ first = gen /\ issued = {}
  BY DEF Init
<1>2. gen \in Gens /\ Sized(gen)
  <2>1. CASE \E t \in 1..MaxTotal, p \in 1..MaxParallel :
               gen \in {NewRangeListGenDefault(t, 0, 0, p),
                        NewRangeListGenDefault(t, t, p, p)}
    <3>1. PICK t \in 1..MaxTotal, p \in 1..MaxParallel :
               gen \in {NewRangeListGenDefault(t, 0, 0, p),
                        NewRangeListGenDefault(t, t, p, p)}
      BY <2>1
    <3> QED  BY <1>1, <3>1, RangeListGenAssumption
             DEF NewRangeListGenDefault, Gens, Modes, Sized
  <2>2. CASE \E t \in 0..MaxTotal, b \in 0..MaxTotal, s \in BlockSizes :
               gen = NewRangeListGenBlockSize(t, b, s)
    <3>1. PICK t \in 0..MaxTotal, b \in 0..MaxTotal, s \in BlockSizes :
               gen = NewRangeListGenBlockSize(t, b, s)
      BY <2>2
    <3> QED  BY <3>1, RangeListGenAssumption
             DEF NewRangeListGenBlockSize, Gens, Modes, Sized
  <2> QED  BY <1>1, <2>1, <2>2 DEF InitialGens
<1>3. gen.begin \in Nat
  BY <1>2 DEF Gens
<1> QED  BY <1>1, <1>2, <1>3
         DEF IInv, GenInv, IssuedInv, IssuedIsPrefix, IssuedDisjoint

LEMMA IssueIInv == ASSUME IInv, Issue PROVE IInv'
<1> DEFINE step == GenRange(gen)
           new == step.range
<1>1. /\ issued' = issued \cup {new} /\ gen' = step.gen /\ first' = first
  BY DEF Issue
<1>2. /\ gen' \in Gens /\ Sized(gen') /\ new = [begin |-> gen.begin, end |-> gen'.begin]
      /\ gen.begin < gen'.begin /\ gen'.begin <= gen'.total
  BY <1>1, CallMovesOn DEF Issue, IInv, GenInv
<1>3. gen.begin \in Nat /\ gen'.begin \in Nat /\ first.begin \in Nat
  BY <1>2 DEF IInv, GenInv, Gens
<1>4. GenInv'
  BY <1>1, <1>2, <1>3 DEF IInv, GenInv, Sized
<1>5. /\ issued' \subseteq Ranges
      /\ \A r \in issued' : r.begin < r.end /\ r.end <= gen'.begin
  BY <1>1, <1>2, <1>3 DEF IInv, IssuedInv, Ranges
<1>6. IssuedIsPrefix'
  <2>1. UNION {RangeBytes(r) : r \in issued'}
          = (UNION {RangeBytes(r) : r \in issued}) \cup RangeBytes(new)
    BY <1>1
  <2>2. RangeBytes(new) = gen.begin .. (gen'.begin - 1)
    BY <1>2 DEF RangeBytes
  <2>3. UNION {RangeBytes(r) : r \in issued} = first.begin .. (gen.begin - 1)
    BY DEF IInv, IssuedInv, IssuedIsPrefix
  <2>4. (first.begin .. (gen.begin - 1)) \cup (gen.begin .. (gen'.begin - 1))
          = first.begin .. (gen'.begin - 1)
    BY <1>2, <1>3 DEF IInv, GenInv
  <2> QED  BY <1>1, <2>1, <2>2, <2>3, <2>4 DEF IssuedIsPrefix
<1>7. IssuedDisjoint'
  <2>1. \A r \in issued : RangeBytes(r) \cap RangeBytes(new) = {}
    BY <1>2, <1>3 DEF IInv, IssuedInv, RangeBytes, Ranges
  <2> QED  BY <1>1, <2>1 DEF IInv, IssuedInv, IssuedDisjoint
<1> QED  BY <1>4, <1>5, <1>6, <1>7 DEF IInv, IssuedInv

LEMMA NextIInv == IInv /\ [Next]_vars => IInv'
<1> SUFFICES ASSUME IInv, [Next]_vars PROVE IInv'
  OBVIOUS
<1>1. CASE Issue
  BY <1>1, IssueIInv
<1>2. CASE Refuse
  <2>1. /\ gen' \in Gens /\ Sized(gen') /\ gen'.begin = gen.begin
        /\ gen'.total = gen.total
    BY <1>2, RepairedIsSized DEF Refuse, IInv, GenInv
  <2> QED  BY <1>2, <2>1
           DEF Refuse, IInv, GenInv, IssuedInv, IssuedIsPrefix, IssuedDisjoint, Sized
<1>3. CASE UNCHANGED vars
  BY <1>3 DEF vars, IInv, GenInv, IssuedInv, IssuedIsPrefix, IssuedDisjoint, Sized
<1> QED  BY <1>1, <1>2, <1>3 DEF Next

\* The generator keeps its types and never runs past the end of the file.
THEOREM GenTypeCorrect == Spec => []TypeOK
<1>1. IInv => TypeOK
  BY DEF IInv, GenInv, IssuedInv, TypeOK
<1> QED  BY <1>1, InitIInv, NextIInv, PTL DEF Spec

\* Whatever the file size, the parallelism and the block size, the ranges handed
\* out so far are the bytes from the start up to the generator: none is skipped.
THEOREM NoGap == Spec => []IssuedIsPrefix
<1>1. IInv => IssuedIsPrefix
  BY DEF IInv, IssuedInv
<1> QED  BY <1>1, InitIInv, NextIInv, PTL DEF Spec

\* No byte is handed out twice, whatever the parameters.
THEOREM NoOverlap == Spec => []IssuedDisjoint
<1>1. IInv => IssuedDisjoint
  BY DEF IInv, IssuedInv
<1> QED  BY <1>1, InitIInv, NextIInv, PTL DEF Spec

\* No empty range is handed out, also when the block size asked for is negative.
THEOREM NoEmptyRange == Spec => []IssuedNonEmpty
<1>1. IInv => IssuedNonEmpty
  BY DEF IInv, IssuedInv, IssuedNonEmpty
<1> QED  BY <1>1, InitIInv, NextIInv, PTL DEF Spec

-------------------------------------------------------------------------------
(* How many ranges there are *)

\* Where the count stands: in the block-size mode so many blocks from the start.
CountInv ==
  /\ gen.mode = first.mode /\ gen.total = first.total
  /\ first.begin <= first.total
  /\ first.mode = "default" =>
       /\ gen.parallel = first.parallel /\ first.parallel \in Nat \ {0}
       /\ gen.begin = gen.total => gen.count = gen.parallel
  /\ first.mode = "blockSize" /\ first.blockSize > 0 =>
       /\ gen.blockSize = first.blockSize /\ first.count = 0
       /\ gen.begin # gen.total => gen.begin = first.begin + gen.count * gen.blockSize
       /\ gen.begin <= first.begin + gen.count * gen.blockSize
       /\ gen.count = 0 => gen.begin = first.begin
       /\ gen.count # 0 => first.begin + (gen.count - 1) * gen.blockSize < gen.total

\* So many blocks and no fewer cover the file.
LEMMA BlocksNeeded ==
  ASSUME NEW t \in Nat, NEW s \in Nat \ {0}, NEW k \in Nat,
         t <= k * s, k = 0 => t = 0, k # 0 => (k - 1) * s < t
  PROVE  k = (t \div s) + (IF t % s = 0 THEN 0 ELSE 1)
<1>1. PICK q, r : q = t \div s /\ r = t % s
  OBVIOUS
<1>2. q \in Nat /\ r \in Nat /\ r < s /\ t = s * q + r
  BY <1>1
<1>3. s * q = q * s
  BY <1>2
<1>4. q <= k
  <2> SUFFICES ASSUME k + 1 <= q PROVE FALSE
    BY <1>2
  <2>1. (k + 1) * s <= q * s
    BY <1>2, MoreBlocks
  <2>2. (k + 1) * s = k * s + s
    OBVIOUS
  <2>3. k * s \in Nat /\ q * s \in Nat
    BY <1>2
  <2> QED BY <1>2, <1>3, <2>1, <2>2, <2>3
<1>5. CASE r = 0
  <2>1. ~(q + 1 <= k)
    <3> SUFFICES ASSUME q + 1 <= k PROVE FALSE
      OBVIOUS
    <3>1. k - 1 \in Nat /\ q <= k - 1 /\ k # 0
      BY <1>2
    <3>2. q * s <= (k - 1) * s
      BY <1>2, <3>1, MoreBlocks
    <3>3. (k - 1) * s \in Nat /\ q * s \in Nat
      BY <1>2, <3>1
    <3> QED BY <1>2, <1>3, <1>5, <3>1, <3>2, <3>3
  <2> QED BY <1>1, <1>2, <1>4, <1>5, <2>1
<1>6. CASE r # 0
  <2>1. q # k
    <3> SUFFICES ASSUME q = k PROVE FALSE
      OBVIOUS
    <3>1. k * s \in Nat
      OBVIOUS
    <3> QED BY <1>2, <1>3, <1>6, <3>1
  <2>2. ~(q + 2 <= k)
    <3> SUFFICES ASSUME q + 2 <= k PROVE FALSE
      OBVIOUS
    <3>1. k - 1 \in Nat /\ q + 1 <= k - 1 /\ k # 0
      BY <1>2
    <3>2. (q + 1) * s <= (k - 1) * s
      BY <1>2, <3>1, MoreBlocks
    <3>3. (q + 1) * s = q * s + s
      BY <1>2
    <3>4. (k - 1) * s \in Nat /\ q * s \in Nat
      BY <1>2, <3>1
    <3> QED BY <1>2, <1>3, <3>1, <3>2, <3>3, <3>4
  <2> QED BY <1>1, <1>2, <1>4, <1>6, <2>1, <2>2
<1> QED BY <1>5, <1>6

LEMMA CountInit == Init => CountInv
<1> SUFFICES ASSUME Init PROVE CountInv
  OBVIOUS
<1>1. first = gen /\ gen \in InitialGens
  BY DEF Init
<1>2. CASE \E t \in 1..MaxTotal, p \in 1..MaxParallel :
             gen \in {NewRangeListGenDefault(t, 0, 0, p), NewRangeListGenDefault(t, t, p, p)}
  BY <1>1, <1>2, RangeListGenAssumption DEF NewRangeListGenDefault, CountInv
<1>3. CASE \E t \in 0..MaxTotal, b \in 0..MaxTotal, s \in BlockSizes :
             gen = NewRangeListGenBlockSize(t, b, s)
  <2>1. PICK t \in 0..MaxTotal, b \in 0..MaxTotal, s \in BlockSizes :
             gen = NewRangeListGenBlockSize(t, b, s)
    BY <1>3
  <2>2. s \in Int /\ 0 * s = 0
    BY <2>1, RangeListGenAssumption
  <2>3. b <= t
    BY <2>1 DEF Init, NewRangeListGenBlockSize
  <2> QED BY <1>1, <2>1, <2>2, <2>3 DEF NewRangeListGenBlockSize, CountInv
<1> QED BY <1>1, <1>2, <1>3 DEF InitialGens

\* What a call and the repair do to the fields the count is about.
LEMMA CallCounts ==
  ASSUME NEW g \in Gens, ~IsDone(g), Sized(g), NEW n, n = GenRange(g).gen
  PROVE  /\ n.mode = g.mode /\ n.total = g.total /\ n.count = g.count + 1
         /\ g.mode = "default" =>
              n.parallel = g.parallel /\ (n.begin = n.total => n.count = n.parallel)
         /\ g.mode = "blockSize" /\ g.blockSize > 0 =>
              /\ n.blockSize = g.blockSize
              /\ n.begin = IF g.begin + g.blockSize >= g.total THEN g.total
                           ELSE g.begin + g.blockSize
<1>1. PICK r : r = Repaired(g)
  OBVIOUS
<1>2. PICK e : e = NextEnd(r)
  OBVIOUS
<1>3. PICK c : c = g.count + 1
  OBVIOUS
<1>4. g.begin < g.total /\ c \in Nat
  BY <1>3 DEF IsDone, Gens
<1>5. /\ r \in Gens /\ Sized(r) /\ r.total = g.total /\ r.mode = g.mode
      /\ r.begin = g.begin /\ r.count = g.count /\ r.blockSize \in Nat \ {0}
  BY <1>1, <1>4, RepairedIsSized DEF Gens
<1>6. /\ e \in Nat
      /\ r.mode = "default" /\ r.count + 1 >= r.parallel => e = r.total
      /\ r.mode = "default" /\ r.count + 1 < r.parallel => e = (r.count + 1) * r.blockSize
  BY <1>2, <1>4, <1>5, EndMovesOn
<1>7. n = MovedTo(r, e, c)
  BY <1>1, <1>2, <1>3 DEF GenRange, MovedTo
<1>8. /\ n.begin = e /\ n.count = c /\ n.mode = r.mode
      /\ n.total = r.total /\ n.parallel = r.parallel /\ n.blockSize = r.blockSize
  <2>1. e \in Nat /\ c \in Nat /\ r \in Gens
    BY <1>4, <1>5, <1>6
  <2> QED BY <1>7, <2>1, Moved
<1>9. CASE g.mode = "default"
  <2>1. /\ g.parallel \in Nat \ {0} /\ g.parallel <= g.total /\ g.total \in Nat
        /\ g.count < g.parallel /\ g.count \in Nat
    BY <1>4, <1>9 DEF Sized, Gens
  <2>2. r.parallel = g.parallel
    <3> HIDE DEF Sized
    <3> DEFINE p == IF g.parallel < 1 THEN 1 ELSE g.parallel
    <3>0. p = g.parallel
      BY <2>1
    <3>1. r = SizedTo(g, p, IF g.blockSize > 0 THEN g.blockSize ELSE g.total \div p)
      BY <1>1, <1>9 DEF Repaired, SizedTo
    <3>2. (IF g.blockSize > 0 THEN g.blockSize ELSE g.total \div g.parallel) \in Int
      BY <2>1, DivFits DEF Gens
    <3> HIDE DEF p
    <3> QED BY <2>1, <3>0, <3>1, <3>2, Resized
  <2>3. r.count + 1 < r.parallel => e < r.total
    <3> SUFFICES ASSUME r.count + 1 < r.parallel PROVE e < r.total
      OBVIOUS
    <3>1. r.blockSize * r.parallel <= r.total
      BY <1>4, <1>5, <1>9 DEF Sized, Gens
    <3>2. (r.count + 2) * r.blockSize <= r.parallel * r.blockSize
      BY <1>5, <2>1, <2>2, MoreBlocks
    <3>3. (r.count + 2) * r.blockSize = (r.count + 1) * r.blockSize + r.blockSize
      BY <1>5, <2>1
    <3>4. r.parallel * r.blockSize = r.blockSize * r.parallel
      BY <1>5, <2>1, <2>2
    <3>5. (r.count + 1) * r.blockSize \in Nat /\ r.parallel * r.blockSize \in Nat /\ r.total \in Nat
      BY <1>5, <2>1, <2>2
    <3> QED BY <1>5, <1>6, <1>9, <3>1, <3>2, <3>3, <3>4, <3>5
  <2> QED BY <1>3, <1>5, <1>6, <1>8, <1>9, <2>1, <2>2, <2>3
<1>10. CASE g.mode = "blockSize"
  <2>1. g.blockSize > 0 => r.blockSize = g.blockSize
    BY <1>1, <1>10 DEF Repaired, Gens
  <2> QED BY <1>2, <1>3, <1>5, <1>8, <1>10, <2>1 DEF NextEnd, BlockEnd, Gens
<1> QED BY <1>9, <1>10 DEF Gens, Modes

LEMMA RepairCounts ==
  ASSUME NEW g \in Gens, g.begin <= g.total, Sized(g)
  PROVE  /\ g.mode = "default" => Repaired(g).parallel = g.parallel
         /\ g.mode = "blockSize" /\ g.blockSize > 0 => Repaired(g).blockSize = g.blockSize
<1>1. CASE g.mode = "default"
  <2>1. g.parallel \in Nat \ {0} /\ g.total \in Nat /\ g.parallel <= g.total
    BY <1>1 DEF Sized, Gens
  <2> DEFINE p == IF g.parallel < 1 THEN 1 ELSE g.parallel
  <2>0. p = g.parallel
    BY <2>1
  <2>2. Repaired(g) = SizedTo(g, p, IF g.blockSize > 0 THEN g.blockSize ELSE g.total \div p)
    BY <1>1 DEF Repaired, SizedTo
  <2>3. (IF g.blockSize > 0 THEN g.blockSize ELSE g.total \div g.parallel) \in Int
    BY <2>1, DivFits DEF Gens
  <2> HIDE DEF p
  <2> QED BY <1>1, <2>0, <2>1, <2>2, <2>3, Resized
<1>2. CASE g.mode = "blockSize"
  BY <1>2 DEF Repaired, Gens
<1> QED BY <1>1, <1>2 DEF Gens, Modes

LEMMA IssueCounts == ASSUME GenInv, CountInv, Issue PROVE CountInv'
<1>1. /\ gen \in Gens /\ first \in Gens /\ ~IsDone(gen) /\ Sized(gen)
      /\ gen' = GenRange(gen).gen /\ first' = first
  BY DEF GenInv, Issue
<1>2. /\ gen'.mode = gen.mode /\ gen'.total = gen.total /\ gen'.count = gen.count + 1
      /\ gen.mode = "default" =>
           gen'.parallel = gen.parallel /\ (gen'.begin = gen'.total => gen'.count = gen'.parallel)
      /\ gen.mode = "blockSize" /\ gen.blockSize > 0 =>
           /\ gen'.blockSize = gen.blockSize
           /\ gen'.begin = IF gen.begin + gen.blockSize >= gen.total THEN gen.total
                           ELSE gen.begin + gen.blockSize
  BY <1>1, CallCounts
<1>3. CASE first.mode = "default"
  BY <1>1, <1>2, <1>3 DEF CountInv
<1>4. CASE first.mode = "blockSize" /\ first.blockSize > 0
  <2>1. PICK k, s, b : k = gen.count /\ s = gen.blockSize /\ b = first.begin
    OBVIOUS
  <2>t. /\ k \in Nat /\ gen.begin \in Nat /\ gen.total \in Nat /\ b \in Nat
        /\ gen.begin < gen.total /\ s \in Int /\ first.blockSize \in Int
    BY <1>1, <2>1 DEF Gens, IsDone
  <2>s. s = first.blockSize /\ gen.begin = b + k * s
    BY <1>4, <2>1, <2>t DEF CountInv
  <2>2. /\ k \in Nat /\ s \in Nat \ {0} /\ gen.begin \in Nat /\ gen.total \in Nat
        /\ gen.begin < gen.total /\ gen.begin = b + k * s /\ b \in Nat
    BY <1>4, <2>t, <2>s
  <2>3. (k + 1) * s = k * s + s /\ (k + 1) - 1 = k
    BY <2>2
  <2>4. gen'.blockSize = s /\ gen'.count = k + 1
    BY <1>2, <1>4, <2>1, <2>2 DEF CountInv
  <2>k. k * s \in Nat
    BY <2>2
  <2>5. /\ gen'.begin = IF b + k * s + s >= gen.total THEN gen.total ELSE b + k * s + s
        /\ k * s \in Nat
    BY <1>2, <1>4, <2>1, <2>2 DEF CountInv
  <2>6. /\ gen'.begin # gen.total => gen'.begin = b + (k + 1) * s
        /\ gen'.begin <= b + (k + 1) * s /\ b + ((k + 1) - 1) * s < gen.total
    BY <2>2, <2>3, <2>5
  <2>7. first'.count = 0 /\ gen'.mode = first'.mode /\ gen'.total = first'.total
        /\ first'.blockSize = s /\ first'.begin = b /\ first'.begin <= first'.total
    BY <1>1, <1>2, <1>4, <2>1 DEF CountInv
  <2>8. k + 1 # 0 /\ first'.mode # "default"
    BY <1>1, <1>4, <2>2
  <2> QED BY <1>2, <2>4, <2>6, <2>7, <2>8 DEF CountInv
<1>5. CASE ~(first.mode = "default") /\ ~(first.mode = "blockSize" /\ first.blockSize > 0)
  BY <1>1, <1>2, <1>5 DEF CountInv
<1> QED BY <1>3, <1>4, <1>5

LEMMA RefuseCounts == ASSUME GenInv, CountInv, Refuse PROVE CountInv'
<1>1. /\ gen \in Gens /\ gen' = Repaired(gen) /\ first' = first
      /\ gen'.mode = gen.mode /\ gen'.total = gen.total
      /\ gen'.begin = gen.begin /\ gen'.count = gen.count
      /\ gen.mode = "default" => gen'.parallel = gen.parallel
      /\ gen.mode = "blockSize" /\ gen.blockSize > 0 => gen'.blockSize = gen.blockSize
  BY RepairedIsSized, RepairCounts DEF GenInv, Refuse
<1> QED BY <1>1 DEF CountInv

LEMMA Divided ==
  ASSUME NEW t \in Nat, NEW s \in Nat \ {0}
  PROVE  t \div s \in Nat /\ t % s \in 0..(s - 1) /\ t = (t \div s) * s + (t % s)
<1>1. PICK q, r : q = t \div s /\ r = t % s
  OBVIOUS
<1>2. q \in Nat /\ r \in Nat /\ r < s /\ t = s * q + r
  BY <1>1
<1>3. s * q = q * s
  BY <1>2
<1>4. q \in Nat /\ r \in 0..(s - 1) /\ t = q * s + r
  BY <1>2, <1>3
<1> QED BY <1>1, <1>4

\* What is left of the file from a block's border on is a whole number of blocks
\* exactly when the file is.
LEMMA SameRemainder ==
  ASSUME NEW t \in Nat, NEW b \in 0..t, NEW s \in Nat \ {0}, b % s = 0
  PROVE  t % s = 0 <=> (t - b) % s = 0
<1>1. PICK m \in Nat : b = m * s
  <2>1. b \in Nat
    OBVIOUS
  <2>2. b \div s \in Nat /\ b = (b \div s) * s + (b % s)
    BY <2>1, Divided
  <2>3. (b \div s) * s \in Nat
    BY <2>2
  <2> QED BY <2>2, <2>3
<1>2. PICK q \in Nat, r \in 0..(s - 1) : t = q * s + r /\ r = t % s
  BY Divided
<1>3. PICK p \in Nat, u \in 0..(s - 1) : t - b = p * s + u /\ u = (t - b) % s
  <2>1. t - b \in Nat
    OBVIOUS
  <2> QED BY <2>1, Divided
<1>4. q * s + r = (p + m) * s + u
  <2>1. (p + m) * s = p * s + m * s
    OBVIOUS
  <2>2. p * s \in Nat /\ m * s \in Nat /\ q * s \in Nat
    OBVIOUS
  <2> QED BY <1>1, <1>2, <1>3, <2>1, <2>2
<1>5. PICK j \in Nat : j = p + m
  OBVIOUS
<1>6. q = j
  <2>1. q * s \in Nat /\ j * s \in Nat
    BY <1>5
  <2>2. ~(q + 1 <= j)
    <3> SUFFICES ASSUME q + 1 <= j PROVE FALSE
      OBVIOUS
    <3>1. (q + 1) * s <= j * s /\ (q + 1) * s = q * s + s
      BY MoreBlocks
    <3> QED BY <1>4, <1>5, <2>1, <3>1
  <2>3. ~(j + 1 <= q)
    <3> SUFFICES ASSUME j + 1 <= q PROVE FALSE
      OBVIOUS
    <3>1. (j + 1) * s <= q * s /\ (j + 1) * s = j * s + s
      BY MoreBlocks
    <3> QED BY <1>4, <1>5, <2>1, <3>1
  <2> QED BY <2>2, <2>3
<1>7. r = u
  <2>1. q * s \in Nat
    OBVIOUS
  <2> QED BY <1>4, <1>5, <1>6, <2>1
<1> QED BY <1>2, <1>3, <1>7

\* RangeCount, from which the uploader takes the length of its block list, is the
\* number of ranges handed out from a block's border on, and misses it by no more
\* than one elsewhere, whatever the size of the file, the parallelism and the
\* (positive) block size (rangelist.go:110-122 against 151-211).
THEOREM CountsRanges == Spec => []CountIsExact
<1>1. IInv /\ CountInv => CountIsExact
  <2> SUFFICES ASSUME GenInv, CountInv, IsDone(gen),
                      first.mode = "default" \/ first.blockSize > 0
               PROVE  /\ RangeCount(first) - (gen.count - first.count) \in -1..1
                      /\ first.mode = "default" \/ first.begin % first.blockSize = 0
                           => RangeCount(first) = gen.count - first.count
    BY DEF IInv, CountIsExact
  <2>1. gen \in Gens /\ first \in Gens /\ gen.begin = gen.total
    BY DEF GenInv, IsDone, Gens
  <2>2. CASE first.mode = "default"
    BY <2>1, <2>2 DEF CountInv, RangeCount, Gens
  <2>3. CASE first.mode = "blockSize"
    <3>1. PICK t, s, k, b : /\ t = gen.total /\ s = gen.blockSize /\ k = gen.count
                            /\ b = first.begin
      OBVIOUS
    <3>2. /\ t \in Nat /\ s \in Nat \ {0} /\ k \in Nat /\ b \in 0..t
          /\ t = first.total /\ s = first.blockSize /\ first.count = 0
      <4>1. /\ t \in Nat /\ k \in Nat /\ b \in Nat /\ first.blockSize \in Int
        BY <2>1, <3>1 DEF Gens
      <4>2. /\ t = first.total /\ s = first.blockSize /\ first.count = 0
            /\ first.blockSize > 0 /\ b <= t
        BY <2>3, <3>1 DEF CountInv
      <4> QED BY <4>1, <4>2
    <3>3. PICK n \in Nat : n = t - b
      BY <3>2
    <3>4. n <= k * s /\ (k = 0 => n = 0) /\ (k # 0 => (k - 1) * s < n)
      <4>1. t <= b + k * s /\ (k = 0 => t = b) /\ (k # 0 => b + (k - 1) * s < t)
        BY <2>1, <2>3, <3>1 DEF CountInv
      <4>2. k * s \in Nat /\ (k - 1) * s \in Int
        BY <3>2
      <4> QED BY <3>2, <3>3, <4>1, <4>2
    <3>5. k = (n \div s) + (IF n % s = 0 THEN 0 ELSE 1)
      BY <3>2, <3>4, BlocksNeeded
    <3>6. RangeCount(first) = (n \div s) + (IF t % s = 0 THEN 0 ELSE 1)
      BY <2>3, <3>1, <3>2, <3>3 DEF RangeCount
    <3>7. n \div s \in Nat
      BY <3>2
    <3>8. b % s = 0 => (t % s = 0 <=> n % s = 0)
      BY <3>2, <3>3, SameRemainder
    <3>9. RangeCount(first) - k \in -1..1 /\ (b % s = 0 => RangeCount(first) = k)
      BY <3>2, <3>5, <3>6, <3>7, <3>8
    <3>10. k - 0 = k /\ first.mode # "default"
      BY <2>3, <3>2
    <3> QED BY <3>1, <3>2, <3>9, <3>10
  <2> QED BY <2>1, <2>2, <2>3 DEF Gens, Modes
<1>2. (IInv /\ CountInv) /\ [Next]_vars => (IInv /\ CountInv)'
  <2>1. ASSUME CountInv, UNCHANGED vars PROVE CountInv'
    BY <2>1 DEF vars, CountInv
  <2> QED BY <2>1, NextIInv, IssueCounts, RefuseCounts DEF Next, IInv
<1> QED BY <1>1, <1>2, InitIInv, CountInit, PTL DEF Spec
===============================================================================
