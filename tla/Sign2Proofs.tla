---------------------------- MODULE Sign2Proofs ----------------------------
(* Sign2 for every key and text: the script's indices stay inside its arrays, the shuffled bytes *)
(* stay a permutation, and the base 64 text decodes to the cipher text.                          *)
EXTENDS Sign2, SequenceTheorems, TLAPS

\* No exchange changes which bytes a permutation reaches (the swaps of lines 14-16 and 22-24).
LEMMA SwapKeeps ==
    ASSUME NEW f \in [Byte -> Byte], NEW x \in Byte, NEW y \in Byte,
           {f[m] : m \in Byte} = Byte
    PROVE  /\ Swap(f, x, y) \in [Byte -> Byte]
           /\ {Swap(f, x, y)[m] : m \in Byte} = Byte
<1> DEFINE g == Swap(f, x, y)
<1>1. /\ g \in [Byte -> Byte]
      /\ g[x] = f[y] /\ g[y] = f[x]
      /\ \A m \in Byte \ {x, y} : g[m] = f[m]
  BY DEF Swap
<1>2. ASSUME NEW n \in Byte PROVE \E m \in Byte : g[m] = n
  <2>1. PICK m \in Byte : f[m] = n  OBVIOUS
  <2>2. CASE m = x  BY <1>1, <2>1, <2>2
  <2>3. CASE m = y  BY <1>1, <2>1, <2>3
  <2>4. CASE m \notin {x, y}  BY <1>1, <2>1, <2>4
  <2> QED  BY <2>2, <2>3, <2>4
<1> QED  BY <1>1, <1>2

\* The last byte of a sum is a byte.
LEMMA LowIsByte ==
    ASSUME NEW n \in Nat PROVE n % 256 \in Byte
BY DEF Byte

LEMMA ByteIsNat == \A n \in Byte : n \in Nat
BY DEF Byte

LEMMA LenIsNat == ASSUME NEW S, NEW s \in Seq(S) PROVE Len(s) \in Nat
OBVIOUS

\* The repeated key is never read outside the key (line 7).
LEMMA KeyUnitType ==
    ASSUME key \in Keys, NEW n \in Nat PROVE KeyUnit(n) \in Nat
<1>1. key \in Seq(Unit) /\ key # <<>>  BY Sign2Assumption
<1>2. Len(key) \in Nat \ {0}  BY <1>1
<1>3. (n % Len(key)) + 1 \in 1 .. Len(key)  BY <1>2
<1>4. key[(n % Len(key)) + 1] \in Unit  BY <1>1, <1>3
<1> QED  BY <1>4, Sign2Assumption DEF KeyUnit, Unit

\* The digits of three, two and one bytes decode to them, and to zeros behind them
\* (the shifts of lines 38-39, 45-47 and 52-55).
LEMMA GroupsDecode ==
    ASSUME NEW x \in Byte, NEW y \in Byte, NEW z \in Byte
    PROVE  /\ Digits24(x \div 4, (x % 4) * 16 + y \div 16, (y % 16) * 4 + z \div 64, z % 64)
                = Bytes24(x, y, z)
           /\ Digits24(x \div 4, (x % 4) * 16 + y \div 16, (y % 16) * 4, 0) = Bytes24(x, y, 0)
           /\ Digits24(x \div 4, (x % 4) * 16, 0, 0) = Bytes24(x, 0, 0)
BY DEF Byte, Digits24, Bytes24

LEMMA GroupDigits ==
    ASSUME NEW x \in Byte, NEW y \in Byte, NEW z \in Byte
    PROVE  /\ x \div 4 \in Digit /\ (x % 4) * 16 \in Digit /\ (x % 4) * 16 + y \div 16 \in Digit
           /\ (y % 16) * 4 \in Digit /\ (y % 16) * 4 + z \div 64 \in Digit /\ z % 64 \in Digit
           /\ Pad \notin Digit
BY DEF Byte, Digit, Pad

----------------------------------------------------------------------------
\* Where base64encode stands: nothing is written before the cipher is complete, and until the last
\* group, every three characters have four digits.
Aligned == /\ pc \in {"schedule", "stream"} => e = 0 /\ enc = <<>>
           /\ pc = "done" => e = Len(o)
           /\ e < Len(o) => 3 * Len(enc) = 4 * e

Inv == TypeOK /\ Shuffled /\ Aligned

\* What the first step leaves.
LEMMA InitInv == Init => Inv /\ EncodesCipher
<1> SUFFICES ASSUME Init PROVE Inv /\ EncodesCipher
  OBVIOUS
<1>1. TypeOK  BY DEF Init, TypeOK, Byte
<1>2. Shuffled  BY DEF Init, Shuffled
<1>3. Aligned  BY DEF Init, Aligned
<1>4. EncodesCipher  BY DEF Init, EncodesCipher
<1> QED  BY <1>1, <1>2, <1>3, <1>4 DEF Inv

\* The parts of the type invariant, for the steps that need one of them.
LEMMA Types ==
    ASSUME TypeOK
    PROVE  /\ key \in Seq(Unit) /\ key \in Keys /\ text \in Seq(Unit) /\ text \in Texts
           /\ Len(text) \in Nat
           /\ u \in Byte /\ i \in Byte /\ u \in Nat /\ i \in Nat
           /\ p \in [Byte -> Byte]
           /\ o \in Seq(Unit) /\ Len(o) \in Nat
           /\ pc = "schedule" => q \in 0 .. 256 /\ o = <<>>
           /\ pc # "schedule" => q \in 0 .. Len(text) /\ Len(o) = q
           /\ e \in 0 .. Len(o)
           /\ enc \in Seq(Digit \cup {Pad}) /\ Len(enc) \in Nat
<1>1. /\ key \in Keys /\ text \in Texts /\ u \in Byte /\ i \in Byte
      /\ p \in [Byte -> Byte] /\ o \in Seq(Unit)
      /\ pc = "schedule" => q \in 0 .. 256 /\ o = <<>>
      /\ pc # "schedule" => q \in 0 .. Len(text) /\ Len(o) = q
      /\ e \in 0 .. Len(o)
      /\ enc \in Seq(Digit \cup {Pad})
  BY Zenon DEF TypeOK
<1>2. key \in Seq(Unit) /\ text \in Seq(Unit)
  <2>1. key \in Seq(Unit)  BY <1>1, Sign2Assumption
  <2>2. text \in Seq(Unit)  BY <1>1, Sign2Assumption
  <2> QED  BY <2>1, <2>2
<1>3. Len(text) \in Nat /\ Len(o) \in Nat /\ Len(enc) \in Nat
  BY <1>1, <1>2, LenIsNat
<1>4. u \in Nat /\ i \in Nat
  BY <1>1, ByteIsNat
<1> QED  BY <1>1, <1>2, <1>3, <1>4

\* What every exchange of the cipher preserves.
LEMMA Exchange ==
    ASSUME Inv, NEW x \in Byte, NEW y \in Byte, p' = Swap(p, x, y)
    PROVE  p' \in [Byte -> Byte] /\ Shuffled'
<1>1. p \in [Byte -> Byte]  BY Types DEF Inv
<1>2. {p[m] : m \in Byte} = Byte  BY DEF Inv, Shuffled
<1>3. /\ Swap(p, x, y) \in [Byte -> Byte]
      /\ {Swap(p, x, y)[m] : m \in Byte} = Byte  BY <1>1, <1>2, SwapKeeps
<1> QED  BY <1>3, Zenon DEF Shuffled

LEMMA ScheduleInv == ASSUME Inv, Schedule PROVE Inv' /\ UNCHANGED <<e, enc>> /\ e = 0
<1>0. /\ pc = "schedule" /\ q < 256 /\ pc' = pc
      /\ u' = (u + p[q] + KeyUnit(q)) % 256 /\ p' = Swap(p, q, u') /\ q' = q + 1
      /\ UNCHANGED <<key, text, i, o, e, enc>>
  BY Zenon DEF Schedule
<1>1. /\ TypeOK /\ e = 0 /\ enc = <<>>
  BY <1>0, Zenon DEF Inv, Aligned
<1>2. /\ q \in 0 .. 256 /\ o = <<>>
  BY <1>0, <1>1, Types
<1>3. /\ q \in Byte /\ q \in Nat /\ q' \in 0 .. 256
  BY <1>0, <1>2 DEF Byte
<1>4. u' \in Byte
  <2>1. p \in [Byte -> Byte] /\ u \in Nat  BY <1>1, Types
  <2>4. p[q] \in Nat  BY <2>1, <1>3, ByteIsNat
  <2>2. KeyUnit(q) \in Nat  BY <1>1, <1>3, Types, KeyUnitType
  <2>3. u + p[q] + KeyUnit(q) \in Nat  BY <2>1, <2>2, <2>4
  <2> QED  BY <2>3, <1>0, LowIsByte
<1>5. p' \in [Byte -> Byte] /\ Shuffled'
  BY <1>0, <1>3, <1>4, Exchange
<1>6. TypeOK'
  BY <1>0, <1>1, <1>2, <1>3, <1>4, <1>5, Types, Zenon DEF TypeOK
<1>7. Aligned'
  BY <1>0, <1>1, <1>2 DEF Aligned
<1> QED  BY <1>0, <1>1, <1>5, <1>6, <1>7 DEF Inv

LEMMA TurnInv == ASSUME Inv, Turn PROVE Inv' /\ UNCHANGED <<e, enc>> /\ e = 0
<1>0. /\ pc = "schedule" /\ pc' = "stream" /\ q' = 0 /\ u' = 0 /\ i' = 0
      /\ UNCHANGED <<key, text, p, o, e, enc>>
  BY Zenon DEF Turn
<1>1. /\ TypeOK /\ Shuffled /\ e = 0 /\ enc = <<>>
  BY <1>0, Zenon DEF Inv, Aligned
<1>2. o = <<>> /\ Len(o) = 0 /\ Len(text) \in Nat
  BY <1>0, <1>1, Types
<1>3. 0 \in Byte /\ 0 \in 0 .. Len(text)
  BY <1>2 DEF Byte
<1>4. TypeOK'
  BY <1>0, <1>1, <1>2, <1>3, Types, Zenon DEF TypeOK
<1>5. Aligned' /\ Shuffled'
  BY <1>0, <1>1, <1>2 DEF Aligned, Shuffled
<1> QED  BY <1>0, <1>1, <1>4, <1>5 DEF Inv

LEMMA StreamInv == ASSUME Inv, Stream PROVE Inv' /\ UNCHANGED <<e, enc>> /\ e = 0
<1>0. /\ pc = "stream" /\ q < Len(text) /\ pc' = pc
      /\ i' = (i + 1) % 256 /\ u' = (u + p[i']) % 256 /\ p' = Swap(p, i', u')
      /\ o' = Append(o, BitXor(text[q + 1], Mask(p', i', u'))) /\ q' = q + 1
      /\ UNCHANGED <<key, text, e, enc>>
  BY Zenon DEF Stream
<1>1. /\ TypeOK /\ e = 0 /\ enc = <<>>
  BY <1>0, Zenon DEF Inv, Aligned
<1>2. /\ q \in 0 .. Len(text) /\ Len(o) = q /\ Len(text) \in Nat /\ i \in Nat /\ u \in Nat
      /\ text \in Seq(Unit) /\ o \in Seq(Unit)
  BY <1>0, <1>1, Types
<1>3. q' \in 0 .. Len(text) /\ q + 1 \in 1 .. Len(text)
  BY <1>0, <1>2
<1>4. i' \in Byte
  <2>1. i + 1 \in Nat  BY <1>2
  <2>2. (i + 1) % 256 \in Byte  BY <2>1, LowIsByte
  <2> QED  BY <2>2, <1>0, Zenon
<1>5. u' \in Byte
  <2>1. p \in [Byte -> Byte]  BY <1>1, Types
  <2>2. p[i'] \in Nat  BY <2>1, <1>4, ByteIsNat
  <2>3. u + p[i'] \in Nat  BY <2>2, <1>2
  <2> QED  BY <2>3, <1>0, LowIsByte
<1>6. p' \in [Byte -> Byte] /\ Shuffled'
  BY <1>0, <1>4, <1>5, Exchange
<1>7. Mask(p', i', u') \in Byte
  <2>1. p'[i'] \in Nat /\ p'[u'] \in Nat  BY <1>4, <1>5, <1>6, ByteIsNat
  <2>2. (p'[i'] + p'[u']) % 256 \in Byte
    <3>1. p'[i'] + p'[u'] \in Nat  BY <2>1
    <3> QED  BY <3>1, LowIsByte
  <2> QED  BY <2>2, <1>6 DEF Mask
<1>8. o' \in Seq(Unit) /\ Len(o') = q'
  <2>1. text[q + 1] \in Unit  BY <1>2, <1>3
  <2>2. BitXor(text[q + 1], Mask(p', i', u')) \in Unit  BY <2>1, <1>7, Sign2Assumption
  <2> QED  BY <2>2, <1>0, <1>2
<1>9. 0 \in 0 .. Len(o')
  BY <1>3, <1>8
<1>10. TypeOK'
  BY <1>0, <1>1, <1>3, <1>4, <1>5, <1>6, <1>8, <1>9, Types, Zenon DEF TypeOK
<1>11. Aligned'
  BY <1>0, <1>1 DEF Aligned
<1> QED  BY <1>0, <1>1, <1>6, <1>10, <1>11 DEF Inv

LEMMA StreamEndInv == ASSUME Inv, StreamEnd PROVE Inv' /\ UNCHANGED <<e, enc>> /\ e = 0
<1>0. /\ pc = "stream" /\ pc' = "encode"
      /\ UNCHANGED <<key, text, q, u, i, p, o, e, enc>>
  BY Zenon DEF StreamEnd
<1>1. /\ TypeOK /\ Shuffled /\ e = 0 /\ enc = <<>>
  BY <1>0, Zenon DEF Inv, Aligned
<1>2. TypeOK' /\ Shuffled'
  BY <1>0, <1>1, Types, Zenon DEF TypeOK, Shuffled
<1>3. Aligned'
  BY <1>0, <1>1 DEF Aligned
<1> QED  BY <1>0, <1>1, <1>2, <1>3 DEF Inv

----------------------------------------------------------------------------
\* A group of four digits leaves the digits before it as they are.
LEMMA AppendedGroup ==
    ASSUME NEW S, NEW s \in Seq(S), NEW d1 \in S, NEW d2 \in S, NEW d3 \in S, NEW d4 \in S
    PROVE  LET t == s \o <<d1, d2, d3, d4>>
           IN  /\ t \in Seq(S)
               /\ Len(t) = Len(s) + 4
               /\ \A n \in 1 .. Len(s) : t[n] = s[n]
               /\ t[Len(s) + 1] = d1 /\ t[Len(s) + 2] = d2
               /\ t[Len(s) + 3] = d3 /\ t[Len(s) + 4] = d4
<1> DEFINE d == <<d1, d2, d3, d4>>
<1>1. d \in Seq(S) /\ Len(d) = 4 /\ d[1] = d1 /\ d[2] = d2 /\ d[3] = d3 /\ d[4] = d4
  OBVIOUS
<1> HIDE DEF d
<1>2. /\ s \o d \in Seq(S)
      /\ Len(s \o d) = Len(s) + Len(d)
      /\ \A n \in 1 .. Len(s) + Len(d) :
            (s \o d)[n] = IF n <= Len(s) THEN s[n] ELSE d[n - Len(s)]
  BY <1>1, ConcatProperties
<1>3. LET t == s \o d
      IN  /\ t \in Seq(S)
          /\ Len(t) = Len(s) + 4
          /\ \A n \in 1 .. Len(s) : t[n] = s[n]
          /\ t[Len(s) + 1] = d[1] /\ t[Len(s) + 2] = d[2]
          /\ t[Len(s) + 3] = d[3] /\ t[Len(s) + 4] = d[4]
  <2>1. Len(s) \in Nat  OBVIOUS
  <2> QED  BY <1>1, <1>2, <2>1
<1> QED  BY <1>1, <1>3 DEF d

\* What EncodesCipher says of the digits already written.
LEMMA EncodesThen ==
    ASSUME TypeOK, EncodesCipher
    PROVE  \E k \in Nat :
              /\ Len(enc) = 4 * k
              /\ \A n \in 0 .. k - 1 :
                    Value(n) = Bytes24(ByteAt(3 * n), ByteAt(3 * n + 1), ByteAt(3 * n + 2))
<1>1. Len(enc) \in Nat /\ Len(enc) % 4 = 0
  BY Types DEF EncodesCipher
<1> DEFINE k == Len(enc) \div 4
<1>2. k \in Nat /\ Len(enc) = 4 * k
  BY <1>1
<1> QED  BY <1>2 DEF EncodesCipher

\* One pass of the loop of base64encode, whatever the number of characters it takes.
LEMMA EncodeStep ==
    ASSUME Inv, EncodesCipher, pc = "encode", NEW n \in 1 .. 3, n <= Len(o) - e,
           n = 3 \/ e + n = Len(o),
           NEW d1 \in Digit, NEW d2 \in Digit, NEW d3 \in Digit \cup {Pad}, NEW d4 \in Digit \cup {Pad},
           NEW x \in Byte, NEW y \in Byte, NEW z \in Byte,
           x = Low(o[e + 1]),
           n > 1 => y = Low(o[e + 2]), n = 1 => y = 0,
           n = 3 => z = Low(o[e + 3]), n < 3 => z = 0,
           Digits24(d1, d2, Bits(d3), Bits(d4)) = Bytes24(x, y, z),
           Encode(n, <<d1, d2, d3, d4>>)
    PROVE  Inv' /\ EncodesCipher'
<1>0. /\ enc' = enc \o <<d1, d2, d3, d4>> /\ e' = e + n
      /\ UNCHANGED <<key, text, pc, q, u, i, p, o>>
  BY Zenon DEF Encode
<1>1. TypeOK /\ Shuffled /\ (e < Len(o) => 3 * Len(enc) = 4 * e)
  BY Zenon DEF Inv, Aligned
<1>2. /\ enc \in Seq(Digit \cup {Pad}) /\ Len(enc) \in Nat /\ Len(o) \in Nat /\ e \in 0 .. Len(o)
  BY <1>1, Types
<1>3. /\ e \in Nat /\ e + n \in 0 .. Len(o) /\ 3 * Len(enc) = 4 * e
  BY <1>1, <1>2
<1>4. PICK k \in Nat :
        /\ Len(enc) = 4 * k
        /\ \A m \in 0 .. k - 1 :
              Value(m) = Bytes24(ByteAt(3 * m), ByteAt(3 * m + 1), ByteAt(3 * m + 2))
  BY <1>1, EncodesThen
<1>5. e = 3 * k
  BY <1>3, <1>4
<1>6. d1 \in Digit \cup {Pad} /\ d2 \in Digit \cup {Pad} /\ d1 # Pad /\ d2 # Pad
  BY DEF Digit, Pad
<1>7. /\ enc' \in Seq(Digit \cup {Pad})
      /\ Len(enc') = Len(enc) + 4
      /\ \A m \in 1 .. Len(enc) : enc'[m] = enc[m]
      /\ enc'[Len(enc) + 1] = d1 /\ enc'[Len(enc) + 2] = d2
      /\ enc'[Len(enc) + 3] = d3 /\ enc'[Len(enc) + 4] = d4
  <2> DEFINE D == Digit \cup {Pad}
             t == enc \o <<d1, d2, d3, d4>>
  <2>1. enc \in Seq(D) /\ d1 \in D /\ d2 \in D /\ d3 \in D /\ d4 \in D
    BY <1>2, <1>6
  <2> HIDE DEF D
  <2>2. /\ t \in Seq(D)
        /\ Len(t) = Len(enc) + 4
        /\ \A m \in 1 .. Len(enc) : t[m] = enc[m]
        /\ t[Len(enc) + 1] = d1 /\ t[Len(enc) + 2] = d2
        /\ t[Len(enc) + 3] = d3 /\ t[Len(enc) + 4] = d4
    BY <2>1, AppendedGroup
  <2>3. enc' = t  BY <1>0, Zenon
  <2> HIDE DEF t
  <2> QED  BY <2>2, <2>3 DEF D
<1>8. Inv'
  <2>1. TypeOK'
    <3>1. e' \in 0 .. Len(o')  BY <1>0, <1>3
    <3> QED  BY <1>0, <1>1, <1>7, <3>1, Zenon DEF TypeOK
  <2>2. Shuffled'
    BY <1>0, <1>1 DEF Shuffled
  <2>3. Aligned'
    <3>1. e' < Len(o') => n = 3  BY <1>0, <1>3
    <3>2. n = 3 => 3 * Len(enc') = 4 * e'
      <4>1. Len(enc') = Len(enc) + 4 /\ e' = e + n  BY <1>0, <1>7
      <4>2. n = 3 => 3 * (Len(enc) + 4) = 4 * (e + n)  BY <1>2, <1>3
      <4> QED  BY <4>1, <4>2
    <3> QED  BY <1>0, <3>1, <3>2 DEF Aligned
  <2> QED  BY <2>1, <2>2, <2>3 DEF Inv
<1>9. EncodesCipher'
  <2>1. /\ Len(enc') = 4 * (k + 1)
        /\ 4 * e' <= 3 * Len(enc') /\ 3 * Len(enc') < 4 * e' + 12
    <3>1. Len(enc') = Len(enc) + 4 /\ e' = e + n  BY <1>0, <1>7
    <3>2. Len(enc) + 4 = 4 * (k + 1)  BY <1>4
    <3>3. 4 * (e + n) <= 3 * (4 * (k + 1)) /\ 3 * (4 * (k + 1)) < 4 * (e + n) + 12  BY <1>5
    <3> QED  BY <3>1, <3>2, <3>3
  <2>2. Len(enc') % 4 = 0 /\ (Len(enc') \div 4) - 1 = k
    BY <2>1, <1>4
  <2>3. ASSUME NEW m \in 0 .. k
        PROVE  Value(m)' = Bytes24(ByteAt(3 * m)', ByteAt(3 * m + 1)', ByteAt(3 * m + 2)')
    <3>1. CASE m < k
      <4>1. /\ 4 * m + 1 \in 1 .. Len(enc) /\ 4 * m + 2 \in 1 .. Len(enc)
            /\ 4 * m + 3 \in 1 .. Len(enc) /\ 4 * m + 4 \in 1 .. Len(enc)
        BY <1>4, <3>1
      <4>2. Value(m)' = Value(m)
        BY <4>1, <1>7 DEF Value
      <4>3. /\ 3 * m < e /\ 3 * m + 1 < e /\ 3 * m + 2 < e
            /\ 3 * m < e' /\ 3 * m + 1 < e' /\ 3 * m + 2 < e'
            /\ m \in 0 .. k - 1
        BY <1>0, <1>5, <3>1
      <4>4. /\ ByteAt(3 * m)' = ByteAt(3 * m) /\ ByteAt(3 * m + 1)' = ByteAt(3 * m + 1)
            /\ ByteAt(3 * m + 2)' = ByteAt(3 * m + 2)
        BY <1>0, <4>3 DEF ByteAt
      <4> QED  BY <1>4, <4>2, <4>3, <4>4
    <3>2. CASE m = k
      <4>1. Value(m)' = Digits24(d1, d2, Bits(d3), Bits(d4))
        BY <1>4, <1>6, <1>7, <3>2 DEF Value, Bits
      <4>2. /\ 3 * m + 1 = e + 1 /\ 3 * m + 1 + 1 = e + 2 /\ 3 * m + 2 + 1 = e + 3
            /\ 3 * m < e' /\ (3 * m + 1 < e' <=> n > 1) /\ (3 * m + 2 < e' <=> n = 3)
        BY <1>0, <1>5, <3>2
      <4>3. ByteAt(3 * m)' = x /\ ByteAt(3 * m + 1)' = y /\ ByteAt(3 * m + 2)' = z
        BY <1>0, <4>2 DEF ByteAt
      <4> QED  BY <4>1, <4>3
    <3> QED  BY <3>1, <3>2
  <2>4. \A m \in 0 .. k :
           Value(m)' = Bytes24(ByteAt(3 * m)', ByteAt(3 * m + 1)', ByteAt(3 * m + 2)')
    BY <2>3
  <2> QED  BY <2>1, <2>2, <2>4 DEF EncodesCipher
<1> QED  BY <1>8, <1>9

\* The low byte of a character that is read.
LEMMA CharacterByte ==
    ASSUME TypeOK, NEW n \in 1 .. Len(o) - e
    PROVE  Low(o[e + n]) \in Byte
<1>1. o \in Seq(Unit) /\ Len(o) \in Nat /\ e \in 0 .. Len(o)  BY Types
<1>2. e + n \in 1 .. Len(o)  BY <1>1
<1>3. o[e + n] \in Nat  BY <1>1, <1>2, Sign2Assumption DEF Unit
<1> QED  BY <1>3, LowIsByte DEF Low

LEMMA Encode1Inv == ASSUME Inv, EncodesCipher, Encode1 PROVE Inv' /\ EncodesCipher'
<1>0. pc = "encode" /\ Len(o) - e = 1 /\ Encode(1, Group1(Low(o[e + 1]))) /\ TypeOK
  BY Zenon DEF Encode1, Inv
<1>1. Len(o) \in Nat /\ e \in Nat /\ e + 1 = Len(o)  BY <1>0, Types
<1>2. Low(o[e + 1]) \in Byte /\ 0 \in Byte
  <2>1. 1 \in 1 .. Len(o) - e  BY <1>0
  <2>2. Low(o[e + 1]) \in Byte  BY <1>0, <2>1, CharacterByte
  <2> QED  BY <2>2 DEF Byte
<1> DEFINE x == Low(o[e + 1])
<1> HIDE DEF x
<1>3. x \in Byte /\ x = Low(o[e + 1])  BY <1>2 DEF x
<1>4. /\ x \div 4 \in Digit /\ (x % 4) * 16 \in Digit
      /\ Digits24(x \div 4, (x % 4) * 16, 0, 0) = Bytes24(x, 0, 0)
  BY <1>2, <1>3, GroupDigits, GroupsDecode
<1> DEFINE d1 == x \div 4  d2 == (x % 4) * 16
<1>5. Encode(1, <<d1, d2, Pad, Pad>>)  BY <1>0, <1>3, Zenon DEF Group1
<1>6. d1 \in Digit /\ d2 \in Digit /\ Digits24(d1, d2, Bits(Pad), Bits(Pad)) = Bytes24(x, 0, 0)
  BY <1>4 DEF Bits
<1> HIDE DEF d1, d2
<1> QED  BY <1>0, <1>1, <1>2, <1>3, <1>5, <1>6, EncodeStep

LEMMA Encode2Inv == ASSUME Inv, EncodesCipher, Encode2 PROVE Inv' /\ EncodesCipher'
<1>0. /\ pc = "encode" /\ Len(o) - e = 2 /\ TypeOK
      /\ Encode(2, Group2(Low(o[e + 1]), Low(o[e + 2])))
  BY Zenon DEF Encode2, Inv
<1>1. Len(o) \in Nat /\ e \in Nat /\ e + 2 = Len(o)  BY <1>0, Types
<1>2. Low(o[e + 1]) \in Byte /\ Low(o[e + 2]) \in Byte /\ 0 \in Byte
  <2>1. 1 \in 1 .. Len(o) - e /\ 2 \in 1 .. Len(o) - e  BY <1>0
  <2>2. Low(o[e + 1]) \in Byte /\ Low(o[e + 2]) \in Byte  BY <1>0, <2>1, CharacterByte
  <2> QED  BY <2>2 DEF Byte
<1> DEFINE x == Low(o[e + 1])  y == Low(o[e + 2])
<1> HIDE DEF x, y
<1>3. x \in Byte /\ x = Low(o[e + 1]) /\ y \in Byte /\ y = Low(o[e + 2])  BY <1>2 DEF x, y
<1>4. /\ x \div 4 \in Digit /\ (x % 4) * 16 + y \div 16 \in Digit
      /\ (y % 16) * 4 \in Digit /\ Pad \notin Digit
      /\ Digits24(x \div 4, (x % 4) * 16 + y \div 16, (y % 16) * 4, 0) = Bytes24(x, y, 0)
  BY <1>2, <1>3, GroupDigits, GroupsDecode
<1> DEFINE d1 == x \div 4  d2 == (x % 4) * 16 + y \div 16  d3 == (y % 16) * 4
<1>5. Encode(2, <<d1, d2, d3, Pad>>)  BY <1>0, <1>3, Zenon DEF Group2
<1>6. /\ d1 \in Digit /\ d2 \in Digit /\ d3 \in Digit
      /\ Digits24(d1, d2, Bits(d3), Bits(Pad)) = Bytes24(x, y, 0)
  BY <1>4 DEF Bits
<1> HIDE DEF d1, d2, d3
<1> QED  BY <1>0, <1>1, <1>2, <1>3, <1>5, <1>6, EncodeStep

LEMMA Encode3Inv == ASSUME Inv, EncodesCipher, Encode3 PROVE Inv' /\ EncodesCipher'
<1>0. /\ pc = "encode" /\ Len(o) - e >= 3 /\ TypeOK
      /\ Encode(3, Group(Low(o[e + 1]), Low(o[e + 2]), Low(o[e + 3])))
  BY Zenon DEF Encode3, Inv
<1>1. Len(o) \in Nat /\ e \in Nat  BY <1>0, Types
<1>2. Low(o[e + 1]) \in Byte /\ Low(o[e + 2]) \in Byte /\ Low(o[e + 3]) \in Byte
  BY <1>0, <1>1, CharacterByte
<1> DEFINE x == Low(o[e + 1])  y == Low(o[e + 2])  z == Low(o[e + 3])
<1> HIDE DEF x, y, z
<1>3. /\ x \in Byte /\ x = Low(o[e + 1]) /\ y \in Byte /\ y = Low(o[e + 2])
      /\ z \in Byte /\ z = Low(o[e + 3])
  BY <1>2 DEF x, y, z
<1>4. /\ x \div 4 \in Digit /\ (x % 4) * 16 + y \div 16 \in Digit
      /\ (y % 16) * 4 + z \div 64 \in Digit /\ z % 64 \in Digit /\ Pad \notin Digit
      /\ Digits24(x \div 4, (x % 4) * 16 + y \div 16, (y % 16) * 4 + z \div 64, z % 64)
           = Bytes24(x, y, z)
  BY <1>3, GroupDigits, GroupsDecode
<1> DEFINE d1 == x \div 4  d2 == (x % 4) * 16 + y \div 16
           d3 == (y % 16) * 4 + z \div 64  d4 == z % 64
<1>5. Encode(3, <<d1, d2, d3, d4>>)  BY <1>0, <1>3, Zenon DEF Group
<1>6. /\ d1 \in Digit /\ d2 \in Digit /\ d3 \in Digit /\ d4 \in Digit
      /\ Digits24(d1, d2, Bits(d3), Bits(d4)) = Bytes24(x, y, z)
  BY <1>4 DEF Bits
<1> HIDE DEF d1, d2, d3, d4
<1> QED  BY <1>0, <1>1, <1>3, <1>5, <1>6, EncodeStep

LEMMA ReturnInv == ASSUME Inv, Return PROVE Inv' /\ UNCHANGED <<o, e, enc>>
<1>0. /\ pc = "encode" /\ e = Len(o) /\ pc' = "done"
      /\ UNCHANGED <<key, text, q, u, i, p, o, e, enc>> /\ TypeOK /\ Shuffled
  BY Zenon DEF Return, Inv
<1>1. Len(o) \in Nat  BY <1>0, Types
<1>2. TypeOK' /\ Shuffled'  BY <1>0, Types, Zenon DEF TypeOK, Shuffled
<1>3. Aligned'  BY <1>0, <1>1 DEF Aligned
<1> QED  BY <1>0, <1>2, <1>3 DEF Inv

----------------------------------------------------------------------------
\* The cipher's loops write no digit, and what was written stands while e and o do.
LEMMA EncodesKept ==
    ASSUME EncodesCipher, UNCHANGED <<e, enc>>, e = 0 \/ o' = o
    PROVE  EncodesCipher'
<1>1. \A n : Value(n)' = Value(n)  BY DEF Value
<1>2. CASE o' = o
  BY <1>1, <1>2 DEF EncodesCipher, ByteAt
<1>3. CASE e = 0
  <2>1. \A n \in Nat : ByteAt(n) = 0 /\ ByteAt(n)' = 0  BY <1>3 DEF ByteAt
  <2>2. \A n \in 0 .. (Len(enc) \div 4) - 1 : 3 * n \in Nat /\ 3 * n + 1 \in Nat /\ 3 * n + 2 \in Nat
    OBVIOUS
  <2> QED  BY <1>1, <2>1, <2>2 DEF EncodesCipher
<1> QED  BY <1>2, <1>3

LEMMA Invariance == Spec => [](Inv /\ EncodesCipher)
<1>1. Init => Inv /\ EncodesCipher
  BY InitInv
<1>2. Inv /\ EncodesCipher /\ [Next]_vars => (Inv /\ EncodesCipher)'
  <2> SUFFICES ASSUME Inv, EncodesCipher, [Next]_vars PROVE (Inv /\ EncodesCipher)'
    OBVIOUS
  <2>1. CASE Schedule  BY <2>1, ScheduleInv, EncodesKept
  <2>2. CASE Turn  BY <2>2, TurnInv, EncodesKept
  <2>3. CASE Stream  BY <2>3, StreamInv, EncodesKept
  <2>4. CASE StreamEnd  BY <2>4, StreamEndInv, EncodesKept
  <2>5. CASE Encode1  BY <2>5, Encode1Inv
  <2>6. CASE Encode2  BY <2>6, Encode2Inv
  <2>7. CASE Encode3  BY <2>7, Encode3Inv
  <2>8. CASE Return  BY <2>8, ReturnInv, EncodesKept
  <2>9. CASE UNCHANGED vars
    BY <2>9, Zenon DEF vars, Inv, TypeOK, Shuffled, Aligned, EncodesCipher, Value, ByteAt
  <2> QED  BY <2>1, <2>2, <2>3, <2>4, <2>5, <2>6, <2>7, <2>8, <2>9, Zenon DEF Next
<1> QED  BY <1>1, <1>2, PTL DEF Spec

\* Every index of the script is inside its array, for every key and text (lines 1 to 56).
THEOREM SignTypeCorrect == Spec => []TypeOK
<1>1. Inv => TypeOK  BY DEF Inv
<1> QED  BY <1>1, Invariance, PTL

\* The exchanges keep the bytes a permutation, with any key and after any number of characters.
THEOREM StaysShuffled == Spec => []Shuffled
<1>1. Inv => Shuffled  BY DEF Inv
<1> QED  BY <1>1, Invariance, PTL

\* What base64encode writes decodes to the low bytes of the cipher text, whatever its length.
THEOREM SignatureDecodes == Spec => []EncodesCipher
BY Invariance, PTL
============================================================================
