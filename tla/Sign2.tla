------------------------------- MODULE Sign2 -------------------------------
(* The signature a download link is asked for with: the script of the disk's home page, which    *)
(* panhome/sign.go ports. A key shuffles the bytes 0..255, the shuffled bytes mask a text, and   *)
(* the result is written in base 64. Characters are their code units; a letter of the base 64    *)
(* alphabet is its position in it, and Pad the sign "=".                                         *)
EXTENDS Integers, Sequences

CONSTANTS Keys,        \* the keys to sign with (sign3 of the home page)
          Texts,       \* the texts to sign (sign1 of the home page)
          MaxUnit,     \* the largest code unit in either
          BitXor(_, _)    \* bitwise exclusive or

Byte == 0 .. 255
Unit == 0 .. MaxUnit

ASSUME Sign2Assumption ==
    /\ MaxUnit \in Nat
    /\ Keys \subseteq Seq(Unit) \ {<<>>}
    /\ Texts \subseteq Seq(Unit)
    /\ \A c \in Unit, k \in Byte : BitXor(c, k) \in Unit

Digit == 0 .. 63
Pad   == 64

VARIABLES key, text,   \* the arguments of s: j and r
          pc,          \* the loop that runs: "schedule", "stream", "encode", and "done"
          q, u, i, p,  \* the variables of s
          o,           \* what s returns
          e, enc       \* base64encode: its position in o, its result

vars == <<key, text, pc, q, u, i, p, o, e, enc>>

Init == /\ key \in Keys /\ text \in Texts
        /\ pc = "schedule"
        /\ q = 0 /\ u = 0 /\ i = 0
        /\ p = [n \in Byte |-> n]
        /\ o = <<>> /\ e = 0 /\ enc = <<>>

----------------------------------------------------------------------------
(* The cipher. *)

\* a[n]: the key, repeated.
KeyUnit(n) == key[(n % Len(key)) + 1]

\* Mutant: the exchange without the variable t.
SwapLosing(f, x, y) == [f EXCEPT ![x] = f[y], ![y] = f[y]]
Swap(f, x, y) == [f EXCEPT ![x] = f[y], ![y] = f[x]]

\* Mutant: the modulus is left out.
ScheduleUnreduced ==
    /\ pc = "schedule" /\ q < 256
    /\ u' = u + p[q] + KeyUnit(q)
    /\ p' = Swap(p, q, u' % 256)
    /\ q' = q + 1
    /\ UNCHANGED <<key, text, pc, i, o, e, enc>>

Schedule ==
    /\ pc = "schedule" /\ q < 256
    /\ u' = (u + p[q] + KeyUnit(q)) % 256
    /\ p' = Swap(p, q, u')
    /\ q' = q + 1
    /\ UNCHANGED <<key, text, pc, i, o, e, enc>>

\* Mutant: u keeps its value between the loops.
TurnKeeping ==
    /\ pc = "schedule" /\ q = 256
    /\ pc' = "stream"
    /\ q' = 0 /\ i' = 0
    /\ UNCHANGED <<key, text, u, p, o, e, enc>>

\* The third loop begins with i = u = q = 0.
Turn ==
    /\ pc = "schedule" /\ q = 256
    /\ pc' = "stream"
    /\ q' = 0 /\ u' = 0 /\ i' = 0
    /\ UNCHANGED <<key, text, p, o, e, enc>>

\* The byte of the shuffled bytes that masks a character.
Mask(f, x, y) == f[(f[x] + f[y]) % 256]

Stream ==
    /\ pc = "stream" /\ q < Len(text)
    /\ i' = (i + 1) % 256
    /\ u' = (u + p[i']) % 256
    /\ p' = Swap(p, i', u')
    /\ o' = Append(o, BitXor(text[q + 1], Mask(p', i', u')))
    /\ q' = q + 1
    /\ UNCHANGED <<key, text, pc, e, enc>>

StreamEnd ==
    /\ pc = "stream" /\ q = Len(text)
    /\ pc' = "encode"
    /\ UNCHANGED <<key, text, q, u, i, p, o, e, enc>>

----------------------------------------------------------------------------
(* base64encode. The masks of the script keep the low byte of every character. *)

Low(c) == c % 256

\* The four digits of three bytes.
Group(x, y, z) == << x \div 4, (x % 4) * 16 + y \div 16, (y % 16) * 4 + z \div 64, z % 64 >>

\* Mutant: the last digit of two bytes takes no shift.
Group2Unshifted(x, y) == << x \div 4, (x % 4) * 16 + y \div 16, y % 16, Pad >>

Group1(x)    == << x \div 4, (x % 4) * 16, Pad, Pad >>
Group2(x, y) == << x \div 4, (x % 4) * 16 + y \div 16, (y % 16) * 4, Pad >>

Encode(n, digits) ==
    /\ enc' = enc \o digits
    /\ e' = e + n
    /\ UNCHANGED <<key, text, pc, q, u, i, p, o>>

Encode1 == /\ pc = "encode" /\ Len(o) - e = 1
           /\ Encode(1, Group1(Low(o[e + 1])))

Encode2 == /\ pc = "encode" /\ Len(o) - e = 2
           /\ Encode(2, Group2(Low(o[e + 1]), Low(o[e + 2])))

Encode3 == /\ pc = "encode" /\ Len(o) - e >= 3
           /\ Encode(3, Group(Low(o[e + 1]), Low(o[e + 2]), Low(o[e + 3])))

Return == /\ pc = "encode" /\ e = Len(o)
          /\ pc' = "done"
          /\ UNCHANGED <<key, text, q, u, i, p, o, e, enc>>

Next == Schedule \/ Turn \/ Stream \/ StreamEnd \/ Encode1 \/ Encode2 \/ Encode3 \/ Return

Spec == Init /\ [][Next]_vars

----------------------------------------------------------------------------
(* Properties. *)

\* The types, and the bounds that keep every index of the script inside its array.
TypeOK == /\ key \in Keys /\ text \in Texts
          /\ pc \in {"schedule", "stream", "encode", "done"}
          /\ u \in Byte /\ i \in Byte
          /\ p \in [Byte -> Byte]
          /\ o \in Seq(Unit)
          /\ pc = "schedule" => q \in 0 .. 256 /\ o = <<>>
          /\ pc # "schedule" => q \in 0 .. Len(text) /\ Len(o) = q
          /\ e \in 0 .. Len(o)
          /\ enc \in Seq(Digit \cup {Pad})

\* The exchanges through the variable t (lines 14-16 and 22-24) lose no byte: p is a
\* permutation of 0..255 after any number of them, with any key.
Shuffled == {p[m] : m \in Byte} = Byte

\* What a decoder makes of the n-th group of four digits: a number of 24 bits, Pad counting as 0.
Bits(d)  == IF d = Pad THEN 0 ELSE d
Digits24(d1, d2, d3, d4) == 262144 * d1 + 4096 * d2 + 64 * d3 + d4
Value(n) == Digits24(Bits(enc[4 * n + 1]), Bits(enc[4 * n + 2]),
                     Bits(enc[4 * n + 3]), Bits(enc[4 * n + 4]))

\* The numbers three bytes stand for.
Bytes24(x, y, z) == 65536 * x + 256 * y + z

\* The byte at n of what was encoded, and zero behind it.
ByteAt(n) == IF n < e THEN Low(o[n + 1]) ELSE 0

\* The digits written so far decode to the low bytes of the characters read so far, which are
\* the bytes the Go port encodes, with zeros behind the last one: for every length of the text modulo 3
\* and for characters above 255 (lines 36 to 55).
EncodesCipher ==
    /\ 4 * e <= 3 * Len(enc) /\ 3 * Len(enc) < 4 * e + 12 /\ Len(enc) % 4 = 0
    /\ \A n \in 0 .. (Len(enc) \div 4) - 1 :
          Value(n) = Bytes24(ByteAt(3 * n), ByteAt(3 * n + 1), ByteAt(3 * n + 2))
=============================================================================
