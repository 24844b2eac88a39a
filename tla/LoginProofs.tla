---------------------------- MODULE LoginProofs ----------------------------
(***************************************************************************)
(* client_handshake_response reads a HandshakeResponse back: for every     *)
(* client that says how long its password hash is and that leaves no       *)
(* string empty, the parser returns the fields that the client wrote,      *)
(* whichever the flags announce and however long they are.                 *)
(*                                                                         *)
(* Decoding gives back the tenant key that was encoded, for every key      *)
(* whose lengths fit, and a login is split into that key and the user.     *)
(* As the HandshakeResponse is read back, a login on bytes is a login as   *)
(* TenantKey has it, and the server is asked for what the client meant, in *)
(* numbered packets.                                                       *)
(***************************************************************************)
EXTENDS Handshake, WellFoundedInduction, TLAPS

(* The facts on sequences that the proofs use.                             *)
LEMMA LenProperties ==
  ASSUME NEW S, NEW s \in Seq(S)
  PROVE  Len(s) \in Nat /\ s \in [1..Len(s) -> S] /\ DOMAIN s = 1..Len(s)
  OBVIOUS

LEMMA SeqEqual ==
  ASSUME NEW S, NEW s \in Seq(S), NEW t \in Seq(S), Len(s) = Len(t),
         \A i \in 1..Len(s) : s[i] = t[i]
  PROVE  s = t
  OBVIOUS

LEMMA ConcatProperties ==
  ASSUME NEW S, NEW s \in Seq(S), NEW t \in Seq(S)
  PROVE  /\ s \o t \in Seq(S) /\ Len(s \o t) = Len(s) + Len(t)
         /\ \A i \in 1..(Len(s) + Len(t)) :
              (s \o t)[i] = (IF i <= Len(s) THEN s[i] ELSE t[i - Len(s)])
  OBVIOUS

LEMMA SubSeqProperties ==
  ASSUME NEW S, NEW s, NEW m \in Int, NEW n \in Int, \A i \in m..n : s[i] \in S
  PROVE  /\ SubSeq(s, m, n) \in Seq(S)
         /\ Len(SubSeq(s, m, n)) = (IF m <= n THEN n - m + 1 ELSE 0)
         /\ \A i \in 1..(n - m + 1) : SubSeq(s, m, n)[i] = s[m + i - 1]
  OBVIOUS

LEMMA FunctionIsSeq ==
  ASSUME NEW S, NEW n \in Nat, NEW s \in [1..n -> S]
  PROVE  s \in Seq(S)
  OBVIOUS

(* A piece of a string is found where it lies.                             *)
LEMMA Slice ==
  ASSUME NEW C, NEW s \in Seq(C), NEW t \in Seq(C), NEW off \in Nat,
         off + Len(t) <= Len(s),
         \A i \in 1..Len(t) : s[off + i] = t[i]
  PROVE  SubSeq(s, off + 1, off + Len(t)) = t
<1> DEFINE u == SubSeq(s, off + 1, off + Len(t))
<1>1. \A i \in (off + 1)..(off + Len(t)) : s[i] \in C
  OBVIOUS
<1>2. /\ u \in Seq(C)
      /\ Len(u) = Len(t)
      /\ \A i \in 1..Len(t) : u[i] = s[off + i]
  <2>1. off + 1 \in Int /\ off + Len(t) \in Int /\ Len(t) \in Nat
    OBVIOUS
  <2>2. /\ u \in Seq(C)
        /\ Len(u) = IF off + 1 <= off + Len(t)
                      THEN off + Len(t) - (off + 1) + 1 ELSE 0
        /\ \A i \in 1..(off + Len(t) - (off + 1) + 1) : u[i] = s[off + 1 + i - 1]
    BY <1>1, <2>1, SubSeqProperties
  <2> HIDE DEF u
  <2> QED
    BY <2>1, <2>2
<1> HIDE DEF u
<1>3. u = t
  BY <1>2, SeqEqual
<1> QED
  BY <1>3 DEF u

----------------------------------------------------------------------------
(* Tenant keys, and the login.                                             *)

(* A letter that was moved is moved back.                                  *)
LEMMA CharRestored ==
  ASSUME NEW c \in Char, NEW index \in Nat
  PROVE  /\ ObfuscateChar(c, index) \in Char
         /\ RestoreChar(ObfuscateChar(c, index), index) = c
<1> DEFINE sh == Shift(index)
<1>1. sh \in 0..25
  BY DEF Shift
<1>2. CASE ~IsAlphabetic(c)
  BY <1>2 DEF ObfuscateChar, RestoreChar
<1>3. CASE IsAlphabetic(c)
  <2> DEFINE b == Base(c)
             o == b + ((c - b + 26 - sh) % 26)
  <2>1. b \in {65, 97} /\ c - b \in 0..25
    BY <1>3 DEF Base, IsAlphabetic, IsLower
  <2>2. ObfuscateChar(c, index) = o
    BY <1>3 DEF ObfuscateChar
  <2> HIDE DEF sh, b
  <2>3. o - b \in 0..25 /\ o \in b..(b + 25)
    BY <1>1, <2>1
  <2>4. IsAlphabetic(o) /\ Base(o) = b
    BY <2>1, <2>3 DEF IsAlphabetic, Base, IsLower
  <2>5. b + ((o - b + sh) % 26) = c
    <3>1. CASE c - b >= sh
      <4>1. o = c - sh
        BY <1>1, <2>1, <3>1 DEF Char
      <4> QED
        BY <1>1, <2>1, <4>1 DEF Char
    <3>2. CASE c - b < sh
      <4>1. o = c + 26 - sh
        BY <1>1, <2>1, <3>2 DEF Char
      <4> QED
        BY <1>1, <2>1, <4>1 DEF Char
    <3> QED
      BY <1>1, <2>1, <3>1, <3>2 DEF Char
  <2>6. RestoreChar(o, index) = c
    BY <2>4, <2>5 DEF RestoreChar, sh
  <2> QED
    BY <2>1, <2>2, <2>3, <2>6 DEF Char
<1> QED
  BY <1>2, <1>3

LEMMA StringRestored ==
  ASSUME NEW s \in Seq(Char)
  PROVE  /\ ObfuscateString(s) \in Seq(Char)
         /\ Len(ObfuscateString(s)) = Len(s)
         /\ RestoreString(ObfuscateString(s)) = s
<1>1. \A i \in 1..Len(s) : s[i] \in Char /\ i - 1 \in Nat
  OBVIOUS
<1>2. \A i \in 1..Len(s) :
        /\ ObfuscateChar(s[i], i - 1) \in Char
        /\ RestoreChar(ObfuscateChar(s[i], i - 1), i - 1) = s[i]
  BY <1>1, CharRestored
<1>3. ObfuscateString(s) \in Seq(Char) /\ Len(ObfuscateString(s)) = Len(s)
  BY <1>2 DEF ObfuscateString
<1>4. RestoreString(ObfuscateString(s)) = [i \in 1..Len(s) |-> s[i]]
  BY <1>2, <1>3 DEF RestoreString, ObfuscateString
<1> QED
  BY <1>3, <1>4

(* A digit is read back.                                                   *)
LEMMA DigitRestored ==
  ASSUME NEW v \in 0..(HexBase - 1)
  PROVE  /\ HexDigit(v) \in Char
         /\ IsHex(HexDigit(v)) /\ HexValue(HexDigit(v)) = v
BY TenantAssumption DEF HexDigit, HexValue, IsHex, Char

(* A byte is two digits.                                                   *)
LEMMA ByteDigits ==
  ASSUME NEW n \in Nat, n < ByteMod
  PROVE  /\ n \div HexBase \in 0..(HexBase - 1)
         /\ n % HexBase \in 0..(HexBase - 1)
         /\ (n \div HexBase) * HexBase + (n % HexBase) = n
BY TenantAssumption DEF ByteMod

LEMMA SmallMod ==
  ASSUME NEW n \in Nat, NEW mod \in Nat, n < mod
  PROVE  n % mod = n
OBVIOUS

LEMMA ModRange ==
  ASSUME NEW n \in Nat, NEW mod \in Nat, mod > 0
  PROVE  n % mod \in Nat /\ n % mod < mod
OBVIOUS

LEMMA LengthOf ==
  ASSUME NEW n \in Nat, NEW s \in [1..n -> Char]
  PROVE  s \in Seq(Char) /\ Len(s) = n
<1>1. s \in Seq(Char)
  BY FunctionIsSeq
<1>2. Len(s) \in Nat /\ DOMAIN s = 1..Len(s)
  BY <1>1, LenProperties
<1>3. 1..Len(s) = 1..n
  BY <1>2
<1>4. Len(s) <= n
  <2>1. CASE Len(s) > n
    <3>1. Len(s) \in 1..Len(s) /\ Len(s) \notin 1..n
      BY <1>2, <2>1
    <3> QED
      BY <1>3, <3>1
  <2> QED
    BY <1>2, <2>1
<1>5. Len(s) >= n
  <2>1. CASE Len(s) < n
    <3>1. n \in 1..n /\ n \notin 1..Len(s)
      BY <1>2, <2>1
    <3> QED
      BY <1>3, <3>1
  <2> QED
    BY <1>2, <2>1
<1> QED
  BY <1>1, <1>2, <1>4, <1>5

(* s is the five strings h, a, b, c and d, one after the other.            *)
Pieces(s, h, a, b, c, d) ==
  /\ s \in Seq(Char)
  /\ Len(s) = Len(h) + Len(a) + Len(b) + Len(c) + Len(d)
  /\ \A i \in 1..Len(h) : s[i] = h[i]
  /\ \A i \in 1..Len(a) : s[Len(h) + i] = a[i]
  /\ \A i \in 1..Len(b) : s[Len(h) + Len(a) + i] = b[i]
  /\ \A i \in 1..Len(c) : s[Len(h) + Len(a) + Len(b) + i] = c[i]
  /\ \A i \in 1..Len(d) : s[Len(h) + Len(a) + Len(b) + Len(c) + i] = d[i]

(* Two strings, one after the other.                                       *)
LEMMA TwoPieces ==
  ASSUME NEW s \in Seq(Char), NEW t \in Seq(Char)
  PROVE  /\ s \o t \in Seq(Char)
         /\ Len(s \o t) = Len(s) + Len(t)
         /\ \A i \in 1..Len(s) : i \in 1..Len(s \o t) /\ (s \o t)[i] = s[i]
         /\ \A i \in 1..Len(t) : Len(s) + i \in 1..Len(s \o t)
                                 /\ (s \o t)[Len(s) + i] = t[i]
OBVIOUS

LEMMA FivePieces ==
  ASSUME NEW h \in Seq(Char), NEW a \in Seq(Char), NEW b \in Seq(Char),
         NEW c \in Seq(Char), NEW d \in Seq(Char)
  PROVE  Pieces(h \o a \o b \o c \o d, h, a, b, c, d)
<1> DEFINE s1 == h \o a
           s2 == s1 \o b
           s3 == s2 \o c
           s4 == s3 \o d
<1>1. /\ s1 \in Seq(Char) /\ Len(s1) = Len(h) + Len(a)
      /\ \A i \in 1..Len(h) : i \in 1..Len(s1) /\ s1[i] = h[i]
      /\ \A i \in 1..Len(a) : Len(h) + i \in 1..Len(s1) /\ s1[Len(h) + i] = a[i]
  BY TwoPieces, Zenon
<1> HIDE DEF s1
<1>2. /\ s2 \in Seq(Char) /\ Len(s2) = Len(s1) + Len(b)
      /\ \A i \in 1..Len(s1) : i \in 1..Len(s2) /\ s2[i] = s1[i]
      /\ \A i \in 1..Len(b) : Len(s1) + i \in 1..Len(s2) /\ s2[Len(s1) + i] = b[i]
  BY <1>1, TwoPieces, Zenon
<1> HIDE DEF s2
<1>3. /\ s3 \in Seq(Char) /\ Len(s3) = Len(s2) + Len(c)
      /\ \A i \in 1..Len(s2) : i \in 1..Len(s3) /\ s3[i] = s2[i]
      /\ \A i \in 1..Len(c) : Len(s2) + i \in 1..Len(s3) /\ s3[Len(s2) + i] = c[i]
  BY <1>2, TwoPieces, Zenon
<1> HIDE DEF s3
<1>4. /\ s4 \in Seq(Char) /\ Len(s4) = Len(s3) + Len(d)
      /\ \A i \in 1..Len(s3) : i \in 1..Len(s4) /\ s4[i] = s3[i]
      /\ \A i \in 1..Len(d) : Len(s3) + i \in 1..Len(s4) /\ s4[Len(s3) + i] = d[i]
  BY <1>3, TwoPieces, Zenon
<1> HIDE DEF s4
<1>5. \A i \in 1..Len(s2) : s4[i] = s2[i]
  BY <1>3, <1>4, Zenon
<1>6. \A i \in 1..Len(s1) : s4[i] = s1[i]
  BY <1>2, <1>5, Zenon
<1>7. \A i \in 1..Len(h) : s4[i] = h[i]
  BY <1>1, <1>6, Zenon
<1>8. \A i \in 1..Len(a) : s4[Len(h) + i] = a[i]
  BY <1>1, <1>6, Zenon
<1>9. \A i \in 1..Len(b) : s4[Len(s1) + i] = b[i]
  BY <1>2, <1>5, Zenon
<1>10. \A i \in 1..Len(c) : s4[Len(s2) + i] = c[i]
  BY <1>3, <1>4, Zenon
<1>11. /\ Len(s1) = Len(h) + Len(a)
       /\ Len(s2) = Len(h) + Len(a) + Len(b)
       /\ Len(s3) = Len(h) + Len(a) + Len(b) + Len(c)
       /\ Len(s4) = Len(h) + Len(a) + Len(b) + Len(c) + Len(d)
  BY <1>1, <1>2, <1>3, <1>4, Zenon
<1>12. Pieces(s4, h, a, b, c, d)
  BY <1>4, <1>7, <1>8, <1>9, <1>10, <1>11, Zenon DEF Pieces
<1>13. s4 = h \o a \o b \o c \o d
  BY DEF s1, s2, s3, s4
<1> QED
  BY <1>12, <1>13, Zenon

(* The header holds the lengths.                                           *)
LEMMA HeaderHolds ==
  ASSUME NEW k \in [1..4 -> Seq(Char)], LengthsFit(k)
  PROVE  /\ Header(k) \in Seq(Char) /\ Len(Header(k)) = 8
         /\ \A i \in 1..8 : IsHex(Header(k)[i])
         /\ \A i \in 1..4 : KeyLen(Header(k), i) = Len(k[i])
<1> DEFINE len(i) == Len(k[i])
           hi(i) == len(i) \div HexBase
           lo(i) == len(i) % HexBase
<1>1. \A i \in 1..4 : len(i) \in Nat /\ len(i) < ByteMod /\ LenByte(k[i]) = len(i)
  <2>1. ByteMod \in Nat
    BY TenantAssumption DEF ByteMod
  <2>2. \A i \in 1..4 : len(i) \in Nat /\ len(i) < ByteMod
    BY DEF LengthsFit
  <2> QED
    BY <2>1, <2>2, SmallMod, Zenon DEF LenByte
<1>2. \A i \in 1..4 : /\ hi(i) \in 0..(HexBase - 1) /\ lo(i) \in 0..(HexBase - 1)
                      /\ hi(i) * HexBase + lo(i) = len(i)
  BY <1>1, ByteDigits, Zenon
<1> HIDE DEF len
<1>3. \A i \in 1..8 : (i + 1) \div 2 \in 1..4
  OBVIOUS
<1>4. Header(k) = [i \in 1..8 |-> HexDigit(IF i % 2 = 1 THEN hi((i + 1) \div 2)
                                           ELSE lo((i + 1) \div 2))]
  BY <1>1, <1>3 DEF Header
<1> HIDE DEF hi, lo
<1>5. \A i \in 1..8 : Header(k)[i] \in Char /\ IsHex(Header(k)[i])
  BY <1>2, <1>3, <1>4, DigitRestored, Zenon
<1>6. Header(k) \in [1..8 -> Char]
  BY <1>4, <1>5
<1>7. Header(k) \in Seq(Char) /\ Len(Header(k)) = 8
  BY <1>6, LengthOf, Zenon
<1>8. ASSUME NEW i \in 1..4
      PROVE  KeyLen(Header(k), i) = Len(k[i])
  <2>1. 2 * i - 1 \in 1..8 /\ (2 * i - 1) % 2 = 1 /\ ((2 * i - 1) + 1) \div 2 = i
    OBVIOUS
  <2>2. 2 * i \in 1..8 /\ (2 * i) % 2 # 1 /\ (2 * i + 1) \div 2 = i
    OBVIOUS
  <2>3. Header(k)[2 * i - 1] = HexDigit(hi(i))
    BY <1>4, <2>1
  <2>4. Header(k)[2 * i] = HexDigit(lo(i))
    BY <1>4, <2>2
  <2>5. HexValue(HexDigit(hi(i))) = hi(i) /\ HexValue(HexDigit(lo(i))) = lo(i)
    BY <1>2, DigitRestored, ZenonT(60)
  <2> QED
    BY <1>2, <2>3, <2>4, <2>5, Zenon DEF KeyLen, len
<1> QED
  BY <1>5, <1>7, <1>8

(* decode_tenant_key undoes encode_tenant_key for every tenant key whose   *)
(* lengths, and the sum of the first three, fit into a byte                *)
(* (backend/mod.rs:60-102); its test has one such key.                     *)
THEOREM KeyRoundTrip ==
  ASSUME NEW k \in [1..4 -> Seq(Char)], LengthsFit(k)
  PROVE  /\ EncodeTenantKey(k) \in Seq(Char)
         /\ Decodable(EncodeTenantKey(k))
         /\ DecodeTenantKey(EncodeTenantKey(k)) = k
<1> DEFINE s == EncodeTenantKey(k)
           h == Header(k)
           f(i) == ObfuscateString(k[i])
           n(i) == Len(k[i])
<1>1. \A i \in 1..4 : /\ f(i) \in Seq(Char) /\ Len(f(i)) = n(i) /\ n(i) \in Nat
                      /\ RestoreString(f(i)) = k[i]
  BY StringRestored
<1>2. h \in Seq(Char) /\ Len(h) = 8
  BY HeaderHolds
<1>3. /\ s \in Seq(Char)
      /\ Len(s) = 8 + n(1) + n(2) + n(3) + n(4)
      /\ \A i \in 1..8 : s[i] = h[i]
      /\ \A i \in 1..n(1) : s[8 + i] = f(1)[i]
      /\ \A i \in 1..n(2) : s[8 + n(1) + i] = f(2)[i]
      /\ \A i \in 1..n(3) : s[8 + n(1) + n(2) + i] = f(3)[i]
      /\ \A i \in 1..n(4) : s[8 + n(1) + n(2) + n(3) + i] = f(4)[i]
  <2>1. s = h \o f(1) \o f(2) \o f(3) \o f(4)
    BY DEF EncodeTenantKey
  <2>2. /\ f(1) \in Seq(Char) /\ f(2) \in Seq(Char) /\ f(3) \in Seq(Char)
        /\ f(4) \in Seq(Char)
        /\ Len(f(1)) = n(1) /\ Len(f(2)) = n(2) /\ Len(f(3)) = n(3)
        /\ Len(f(4)) = n(4)
    BY <1>1
  <2> HIDE DEF s, h, f, n
  <2>3. Pieces(h \o f(1) \o f(2) \o f(3) \o f(4), h, f(1), f(2), f(3), f(4))
    BY <1>2, <2>2, FivePieces, Zenon
  <2>4. Pieces(s, h, f(1), f(2), f(3), f(4))
    BY <2>1, <2>3, Zenon
  <2> QED
    BY <1>2, <2>2, <2>4, Zenon DEF Pieces
<1> HIDE DEF s, f
<1>4. \A i \in 1..4 : KeyLen(s, i) = n(i)
  <2>1. \A i \in 1..4 : 2 * i - 1 \in 1..8 /\ 2 * i \in 1..8
    OBVIOUS
  <2>2. \A i \in 1..4 : KeyLen(s, i) = KeyLen(h, i)
    BY <1>3, <2>1, ZenonT(60) DEF KeyLen
  <2> QED
    BY <2>2, HeaderHolds, ZenonT(60)
<1>5. PICK n1 \in Nat, n2 \in Nat, n3 \in Nat, n4 \in Nat :
        n1 = n(1) /\ n2 = n(2) /\ n3 = n(3) /\ n4 = n(4)
  BY <1>1
<1>6. /\ Len(s) = 8 + n1 + n2 + n3 + n4
      /\ KeyLen(s, 1) = n1 /\ KeyLen(s, 2) = n2 /\ KeyLen(s, 3) = n3
      /\ KeyLen(s, 4) = n4
      /\ f(1) \in Seq(Char) /\ f(2) \in Seq(Char) /\ f(3) \in Seq(Char)
      /\ f(4) \in Seq(Char)
      /\ Len(f(1)) = n1 /\ Len(f(2)) = n2 /\ Len(f(3)) = n3 /\ Len(f(4)) = n4
      /\ \A i \in 1..n1 : s[8 + i] = f(1)[i]
      /\ \A i \in 1..n2 : s[8 + n1 + i] = f(2)[i]
      /\ \A i \in 1..n3 : s[8 + n1 + n2 + i] = f(3)[i]
      /\ \A i \in 1..n4 : s[8 + n1 + n2 + n3 + i] = f(4)[i]
      /\ n1 + n2 + n3 < ByteMod /\ ByteMod \in Nat
  <2>1. n(1) + n(2) + n(3) < ByteMod /\ ByteMod \in Nat
    BY TenantAssumption DEF LengthsFit, ByteMod
  <2> HIDE DEF n, h
  <2>2. /\ KeyLen(s, 1) = n1 /\ KeyLen(s, 2) = n2 /\ KeyLen(s, 3) = n3
        /\ KeyLen(s, 4) = n4
        /\ f(1) \in Seq(Char) /\ f(2) \in Seq(Char) /\ f(3) \in Seq(Char)
        /\ f(4) \in Seq(Char)
        /\ Len(f(1)) = n1 /\ Len(f(2)) = n2 /\ Len(f(3)) = n3 /\ Len(f(4)) = n4
    BY <1>1, <1>4, <1>5
  <2> QED
    BY <1>3, <1>5, <2>1, <2>2, Zenon
<1>12. Len(s) = 8 + n1 + n2 + n3 + n4
  BY <1>6, Zenon
<1> HIDE DEF n, h
<1>7. /\ Start(s, 1) = 8 /\ Start(s, 2) = 8 + n1
      /\ Start(s, 3) = 8 + n1 + n2
      /\ Start(s, 4) = 8 + n1 + n2 + n3
  <2>1. /\ ByteMod \in Nat /\ 0 < ByteMod /\ n1 < ByteMod
        /\ n1 + n2 \in Nat /\ n1 + n2 < ByteMod
        /\ n1 + n2 + n3 \in Nat /\ n1 + n2 + n3 < ByteMod
    BY <1>6
  <2>2. /\ 0 \in Nat /\ 0 % ByteMod = 0 /\ n1 % ByteMod = n1
        /\ (n1 + n2) % ByteMod = n1 + n2
        /\ (n1 + n2 + n3) % ByteMod = n1 + n2 + n3
    <3>1. 0 \in Nat
      OBVIOUS
    <3> QED
      BY <2>1, <3>1, SmallMod, Zenon
  <2>3. KeyLen(s, 1) = n1 /\ KeyLen(s, 2) = n2 /\ KeyLen(s, 3) = n3
    BY <1>6
  <2>4. 0 + 0 + 0 = 0 /\ n1 + 0 + 0 = n1 /\ n1 + n2 + 0 = n1 + n2 /\ 8 + 0 = 8
    OBVIOUS
  <2>5. /\ Start(s, 1) = 8 + ((0 + 0 + 0) % ByteMod)
        /\ Start(s, 2) = 8 + ((n1 + 0 + 0) % ByteMod)
        /\ Start(s, 3) = 8 + ((n1 + n2 + 0) % ByteMod)
        /\ Start(s, 4) = 8 + ((n1 + n2 + n3) % ByteMod)
    BY <2>3 DEF Start
  <2>6. 8 + (n1 + n2) = 8 + n1 + n2 /\ 8 + (n1 + n2 + n3) = 8 + n1 + n2 + n3
    OBVIOUS
  <2> QED
    BY <2>2, <2>4, <2>5, <2>6, Zenon
<1>8. /\ End(s, 1) = 8 + n1 /\ End(s, 2) = 8 + n1 + n2
      /\ End(s, 3) = 8 + n1 + n2 + n3 /\ End(s, 4) = 8 + n1 + n2 + n3 + n4
  BY <1>6, <1>7, Zenon DEF End
<1>9. /\ SubSeq(s, Start(s, 1) + 1, End(s, 1)) = f(1)
      /\ SubSeq(s, Start(s, 2) + 1, End(s, 2)) = f(2)
      /\ SubSeq(s, Start(s, 3) + 1, End(s, 3)) = f(3)
      /\ SubSeq(s, Start(s, 4) + 1, End(s, 4)) = f(4)
  <2>1. SubSeq(s, Start(s, 1) + 1, End(s, 1)) = f(1)
    <3>1. 8 \in Nat /\ 8 + n1 <= Len(s)
      BY <1>12
    <3>2. /\ f(1) \in Seq(Char)
          /\ (8) + Len(f(1)) <= Len(s)
          /\ \A i \in 1..Len(f(1)) : s[(8) + i] = f(1)[i]
      BY <1>6, <3>1, Zenon
    <3>3. SubSeq(s, (8) + 1, (8) + Len(f(1))) = f(1)
      BY <1>3, <3>1, <3>2, Slice, Zenon
    <3> QED
      BY <1>6, <1>7, <1>8, <3>3, Zenon
  <2>2. SubSeq(s, Start(s, 2) + 1, End(s, 2)) = f(2)
    <3>1. 8 + n1 \in Nat /\ 8 + n1 + n2 <= Len(s)
      BY <1>12
    <3>2. /\ f(2) \in Seq(Char)
          /\ (8 + n1) + Len(f(2)) <= Len(s)
          /\ \A i \in 1..Len(f(2)) : s[(8 + n1) + i] = f(2)[i]
      BY <1>6, <3>1, Zenon
    <3>3. SubSeq(s, (8 + n1) + 1, (8 + n1) + Len(f(2))) = f(2)
      BY <1>3, <3>1, <3>2, Slice, Zenon
    <3> QED
      BY <1>6, <1>7, <1>8, <3>3, Zenon
  <2>3. SubSeq(s, Start(s, 3) + 1, End(s, 3)) = f(3)
    <3>1. 8 + n1 + n2 \in Nat /\ 8 + n1 + n2 + n3 <= Len(s)
      BY <1>12
    <3>2. /\ f(3) \in Seq(Char)
          /\ (8 + n1 + n2) + Len(f(3)) <= Len(s)
          /\ \A i \in 1..Len(f(3)) : s[(8 + n1 + n2) + i] = f(3)[i]
      BY <1>6, <3>1, Zenon
    <3>3. SubSeq(s, (8 + n1 + n2) + 1, (8 + n1 + n2) + Len(f(3))) = f(3)
      BY <1>3, <3>1, <3>2, Slice, Zenon
    <3> QED
      BY <1>6, <1>7, <1>8, <3>3, Zenon
  <2>4. SubSeq(s, Start(s, 4) + 1, End(s, 4)) = f(4)
    <3>1. 8 + n1 + n2 + n3 \in Nat /\ 8 + n1 + n2 + n3 + n4 <= Len(s)
      BY <1>12
    <3>2. /\ f(4) \in Seq(Char)
          /\ (8 + n1 + n2 + n3) + Len(f(4)) <= Len(s)
          /\ \A i \in 1..Len(f(4)) : s[(8 + n1 + n2 + n3) + i] = f(4)[i]
      BY <1>6, <3>1, Zenon
    <3>3. SubSeq(s, (8 + n1 + n2 + n3) + 1, (8 + n1 + n2 + n3) + Len(f(4))) = f(4)
      BY <1>3, <3>1, <3>2, Slice, Zenon
    <3> QED
      BY <1>6, <1>7, <1>8, <3>3, Zenon
  <2> QED
    BY <2>1, <2>2, <2>3, <2>4
<1>10. Decodable(s)
  <2>1. /\ Len(s) >= 8
        /\ End(s, 1) <= Len(s) /\ End(s, 2) <= Len(s)
        /\ End(s, 3) <= Len(s) /\ End(s, 4) <= Len(s)
    BY <1>8, <1>12
  <2>2. \A i \in 1..8 : IsHex(s[i])
    BY <1>3, HeaderHolds, Zenon DEF h
  <2> QED
    BY <2>1, <2>2 DEF Decodable
<1>11. DecodeTenantKey(s) = k
  <2>1. \A i \in 1..4 : SubSeq(s, Start(s, i) + 1, End(s, i)) = f(i)
    BY <1>9
  <2>2. DecodeTenantKey(s) = [i \in 1..4 |-> RestoreString(f(i))]
    BY <2>1, Zenon DEF DecodeTenantKey
  <2>3. [i \in 1..4 |-> RestoreString(f(i))] = [i \in 1..4 |-> k[i]]
    BY <1>1
  <2> QED
    BY <2>2, <2>3
<1> QED
  BY <1>3, <1>10, <1>11 DEF s

(* An encoded key is a string even when a length does not fit.             *)
LEMMA EncodedIsString ==
  ASSUME NEW k \in [1..4 -> Seq(Char)]
  PROVE  EncodeTenantKey(k) \in Seq(Char)
<1> DEFINE b(i) == LenByte(k[(i + 1) \div 2])
<1>1. ByteMod \in Nat /\ ByteMod > 0
  BY TenantAssumption DEF ByteMod
<1>2. \A i \in 1..8 : b(i) \in Nat /\ b(i) < ByteMod
  <2>1. \A i \in 1..8 : (i + 1) \div 2 \in 1..4
    OBVIOUS
  <2>2. \A i \in 1..8 : Len(k[(i + 1) \div 2]) \in Nat
    BY <2>1
  <2> QED
    BY <1>1, <2>2, ModRange, Zenon DEF LenByte
<1>3. Header(k) = [i \in 1..8 |-> HexDigit(IF i % 2 = 1 THEN b(i) \div HexBase
                                           ELSE b(i) % HexBase)]
  BY DEF Header
<1> HIDE DEF b
<1>4. \A i \in 1..8 : /\ b(i) \div HexBase \in 0..(HexBase - 1)
                      /\ b(i) % HexBase \in 0..(HexBase - 1)
  BY <1>2, ByteDigits, Zenon
<1>5. Header(k) \in [1..8 -> Char]
  BY <1>3, <1>4, DigitRestored, Zenon
<1>6. Header(k) \in Seq(Char)
  BY <1>5, LengthOf, Zenon
<1>7. /\ ObfuscateString(k[1]) \in Seq(Char) /\ ObfuscateString(k[2]) \in Seq(Char)
      /\ ObfuscateString(k[3]) \in Seq(Char) /\ ObfuscateString(k[4]) \in Seq(Char)
  <2>1. \A i \in 1..4 : ObfuscateString(k[i]) \in Seq(Char)
    BY StringRestored
  <2> QED
    BY <2>1
<1>8. Pieces(EncodeTenantKey(k), Header(k), ObfuscateString(k[1]),
             ObfuscateString(k[2]), ObfuscateString(k[3]), ObfuscateString(k[4]))
  BY <1>6, <1>7, FivePieces, Zenon DEF EncodeTenantKey
<1> QED
  BY <1>8, Zenon DEF Pieces

(* The last dot of `k.u' is the one between them when u has none.          *)
SplitsInto(s, k, u) ==
  /\ Dots(s) # {} /\ SplitPos(s) = Len(k) + 1
  /\ SubSeq(s, 1, SplitPos(s) - 1) = k
  /\ SubSeq(s, SplitPos(s) + 1, Len(s)) = u

LEMMA NameSplit ==
  ASSUME NEW k \in Seq(Char), NEW u \in Seq(Char), Dots(u) = {}
  PROVE  SplitsInto(k \o <<Dot>> \o u, k, u)
<1> DEFINE d == <<Dot>>
           t == k \o d
           s == t \o u
<1>1. d \in Seq(Char) /\ Len(d) = 1 /\ d[1] = Dot
  BY DEF Dot, Char
<1> HIDE DEF d
<1>2. /\ t \in Seq(Char) /\ Len(t) = Len(k) + Len(d)
      /\ \A i \in 1..(Len(k) + Len(d)) :
           t[i] = IF i <= Len(k) THEN k[i] ELSE d[i - Len(k)]
  BY <1>1, ConcatProperties, ZenonT(60)
<1> HIDE DEF t
<1>4. /\ s \in Seq(Char) /\ Len(s) = Len(t) + Len(u)
      /\ \A i \in 1..(Len(t) + Len(u)) :
           s[i] = IF i <= Len(t) THEN t[i] ELSE u[i - Len(t)]
  <2>1. t \in Seq(Char)
    BY <1>2
  <2> QED
    BY <2>1, ConcatProperties
<1> HIDE DEF s
<1>5. Len(k) \in Nat /\ Len(u) \in Nat
  OBVIOUS
<1>6. Len(t) = Len(k) + 1
  BY <1>1, <1>2
<1>7. Len(s) = Len(k) + 1 + Len(u)
  BY <1>4, <1>6
<1>8. \A i \in 1..Len(k) : s[0 + i] = k[i]
  BY <1>1, <1>2, <1>4, <1>5, <1>6
<1>9. \A i \in 1..Len(u) : s[(Len(k) + 1) + i] = u[i]
  <2> TAKE i \in 1..Len(u)
  <2>1. /\ (Len(k) + 1) + i \in 1..(Len(t) + Len(u))
        /\ ~((Len(k) + 1) + i <= Len(t)) /\ ((Len(k) + 1) + i) - Len(t) = i
    BY <1>5, <1>6
  <2> QED
    BY <1>4, <2>1, ZenonT(60)
<1>10. s[Len(k) + 1] = Dot
  <2>1. /\ Len(k) + 1 \in 1..(Len(t) + Len(u)) /\ Len(k) + 1 <= Len(t)
        /\ Len(k) + 1 \in 1..(Len(k) + Len(d))
        /\ ~(Len(k) + 1 <= Len(k)) /\ (Len(k) + 1) - Len(k) = 1
    BY <1>1, <1>5, <1>6
  <2> QED
    BY <1>1, <1>2, <1>4, <2>1
<1>11. Len(k) + 1 \in Dots(s)
  <2>1. Len(k) + 1 \in 1..Len(s)
    BY <1>5, <1>7
  <2> QED
    BY <1>10, <2>1 DEF Dots
<1>12. \A j \in Dots(s) : j <= Len(k) + 1 /\ j \in Int
  <2> SUFFICES ASSUME NEW j \in 1..Len(s), s[j] = Dot, ~(j <= Len(k) + 1)
               PROVE  FALSE
    BY <1>5, <1>7 DEF Dots
  <2>1. j - (Len(k) + 1) \in 1..Len(u) /\ (Len(k) + 1) + (j - (Len(k) + 1)) = j
    BY <1>5, <1>7
  <2>2. u[j - (Len(k) + 1)] = Dot
    BY <1>9, <2>1
  <2> QED
    BY <2>1, <2>2, ZenonT(60) DEF Dots
<1>13. SplitPos(s) = Len(k) + 1
  <2>1. SplitPos(s) \in Dots(s) /\ \A j \in Dots(s) : j <= SplitPos(s)
    BY <1>11, <1>12 DEF SplitPos
  <2>2. SplitPos(s) <= Len(k) + 1 /\ Len(k) + 1 <= SplitPos(s) /\ SplitPos(s) \in Int
    BY <1>11, <1>12, <2>1
  <2> QED
    BY <1>5, <2>2
<1>14. SubSeq(s, 0 + 1, 0 + Len(k)) = k
  <2>1. 0 \in Nat /\ 0 + Len(k) <= Len(s)
    BY <1>5, <1>7
  <2> QED
    BY <1>4, <1>8, <2>1, Slice, Zenon
<1>15. SubSeq(s, (Len(k) + 1) + 1, (Len(k) + 1) + Len(u)) = u
  <2>1. Len(k) + 1 \in Nat /\ (Len(k) + 1) + Len(u) <= Len(s)
    BY <1>5, <1>7
  <2> QED
    BY <1>4, <1>9, <2>1, Slice, Zenon
<1>16. 0 + 1 = 1 /\ 0 + Len(k) = (Len(k) + 1) - 1
  BY <1>5
<1>17. SplitsInto(s, k, u)
  BY <1>7, <1>11, <1>13, <1>14, <1>15, <1>16, Zenon DEF SplitsInto
<1> QED
  BY <1>17 DEF s, t, d

(* What connect_to_backend relies on: until the name is split it is the    *)
(* login, afterwards it is the user, and the tenant key is the encoded one *)
(* if the login names it.                                                  *)
TenantInv ==
  /\ key \in Keys /\ user \in Users /\ sync \in BOOLEAN
  /\ at \in {"start", "handshake", "split", "routed", "panicked"}
  /\ at # "start" => Named \/ login = user
  /\ at \in {"split", "routed", "panicked"} /\ Dots(user) = {} =>
       /\ sync /\ Named => resp = Response(EncodeTenantKey(key), user)
       /\ resp.username = IF sync THEN user ELSE login
  /\ RightTenant

LEMMA TenantInvInit == Init => TenantInv
BY DEF Init, TenantInv, RightTenant

LEMMA TenantInvNext == TenantInv /\ [Next]_vars => TenantInv'
<1> SUFFICES ASSUME TenantInv, [Next]_vars PROVE TenantInv'
  OBVIOUS
<1>0. /\ key \in [1..4 -> Seq(Char)] /\ user \in Seq(Char)
      /\ EncodeTenantKey(key) \in Seq(Char) /\ None \notin Seq(Char)
  BY TenantAssumption, EncodedIsString DEF TenantInv
<1>1. CASE Login
  BY <1>1 DEF Login, TenantInv, RightTenant, Named
<1>2. CASE ChangeTenantIfNeed
  <2>1. UNCHANGED <<key, user, sync, login, tenant>> /\ at' = "split"
        /\ resp' = Changed(login)
    BY <1>2 DEF ChangeTenantIfNeed
  <2>2. ASSUME Dots(user) = {}, sync, Named
        PROVE  resp' = Response(EncodeTenantKey(key), user)
    <3>1. /\ Dots(login) # {}
          /\ SubSeq(login, 1, SplitPos(login) - 1) = EncodeTenantKey(key)
          /\ SubSeq(login, SplitPos(login) + 1, Len(login)) = user
      <4>1. SplitsInto(EncodeTenantKey(key) \o <<Dot>> \o user,
                       EncodeTenantKey(key), user)
        BY <1>0, <2>2, NameSplit, Zenon
      <4> QED
        BY <2>2, <4>1, Zenon DEF Named, SplitsInto
    <3>2. resp' = Response(SubSeq(login, 1, SplitPos(login) - 1),
                           SubSeq(login, SplitPos(login) + 1, Len(login)))
      BY <2>1, <2>2, <3>1 DEF Changed
    <3> QED
      BY <3>1, <3>2, ZenonT(30)
  <2>3. ASSUME Dots(user) = {}, ~(sync /\ Named)
        PROVE  resp'.username = IF sync THEN user ELSE login
    <3>1. CASE ~sync
      BY <2>1, <3>1 DEF Changed, Response
    <3>2. CASE sync /\ login = user
      BY <2>1, <2>3, <3>2 DEF Changed, Response
    <3> QED
      BY <1>2, <2>3, <3>1, <3>2 DEF TenantInv, ChangeTenantIfNeed
  <2>4. ASSUME Dots(user) = {}
        PROVE  /\ sync /\ Named => resp' = Response(EncodeTenantKey(key), user)
               /\ resp'.username = IF sync THEN user ELSE login
    BY <2>2, <2>3, <2>4 DEF Response
  <2>5. Named' = Named /\ (Dots(user) = {})' = (Dots(user) = {})
    BY <2>1 DEF Named
  <2>6. at = "handshake"
    BY <1>2 DEF ChangeTenantIfNeed
  <2> QED
    BY <2>1, <2>4, <2>5, <2>6 DEF TenantInv, RightTenant
<1>3. CASE ConnectToBackend
  <2>1. ASSUME sync, Named, Dots(user) = {}, LengthsFit(key)
        PROVE  tenant' = key
    <3>1. resp.tenant_key = EncodeTenantKey(key)
      BY <1>3, <2>1 DEF ConnectToBackend, TenantInv, Response
    <3>2. DecodeTenantKey(EncodeTenantKey(key)) = key
      BY <1>0, <2>1, KeyRoundTrip
    <3> QED
      BY <1>0, <1>3, <3>1, <3>2 DEF ConnectToBackend
  <2> QED
    BY <1>3, <2>1, ZenonT(60) DEF ConnectToBackend, TenantInv, RightTenant, Named
<1>4. CASE DecodePanics
  <2>1. ~(sync /\ Named /\ Dots(user) = {} /\ LengthsFit(key))
    <3> SUFFICES ASSUME sync, Named, Dots(user) = {}, LengthsFit(key) PROVE FALSE
      OBVIOUS
    <3>1. resp.tenant_key = EncodeTenantKey(key)
      BY <1>4 DEF DecodePanics, TenantInv, Response
    <3> QED
      BY <1>0, <1>4, <3>1, KeyRoundTrip DEF DecodePanics
  <2> QED
    BY <1>4, <2>1, Zenon DEF DecodePanics, TenantInv, RightTenant, Named
<1>5. CASE UNCHANGED vars
  BY <1>5, ZenonT(60) DEF vars, TenantInv, RightTenant, Named
<1> QED
  BY <1>1, <1>2, <1>3, <1>4, <1>5 DEF Next

(* A login that names its tenant is routed by exactly that tenant key, for *)
(* every key whose lengths fit and every user name without a dot           *)
(* (basic.rs:123-139, backend_mgr.rs:114-130).                             *)
THEOREM TenantIsRight == Spec => []RightTenant
<1>1. TenantInv => RightTenant
  BY DEF TenantInv
<1> QED
  BY <1>1, TenantInvInit, TenantInvNext, PTL DEF Spec

(* The server is told the user's name without the tenant when the router   *)
(* is synchronised, and the name as given otherwise (basic.rs:123-139).    *)
THEOREM UserIsRight == Spec => []RightUser
<1>1. TenantInv => RightUser
  BY DEF TenantInv, RightUser
<1> QED
  BY <1>1, TenantInvInit, TenantInvNext, PTL DEF Spec

----------------------------------------------------------------------------
(* The packets of a login.                                                 *)

(* The n numbers from 0 on.                                                *)
Counted(s, n) == s \in Seq(Nat) /\ Len(s) = n /\ Consecutive(s)

LEMMA AppendFront ==
  ASSUME NEW s \in Seq(Nat), NEW x \in Nat
  PROVE  SubSeq(Append(s, x), 1, Len(s)) = s /\ Append(s, x)[Len(s) + 1] = x
<1> DEFINE t == Append(s, x)
<1>1. /\ t \in Seq(Nat) /\ Len(t) = Len(s) + 1 /\ t[Len(s) + 1] = x
      /\ \A i \in 1..Len(s) : t[i] = s[i]
  OBVIOUS
<1> HIDE DEF t
<1>2. /\ 0 + Len(s) <= Len(t) /\ 0 + 1 = 1 /\ 0 + Len(s) = Len(s)
      /\ \A i \in 1..Len(s) : t[0 + i] = s[i]
  BY <1>1
<1>3. SubSeq(t, 0 + 1, 0 + Len(s)) = s
  BY <1>1, <1>2, Slice
<1> QED BY <1>1, <1>2, <1>3 DEF t

LEMMA CountedOn ==
  ASSUME NEW n \in Nat, NEW s, Counted(s, n)
  PROVE  /\ Counted(Append(s, n), n + 1)
         /\ n > 0 => Last(s) = n - 1 /\ Counted(Reply(s), n + 1)
<1>1. Counted(Append(s, n), n + 1)
  BY DEF Counted, Consecutive
<1>2. ASSUME n > 0 PROVE Last(s) = n - 1
  BY <1>2 DEF Counted, Consecutive, Last
<1>3. ASSUME n > 0 PROVE Reply(s) = Append(s, n)
  BY <1>2, <1>3 DEF Reply
<1> QED BY <1>1, <1>2, <1>3, Zenon

LEMMA CountedFront ==
  ASSUME NEW s, Counted(s, 4)
  PROVE  Counted(SubSeq(Append(s, 3), 1, 4), 4) /\ Append(s, 3)[5] = 3
<1>1. s \in Seq(Nat) /\ Len(s) = 4 /\ 3 \in Nat
  BY DEF Counted
<1>2. SubSeq(Append(s, 3), 1, Len(s)) = s /\ Append(s, 3)[Len(s) + 1] = 3
  BY <1>1, AppendFront, ZenonT(60)
<1>3. Counted(SubSeq(Append(s, 3), 1, 4), 4)
  BY <1>1, <1>2, Zenon
<1>4. 5 = Len(s) + 1
  BY <1>1
<1> QED BY <1>2, <1>3, <1>4, Zenon

(* What the login needs of the parser: the user name of a packet that is   *)
(* parsed is the client's, and a client that says how long its password    *)
(* hash is and leaves no string empty is understood.                       *)
ParserIsRight ==
  \A name \in Seq(Char) : \A o :
    OfferOK(o) =>
      LET r == ClientHandshakeResponse(Written(name, o), o.flags)
      IN  /\ r.ok => r.val.username = name
          /\ /\ name # <<>> /\ o.flags \cap {"LENENC", "SECURE"} # {}
             /\ "DB" \in o.flags => o.db # <<>>
             => r.ok /\ r.val = Meant(name, o)

(* Where the login and the change of the tenant are, and which packets     *)
(* have been numbered.                                                     *)
StepInv ==
  /\ step \in {"greet", "respond", "closed"} => at = "start"
  /\ step = "parse" => at = "handshake"
  /\ step = "route" => at = "split"
  /\ step \in {"get", "ask", "refused", "switch", "verdict", "done"} => at = "routed"
  /\ step \in {"ask", "switch", "verdict", "done"} => conn \in {"new", "used"}
  /\ step = "refused" => conn = "new"
  /\ step \in {"greet", "respond", "parse", "closed", "panicked", "route", "get",
               "ask", "refused", "switch", "verdict", "done"}

ClientNumbers ==
  /\ step = "greet" => Counted(cnum, 0)
  /\ step = "respond" => Counted(cnum, 1)
  /\ step \in {"closed", "parse", "panicked", "route", "get", "ask",
               "refused", "switch"} => Counted(cnum, 2)
  /\ step = "verdict" => Counted(cnum, 4)
  /\ step = "done" /\ conn = "new" => Counted(cnum, 5)
  /\ step = "done" /\ conn = "used" =>
       Counted(SubSeq(cnum, 1, 4), 4) /\ cnum[5] = 3

ServerNumbers ==
  /\ step \in {"greet", "respond", "closed", "parse", "panicked", "route", "get"} =>
       Counted(snum, 0)
  /\ step = "ask" => Counted(snum, IF conn = "new" THEN 1 ELSE 0)
  /\ step = "refused" => Counted(snum, 1)
  /\ step = "switch" => Counted(snum, IF conn = "new" THEN 3 ELSE 2)
  /\ step \in {"verdict", "done"} => Counted(snum, IF conn = "new" THEN 5 ELSE 4)

(* What was read and asked for.                                            *)
ReadInv ==
  /\ step = "parse" => pkt = Written(login, offer)
  /\ step \in {"route", "get", "ask", "switch", "verdict", "done"} => read.username = login
  /\ ReadAsSent
  /\ asked # None =>
       /\ step \in {"switch", "verdict", "done"}
       /\ asked = [user |-> resp.username,
                   db |-> IF conn = "new" THEN DbName ELSE read.database]

(* The offer is one that a client may make, and the tenant is treated as   *)
(* TenantKey says.                                                         *)
HsInv ==
  /\ offer \in Offers /\ TenantInv
  /\ StepInv /\ ClientNumbers /\ ServerNumbers /\ ReadInv

LEMMA HsInvInit == HsInit => HsInv
<1> SUFFICES ASSUME HsInit PROVE HsInv
  OBVIOUS
<1>1. TenantInv
  BY TenantInvInit DEF HsInit
<1>2. Counted(<<>>, 0)
  BY DEF Counted, Consecutive
<1>3. StepInv /\ ClientNumbers /\ ServerNumbers
  BY <1>2 DEF HsInit, Init, StepInv, ClientNumbers, ServerNumbers
<1>4. ReadInv
  BY DEF HsInit, ReadInv, ReadAsSent
<1> QED BY <1>1, <1>3, <1>4 DEF HsInv, HsInit

LEMMA LoginIsString ==
  ASSUME HsInv, at # "start"
  PROVE  login \in Seq(Char)
<1>1. /\ key \in [1..4 -> Seq(Char)] /\ user \in Seq(Char)
      /\ EncodeTenantKey(key) \in Seq(Char)
  BY TenantAssumption, EncodedIsString DEF HsInv, TenantInv
<1>2. <<Dot>> \in Seq(Char)
  BY DEF Dot, Char
<1>3. EncodeTenantKey(key) \o <<Dot>> \in Seq(Char)
  BY <1>1, <1>2, TwoPieces
<1>4. EncodeTenantKey(key) \o <<Dot>> \o user \in Seq(Char)
  BY <1>1, <1>3, TwoPieces
<1> QED BY <1>1, <1>4, ZenonT(60) DEF HsInv, TenantInv, Named

(* A login on bytes changes, routes and refuses a tenant only as TenantKey *)
(* does.                                                                   *)
LEMMA LoginStep == ParserIsRight /\ HsInv /\ [HsNext]_hsVars => [Next]_vars
<1> SUFFICES ASSUME ParserIsRight, HsInv, [HsNext]_hsVars PROVE [Next]_vars
  OBVIOUS
<1>1. CASE WriteInitialHandshake
  BY <1>1 DEF WriteInitialHandshake
<1>2. CASE ClientResponds
  BY <1>2 DEF ClientResponds, Next
<1>3. CASE ClientLeaves
  BY <1>3 DEF ClientLeaves
<1>4. CASE InitialHandshake
  <2>1. at = "handshake" /\ pkt = Written(login, offer) /\ OfferOK(offer)
    BY <1>4, HandshakeAssumption DEF InitialHandshake, HsInv, StepInv, ReadInv
  <2>2. login \in Seq(Char)
    BY <2>1, LoginIsString
  <2>3. read'.username = login
    <3>1. /\ ClientHandshakeResponse(Written(login, offer), offer.flags).ok
          /\ read' = ClientHandshakeResponse(Written(login, offer), offer.flags).val
      BY <1>4, <2>1 DEF InitialHandshake
    <3> QED BY <2>1, <2>2, <3>1, ZenonT(30) DEF ParserIsRight
  <2>4. ChangeTenantIfNeed
    BY <1>4, <2>1, <2>3 DEF InitialHandshake, ChangeTenantIfNeed
  <2> QED BY <2>4 DEF Next
<1>5. CASE ParsePanics
  BY <1>5 DEF ParsePanics
<1>6. CASE Route
  BY <1>6 DEF Route, Next
<1>7. CASE ReplyHandshakeResponse
  BY <1>7 DEF ReplyHandshakeResponse
<1>13. CASE ReplyHandshakeFails
  BY <1>13 DEF ReplyHandshakeFails
<1>8. CASE ContinueAuth
  BY <1>8 DEF ContinueAuth
<1>9. CASE Switch
  BY <1>9 DEF Switch
<1>10. CASE Verdict
  BY <1>10 DEF Verdict
<1>11. CASE \E c \in {"new", "used"} : GetConn(c)
  BY <1>11 DEF GetConn
<1>12. CASE UNCHANGED hsVars
  BY <1>12 DEF hsVars, vars
<1> QED BY <1>1, <1>2, <1>3, <1>4, <1>5, <1>6, <1>7, <1>8, <1>9, <1>10, <1>11, <1>12, <1>13
    DEF HsNext

(* What the parser returns, in a login that got as far as that.            *)
LEMMA ReadNow ==
  ASSUME ParserIsRight, HsInv, step = "parse"
  PROVE  /\ Plain => ClientHandshakeResponse(pkt, offer.flags).ok
         /\ Plain /\ ClientHandshakeResponse(pkt, offer.flags).ok =>
              ClientHandshakeResponse(pkt, offer.flags).val = Meant(login, offer)
         /\ ClientHandshakeResponse(pkt, offer.flags).ok =>
              ClientHandshakeResponse(pkt, offer.flags).val.username = login
<1>1. /\ at = "handshake" /\ pkt = Written(login, offer) /\ OfferOK(offer)
      /\ login \in Seq(Char)
  BY HandshakeAssumption, LoginIsString DEF HsInv, StepInv, ReadInv
<1>2. ASSUME Plain
      PROVE  /\ ClientHandshakeResponse(pkt, offer.flags).ok
             /\ ClientHandshakeResponse(pkt, offer.flags).val = Meant(login, offer)
  BY <1>1, <1>2, ZenonT(30) DEF Plain, ParserIsRight
<1>3. ClientHandshakeResponse(pkt, offer.flags).ok =>
        ClientHandshakeResponse(pkt, offer.flags).val.username = login
  BY <1>1, ZenonT(30) DEF ParserIsRight
<1> QED BY <1>2, <1>3

LEMMA HsInvNext == ParserIsRight /\ HsInv /\ [HsNext]_hsVars => HsInv'
<1> SUFFICES ASSUME ParserIsRight, HsInv, [HsNext]_hsVars PROVE HsInv'
  OBVIOUS
<1>0. TenantInv'
  BY LoginStep, TenantInvNext DEF HsInv
<1> USE DEF HsInv
<1>1. CASE WriteInitialHandshake
  <2>1. Counted(<<0>>, 1)
    BY DEF Counted, Consecutive
  <2>2. StepInv' /\ ClientNumbers' /\ ServerNumbers'
    BY <1>1, <2>1 DEF WriteInitialHandshake, StepInv, ClientNumbers, ServerNumbers, vars
  <2>3. ReadInv'
    BY <1>1 DEF WriteInitialHandshake, ReadInv, ReadAsSent
  <2> QED BY <1>0, <1>1, <2>2, <2>3 DEF WriteInitialHandshake
<1>2. CASE ClientResponds
  <2>1. Counted(cnum', 2)
    BY <1>2, CountedOn DEF ClientResponds, ClientNumbers
  <2>2. StepInv' /\ ClientNumbers' /\ ServerNumbers'
    BY <1>2, <2>1 DEF ClientResponds, Login, StepInv, ClientNumbers, ServerNumbers
  <2>3. ReadInv'
    BY <1>2 DEF ClientResponds, ReadInv, ReadAsSent
  <2> QED BY <1>0, <1>2, <2>2, <2>3 DEF ClientResponds
<1>3. CASE ClientLeaves
  <2>1. Counted(cnum', 2)
    BY <1>3, CountedOn DEF ClientLeaves, ClientNumbers
  <2>2. StepInv' /\ ClientNumbers' /\ ServerNumbers'
    BY <1>3, <2>1 DEF ClientLeaves, StepInv, ClientNumbers, ServerNumbers, vars
  <2>3. ReadInv'
    BY <1>3 DEF ClientLeaves, ReadInv, ReadAsSent
  <2> QED BY <1>0, <1>3, <2>2, <2>3 DEF ClientLeaves
<1>4. CASE InitialHandshake
  <2>1. StepInv' /\ ClientNumbers' /\ ServerNumbers'
    BY <1>4 DEF InitialHandshake, StepInv, ClientNumbers, ServerNumbers
  <2>2. read'.username = login' /\ (Plain' => read' = Meant(login', offer'))
    <3>1. Plain' = Plain
      BY <1>4 DEF InitialHandshake, Plain
    <3> QED BY <1>4, <3>1, ReadNow DEF InitialHandshake
  <2>3. asked' = None
    BY <1>4 DEF InitialHandshake, ReadInv
  <2>4. ReadInv'
    BY <1>4, <2>2, <2>3 DEF InitialHandshake, ReadInv, ReadAsSent
  <2> QED BY <1>0, <1>4, <2>1, <2>4 DEF InitialHandshake
<1>5. CASE ParsePanics
  <2>1. StepInv' /\ ClientNumbers' /\ ServerNumbers'
    BY <1>5 DEF ParsePanics, StepInv, ClientNumbers, ServerNumbers, vars
  <2>2. ~Plain'
    <3>1. Plain' = Plain
      BY <1>5 DEF ParsePanics, Plain, vars
    <3> QED BY <1>5, <3>1, ReadNow DEF ParsePanics
  <2>3. asked' = None
    BY <1>5, ZenonT(60) DEF ParsePanics, ReadInv
  <2>4. ReadInv'
    BY <1>5, <2>2, <2>3 DEF ParsePanics, ReadInv, ReadAsSent
  <2> QED BY <1>0, <1>5, <2>1, <2>4 DEF ParsePanics
<1>6. CASE Route
  <2>1. StepInv' /\ ClientNumbers' /\ ServerNumbers'
    BY <1>6, ZenonT(60) DEF Route, ConnectToBackend, DecodePanics, StepInv, ClientNumbers, ServerNumbers
  <2>2. login' = login /\ asked' = None /\ Plain' = Plain /\ read' = read /\ offer' = offer
    BY <1>6, ZenonT(60) DEF Route, ConnectToBackend, DecodePanics, Plain, ReadInv
  <2>3. ReadInv'
    BY <1>6, <2>2 DEF Route, ReadInv, ReadAsSent
  <2> QED BY <1>0, <2>1, <2>2, <2>3
<1>7. CASE ReplyHandshakeResponse
  <2>1. Counted(snum', 3)
    <3>0. step = "ask" /\ conn = "new"
      BY <1>7, ZenonT(60) DEF ReplyHandshakeResponse
    <3>10. Counted(cnum, 2) /\ Counted(snum, 1)
      BY <3>0, ZenonT(60) DEF ClientNumbers, ServerNumbers
    <3>1. cnum[2] = 1 /\ Counted(snum, 1)
      BY <3>10, SMTT(60) DEF Counted, Consecutive
    <3>2. Counted(Append(snum, 1), 2)
      BY <3>1, CountedOn
    <3> QED BY <1>7, <3>1, <3>2, CountedOn DEF ReplyHandshakeResponse, ClientSeq
  <2>2. StepInv' /\ ClientNumbers' /\ ServerNumbers'
    BY <1>7, <2>1, SMTT(30) DEF ReplyHandshakeResponse, StepInv, ClientNumbers, ServerNumbers, vars
  <2>3. Plain' = Plain /\ DbName' = DbName /\ login' = login /\ resp' = resp
    BY <1>7 DEF ReplyHandshakeResponse, Plain, DbName, vars
  <2>4. ReadInv'
    BY <1>7, <2>3 DEF ReplyHandshakeResponse, ReadInv, ReadAsSent
  <2> QED BY <1>0, <1>7, <2>2, <2>4 DEF ReplyHandshakeResponse
<1>13. CASE ReplyHandshakeFails
  <2>1. StepInv' /\ ClientNumbers' /\ ServerNumbers'
    BY <1>13, ZenonT(60) DEF ReplyHandshakeFails, StepInv, ClientNumbers, ServerNumbers, vars
  <2>2. Plain' = Plain /\ login' = login /\ resp' = resp /\ asked' = None
    BY <1>13, ZenonT(60) DEF ReplyHandshakeFails, Plain, vars, ReadInv
  <2>3. ReadInv'
    BY <1>13, <2>2 DEF ReplyHandshakeFails, ReadInv, ReadAsSent
  <2> QED BY <1>0, <1>13, <2>1, <2>3 DEF ReplyHandshakeFails
<1>8. CASE ContinueAuth
  <2>1. Counted(snum', 2)
    <3>1. Counted(snum, 0)
      BY <1>8 DEF ContinueAuth, ServerNumbers
    <3>2. Counted(Append(snum, 0), 1)
      BY <3>1, CountedOn, SMTT(60)
    <3> QED BY <1>8, <3>1, <3>2, CountedOn DEF ContinueAuth
  <2>2. StepInv' /\ ClientNumbers' /\ ServerNumbers'
    BY <1>8, <2>1, ZenonT(60) DEF ContinueAuth, StepInv, ClientNumbers, ServerNumbers, vars
  <2>3. Plain' = Plain /\ login' = login /\ resp' = resp
    BY <1>8 DEF ContinueAuth, Plain, vars
  <2>4. ReadInv'
    BY <1>8, <2>3 DEF ContinueAuth, ReadInv, ReadAsSent
  <2> QED BY <1>0, <1>8, <2>2, <2>4 DEF ContinueAuth
<1>9. CASE Switch
  <2>1. Counted(cnum', 4)
    <3>0. Counted(cnum, 2)
      BY <1>9 DEF Switch, ClientNumbers
    <3>1. cnum[2] + 1 = 2 /\ Counted(cnum, 2)
      BY <3>0 DEF Counted, Consecutive
    <3>2. Counted(Append(cnum, 2), 3)
      BY <3>1, CountedOn
    <3> QED BY <1>9, <3>1, <3>2, CountedOn, SMTT(60) DEF Switch, ClientSeq
  <2>2. Counted(snum', IF conn = "new" THEN 5 ELSE 4)
    <3> DEFINE n == IF conn = "new" THEN 3 ELSE 2
    <3>1. Counted(snum, n) /\ n \in Nat /\ n > 0
      BY <1>9 DEF Switch, ServerNumbers
    <3>2. n + 1 + 1 = IF conn = "new" THEN 5 ELSE 4
      OBVIOUS
    <3> HIDE DEF n
    <3>3. Last(snum) + 1 = n
      BY <3>1, CountedOn
    <3>4. Counted(Append(snum, n), n + 1)
      BY <3>1, CountedOn
    <3>5. Counted(Reply(Append(snum, n)), n + 1 + 1)
      BY <3>1, <3>4, CountedOn
    <3> QED BY <1>9, <3>2, <3>3, <3>5 DEF Switch
  <2>3. StepInv' /\ ClientNumbers' /\ ServerNumbers'
    BY <1>9, <2>1, <2>2, ZenonT(60) DEF Switch, StepInv, ClientNumbers, ServerNumbers, vars
  <2>4. Plain' = Plain /\ DbName' = DbName /\ login' = login /\ resp' = resp
    BY <1>9 DEF Switch, Plain, DbName, vars
  <2>5. ReadInv'
    BY <1>9, <2>4 DEF Switch, ReadInv, ReadAsSent
  <2> QED BY <1>0, <1>9, <2>3, <2>5 DEF Switch
<1>10. CASE Verdict
  <2>1. /\ conn = "new" => Counted(cnum', 5)
        /\ conn = "used" => Counted(SubSeq(cnum', 1, 4), 4) /\ cnum'[5] = 3
    <3>1. Counted(cnum, 4) /\ Counted(snum, IF conn = "new" THEN 5 ELSE 4)
      BY <1>10 DEF Verdict, ClientNumbers, ServerNumbers
    <3>2. Last(snum) = IF conn = "new" THEN 4 ELSE 3
      BY <3>1 DEF Counted, Consecutive, Last
    <3>3. ASSUME conn = "new" PROVE Counted(cnum', 5)
      BY <1>10, <3>1, <3>2, <3>3, CountedOn DEF Verdict
    <3>4. ASSUME conn = "used"
          PROVE  Counted(SubSeq(cnum', 1, 4), 4) /\ cnum'[5] = 3
      <4>1. cnum' = Append(cnum, 3)
        BY <1>10, <3>2, <3>4 DEF Verdict
      <4> QED BY <3>1, <4>1, CountedFront, Zenon
    <3> QED BY <3>3, <3>4
  <2>2. StepInv' /\ ClientNumbers' /\ ServerNumbers'
    BY <1>10, <2>1, ZenonT(30) DEF Verdict, StepInv, ClientNumbers, ServerNumbers, vars
  <2>3. Plain' = Plain /\ DbName' = DbName /\ login' = login /\ resp' = resp
    BY <1>10, ZenonT(60) DEF Verdict, Plain, DbName, vars
  <2>4. ReadInv'
    BY <1>10, <2>3 DEF Verdict, ReadInv, ReadAsSent
  <2> QED BY <1>0, <1>10, <2>2, <2>4 DEF Verdict
<1>11. CASE \E c \in {"new", "used"} : GetConn(c)
  <2>1. PICK c \in {"new", "used"} : GetConn(c)
    BY <1>11
  <2>2. Counted(<<>>, 0) /\ Counted(<<0>>, 1)
    BY DEF Counted, Consecutive
  <2>3. StepInv' /\ ClientNumbers' /\ ServerNumbers'
    BY <2>1, <2>2, ZenonT(60) DEF GetConn, StepInv, ClientNumbers, ServerNumbers, vars
  <2>4. Plain' = Plain /\ login' = login /\ asked' = None
    BY <2>1, ZenonT(60) DEF GetConn, Plain, vars, ReadInv
  <2>5. ReadInv'
    BY <2>1, <2>4 DEF GetConn, ReadInv, ReadAsSent
  <2> QED BY <1>0, <2>1, <2>3, <2>5 DEF GetConn
<1>12. CASE UNCHANGED hsVars
  <2>1. StepInv' /\ ClientNumbers' /\ ServerNumbers'
    BY <1>0, <1>12, ZenonT(60) DEF hsVars, StepInv, ClientNumbers, ServerNumbers
  <2>2. ReadInv'
    BY <1>0, <1>12 DEF hsVars, ReadInv, ReadAsSent, Plain, DbName
  <2> QED BY <1>0, <1>12, <2>1, <2>2 DEF hsVars
<1> QED BY <1>1, <1>2, <1>3, <1>4, <1>5, <1>6, <1>7, <1>8, <1>9, <1>10, <1>11, <1>12, <1>13
    DEF HsNext

(* The invariant says what the theorems below say.                         *)
LEMMA InvReadAsSent == HsInv => ReadAsSent
BY ZenonT(60) DEF HsInv, ReadInv

LEMMA InvSameRequest == HsInv => SameRequest
<1> SUFFICES ASSUME HsInv, asked # None, Plain, Dots(user) = {}
             PROVE  asked = [user |-> IF sync THEN user ELSE login,
                             db |-> IF "DB" \in offer.flags THEN offer.db ELSE None]
  BY DEF SameRequest
<1>1. /\ step \in {"switch", "verdict", "done"}
      /\ asked = [user |-> resp.username,
                  db |-> IF conn = "new" THEN DbName ELSE read.database]
  BY DEF HsInv, ReadInv
<1>2. resp.username = IF sync THEN user ELSE login
  BY <1>1 DEF HsInv, StepInv, TenantInv
<1>3. read = Meant(login, offer)
  BY <1>1 DEF HsInv, ReadInv, ReadAsSent
<1>4. /\ DbName = IF "DB" \in offer.flags THEN offer.db ELSE None
      /\ read.database = IF "DB" \in offer.flags THEN offer.db ELSE None
  BY <1>3 DEF DbName, Meant
<1> QED BY <1>1, <1>2, <1>4, SMTT(30)

LEMMA InvNumbersInOrder == HsInv => NumbersInOrder
<1> SUFFICES ASSUME HsInv PROVE NumbersInOrder
  OBVIOUS
<1>1. Consecutive(snum)
  BY DEF HsInv, StepInv, ServerNumbers, Counted
<1>2. ASSUME ~(step = "done" /\ conn = "used") PROVE Consecutive(cnum)
  BY <1>2 DEF HsInv, StepInv, ClientNumbers, Counted
<1>3. ASSUME step = "done", conn = "used"
      PROVE  Consecutive(SubSeq(cnum, 1, 4)) /\ cnum[5] = 3
  BY <1>3 DEF HsInv, ClientNumbers, Counted
<1> QED BY <1>1, <1>2, <1>3 DEF NumbersInOrder

----------------------------------------------------------------------------
(* The parser.                                                             *)

(* The bytes x lie in b from place i on.                                   *)
Lies(x, b, i) ==
  /\ i + Len(x) <= Len(b) + 1
  /\ \A j \in 1..Len(x) : b[i + j - 1] = x[j]

Places == Nat \ {0}

LEMMA LiesWhole ==
  ASSUME NEW b \in Seq(Byte)
  PROVE  Lies(b, b, 1)
BY DEF Lies

(* Of two strings the second one lies behind the first one.                *)
LEMMA LiesParts ==
  ASSUME NEW b \in Seq(Byte), NEW x \in Seq(Byte), NEW y \in Seq(Byte),
         NEW i \in Places, Lies(x \o y, b, i)
  PROVE  Lies(x, b, i) /\ Lies(y, b, i + Len(x)) /\ i + Len(x) \in Places
<1>1. Len(x \o y) = Len(x) + Len(y) /\ Len(x) \in Nat /\ Len(y) \in Nat
  BY ConcatProperties
<1>2. \A j \in 1..Len(x) : j \in 1..Len(x \o y) /\ (x \o y)[j] = x[j]
  BY <1>1, ConcatProperties
<1>3. \A j \in 1..Len(y) :
        Len(x) + j \in 1..Len(x \o y) /\ (x \o y)[Len(x) + j] = y[j]
  BY <1>1, ConcatProperties
<1> DEFINE w == x \o y
<1> HIDE DEF w
<1>4. /\ i + Len(w) <= Len(b) + 1 /\ \A j \in 1..Len(w) : b[i + j - 1] = w[j]
  BY DEF Lies, w
<1>5. Lies(x, b, i)
  BY <1>1, <1>2, <1>4 DEF Lies, w, Places
<1>6. \A j \in 1..Len(y) : b[i + Len(x) + j - 1] = y[j]
  <2> TAKE j \in 1..Len(y)
  <2>1. b[i + (Len(x) + j) - 1] = y[j]
    BY <1>3, <1>4, Zenon DEF w
  <2>2. i + (Len(x) + j) - 1 = i + Len(x) + j - 1
    BY <1>1 DEF Places
  <2> QED BY <2>1, <2>2
<1>7. Lies(y, b, i + Len(x))
  BY <1>1, <1>4, <1>6 DEF Lies, w, Places
<1> QED BY <1>1, <1>5, <1>7 DEF Places

(* Take reads what lies there.                                             *)
LEMMA TakeReads ==
  ASSUME NEW b \in Seq(Byte), NEW x \in Seq(Byte), NEW i \in Places, Lies(x, b, i)
  PROVE  Take(b, i, Len(x)) = Got(x, i + Len(x))
<1> DEFINE off == i - 1
<1>1. off \in Nat /\ off + 1 = i /\ off + Len(x) = i + Len(x) - 1
  BY DEF Places
<1>2. off + Len(x) <= Len(b)
  BY <1>1 DEF Lies, Places
<1>3. \A j \in 1..Len(x) : b[off + j] = x[j]
  BY <1>1 DEF Lies, Places
<1> HIDE DEF off
<1>4. SubSeq(b, off + 1, off + Len(x)) = x
  BY <1>1, <1>2, <1>3, Slice, Zenon
<1> QED BY <1>1, <1>2, <1>4, Zenon DEF Take

(* A name that is not empty is read up to its NUL, and the NUL with it.    *)
LEMMA NulStringReads ==
  ASSUME NEW b \in Seq(Byte), NEW s \in Seq(Byte \ {0}), s # <<>>,
         NEW i \in Places, Lies(Nul(s), b, i)
  PROVE  NulString(b, i) = Got(s, i + Len(Nul(s)))
<1> DEFINE j == i + Len(s)
<1>1. s \in Seq(Byte) /\ <<0>> \in Seq(Byte) /\ Len(<<0>>) = 1 /\ Len(s) \in Nat
      /\ Len(s) > 0
  BY SMTT(60) DEF Byte
<1>2. /\ Lies(s, b, i) /\ Lies(<<0>>, b, j) /\ j \in Places
      /\ i + Len(Nul(s)) = j + 1
  <2>1. Lies(s \o <<0>>, b, i)
    BY DEF Nul
  <2>2. Len(Nul(s)) = Len(s) + 1
    BY <1>1 DEF Nul
  <2>3. Lies(s, b, i) /\ Lies(<<0>>, b, i + Len(s)) /\ i + Len(s) \in Places
    BY <1>1, <2>1, LiesParts, Zenon
  <2> QED BY <1>1, <2>2, <2>3 DEF Places
<1>3. b[j] = 0 /\ j <= Len(b)
  BY <1>1, <1>2 DEF Lies, Places
<1>4. \A k \in i..(j - 1) : b[k] # 0
  <2> TAKE k \in i..(j - 1)
  <2>1. k - i + 1 \in 1..Len(s) /\ i + (k - i + 1) - 1 = k
    BY <1>1 DEF Places
  <2>2. b[k] = s[k - i + 1]
    BY <1>2, <2>1 DEF Lies
  <2> QED BY <2>1, <2>2
<1>5. j \in Nuls(b, i) /\ \A k \in Nuls(b, i) : j <= k
  BY <1>1, <1>3, <1>4 DEF Nuls, Places
<1> HIDE DEF j
<1>6. FirstNul(b, i) = j
  <2>1. \A k \in Nuls(b, i) : k \in Nat
    BY DEF Nuls, Places
  <2>2. FirstNul(b, i) \in Nuls(b, i) /\ FirstNul(b, i) <= j
    BY <1>5 DEF FirstNul
  <2> QED BY <1>5, <2>1, <2>2
<1>7. i <= Len(b) /\ b[i] # 0
  BY <1>1, <1>3, <1>4 DEF Places, j
<1>8. SubSeq(b, i, j - 1) = s
  <2>1. Take(b, i, Len(s)) = Got(s, i + Len(s))
    BY <1>1, <1>2, TakeReads
  <2>2. i + Len(s) - 1 <= Len(b) /\ i + Len(s) - 1 = j - 1
    BY <1>1, <1>3 DEF j, Places
  <2> QED BY <2>1, <2>2 DEF Take, Got
<1> QED BY <1>2, <1>5, <1>6, <1>7, <1>8, Zenon DEF NulString, TakeUntilNul, Got

(* A number of two and of three bytes.                                     *)
LEMMA TwoBytes ==
  ASSUME NEW x \in Byte, NEW y \in Byte
  PROVE  LittleEndian(<<x, y>>) = x + 256 * y
<1> DEFINE s == <<x, y>>
           value[n \in 0..Len(s)] ==
             IF n = 0 THEN 0 ELSE 256 * value[n - 1] + s[Len(s) + 1 - n]
           g == [n \in 0..2 |-> CASE n = 0 -> 0 [] n = 1 -> y [] OTHER -> 256 * y + x]
           Body(f) == [n \in 0..2 |-> IF n = 0 THEN 0 ELSE 256 * f[n - 1] + s[3 - n]]
<1>1. LittleEndian(s) = value[2]
  BY DEF LittleEndian
<1>2. value = CHOOSE f : f = [n \in 0..2 |-> IF n = 0 THEN 0 ELSE 256 * f[n - 1] + s[3 - n]]
  BY Len(s) = 2
<1>3. value = CHOOSE f : f = Body(f)
  BY <1>2
<1>4. g = Body(g)
  <2>1. g[0] = 0 /\ g[1] = 256 * g[0] + s[2] /\ g[2] = 256 * g[1] + s[1]
    BY DEF Byte
  <2>2. \A n \in 0..2 : n = 0 \/ n = 1 \/ n = 2
    OBVIOUS
  <2>3. \A n \in 0..2 : g[n] = IF n = 0 THEN 0 ELSE 256 * g[n - 1] + s[3 - n]
    BY <2>1, <2>2
  <2>4. g = [n \in 0..2 |-> g[n]]
    OBVIOUS
  <2> HIDE DEF g
  <2> QED BY <2>3, <2>4
<1> HIDE DEF value, g
<1>5. value = Body(value)
  BY <1>3, <1>4
<1>6. value[0] = 0 /\ value[1] = 256 * value[0] + s[2] /\ value[2] = 256 * value[1] + s[1]
  BY <1>5
<1> QED BY <1>1, <1>6 DEF Byte

LEMMA ThreeBytes ==
  ASSUME NEW x \in Byte, NEW y \in Byte, NEW z \in Byte
  PROVE  LittleEndian(<<x, y, z>>) = x + 256 * y + (256 * 256) * z
<1> DEFINE s == <<x, y, z>>
           value[n \in 0..Len(s)] ==
             IF n = 0 THEN 0 ELSE 256 * value[n - 1] + s[Len(s) + 1 - n]
           g == [n \in 0..3 |-> CASE n = 0 -> 0 [] n = 1 -> z [] n = 2 -> 256 * z + y
                                  [] OTHER -> 256 * (256 * z + y) + x]
           Body(f) == [n \in 0..3 |-> IF n = 0 THEN 0 ELSE 256 * f[n - 1] + s[4 - n]]
<1>1. LittleEndian(s) = value[3]
  BY DEF LittleEndian
<1>2. value = CHOOSE f : f = [n \in 0..3 |-> IF n = 0 THEN 0 ELSE 256 * f[n - 1] + s[4 - n]]
  BY Len(s) = 3
<1>3. value = CHOOSE f : f = Body(f)
  BY <1>2
<1>4. g = Body(g)
  <2>1. /\ g[0] = 0 /\ g[1] = 256 * g[0] + s[3] /\ g[2] = 256 * g[1] + s[2]
        /\ g[3] = 256 * g[2] + s[1]
    BY DEF Byte
  <2>2. \A n \in 0..3 : n = 0 \/ n = 1 \/ n = 2 \/ n = 3
    OBVIOUS
  <2>3. \A n \in 0..3 : g[n] = IF n = 0 THEN 0 ELSE 256 * g[n - 1] + s[4 - n]
    BY <2>1, <2>2
  <2>4. g = [n \in 0..3 |-> g[n]]
    OBVIOUS
  <2> HIDE DEF g
  <2> QED BY <2>3, <2>4
<1> HIDE DEF value, g
<1>5. value = Body(value)
  BY <1>3, <1>4
<1>6. /\ value[0] = 0 /\ value[1] = 256 * value[0] + s[3]
      /\ value[2] = 256 * value[1] + s[2] /\ value[3] = 256 * value[2] + s[1]
  BY <1>5
<1> QED BY <1>1, <1>6 DEF Byte

(* A length is one byte below 251, and else a byte that says how many      *)
(* bytes follow.                                                           *)
LEMMA NumberForm ==
  ASSUME NEW n \in Nat, n < MaxLen
  PROVE  \/ n < 251 /\ LenencNumber(n) = <<n>>
         \/ \E c \in Byte : \E w \in Seq(Byte) :
              /\ LenencNumber(n) = <<c>> \o w /\ LenencWidth(c) = Len(w)
              /\ Len(w) # 0 /\ c # 251 /\ LittleEndian(w) = n
<1>1. CASE n < 251
  BY <1>1 DEF LenencNumber
<1> DEFINE x == n % 256
           q == n \div 256
<1>3. x \in Byte /\ q \in Nat /\ n = x + 256 * q
  BY DEF Byte
<1>4. CASE n >= 251 /\ n < 256 * 256
  <2>1. LenencNumber(n) = <<252, x, q>>
    BY <1>4 DEF LenencNumber
  <2> HIDE DEF x, q
  <2>2. q \in Byte
    BY <1>3, <1>4 DEF Byte
  <2>3. LittleEndian(<<x, q>>) = n
    BY <1>3, <2>2, TwoBytes
  <2>4. /\ <<252, x, q>> = <<252>> \o <<x, q>> /\ <<x, q>> \in Seq(Byte)
        /\ 252 \in Byte /\ LenencWidth(252) = Len(<<x, q>>) /\ Len(<<x, q>>) # 0
        /\ 252 # 251
    BY <1>3, <2>2 DEF Byte, LenencWidth
  <2> DEFINE w == <<x, q>>
             c == 252
  <2>5. /\ c \in Byte /\ w \in Seq(Byte) /\ LenencNumber(n) = <<c>> \o w
        /\ LenencWidth(c) = Len(w) /\ Len(w) # 0 /\ c # 251 /\ LittleEndian(w) = n
    BY <2>1, <2>3, <2>4
  <2> HIDE DEF w, c
  <2> QED BY <2>5, ZenonT(60)
<1>5. CASE n >= 256 * 256
  <2> DEFINE y == q % 256
             z == q \div 256
  <2>1. LenencNumber(n) = <<253, x, y, z>>
    BY <1>5 DEF LenencNumber
  <2>2. y \in Byte /\ z \in Nat /\ q = y + 256 * z
    <3> HIDE DEF q
    <3> QED BY <1>3 DEF Byte
  <2> HIDE DEF x, y, z, q
  <2>3. z \in Byte
    BY <1>3, <1>5, <2>2 DEF Byte, MaxLen
  <2>4. LittleEndian(<<x, y, z>>) = n
    <3>1. LittleEndian(<<x, y, z>>) = x + 256 * y + (256 * 256) * z
      BY <1>3, <2>2, <2>3, ThreeBytes
    <3> QED BY <1>3, <2>2, <2>3, <3>1 DEF Byte
  <2>5. <<253, x, y, z>> = <<253>> \o <<x, y, z>>
    OBVIOUS
  <2>6. <<x, y, z>> \in Seq(Byte)
    BY <1>3, <2>2, <2>3
  <2>7. /\ 253 \in Byte /\ LenencWidth(253) = Len(<<x, y, z>>) /\ Len(<<x, y, z>>) # 0
        /\ 253 # 251
    BY DEF Byte, LenencWidth
  <2> DEFINE w == <<x, y, z>>
             c == 253
  <2>8. /\ c \in Byte /\ w \in Seq(Byte) /\ LenencNumber(n) = <<c>> \o w
        /\ LenencWidth(c) = Len(w) /\ Len(w) # 0 /\ c # 251 /\ LittleEndian(w) = n
    BY <2>1, <2>4, <2>5, <2>6, <2>7
  <2> HIDE DEF w, c
  <2> QED BY <2>8, ZenonT(60)
<1>6. n < 251 \/ (n >= 251 /\ n < 256 * 256) \/ n >= 256 * 256
  OBVIOUS
<1> QED BY <1>1, <1>4, <1>5, <1>6, Zenon

LEMMA NumberIsBytes ==
  ASSUME NEW n \in Nat, n < MaxLen
  PROVE  LenencNumber(n) \in Seq(Byte) /\ Len(LenencNumber(n)) > 0
<1>1. CASE n < 251 /\ LenencNumber(n) = <<n>>
  <2>1. n \in Byte
    BY <1>1 DEF Byte
  <2> QED BY <1>1, <2>1
<1>2. ASSUME NEW c \in Byte, NEW w \in Seq(Byte), LenencNumber(n) = <<c>> \o w
      PROVE  LenencNumber(n) \in Seq(Byte) /\ Len(LenencNumber(n)) > 0
  <2>1. <<c>> \in Seq(Byte) /\ Len(<<c>>) = 1
    OBVIOUS
  <2> QED BY <1>2, <2>1
<1>3. \/ n < 251 /\ LenencNumber(n) = <<n>>
      \/ \E c \in Byte : \E w \in Seq(Byte) : LenencNumber(n) = <<c>> \o w
  BY NumberForm, Zenon
<1> QED BY <1>1, <1>2, <1>3, Zenon

(* A length is read back.                                                  *)
LEMMA NumberReads ==
  ASSUME NEW b \in Seq(Byte), NEW n \in Nat, n < MaxLen,
         NEW i \in Places, Lies(LenencNumber(n), b, i)
  PROVE  ReadLengthEncodedNumber(b, i) = Got(n, i + Len(LenencNumber(n)))
<1>1. CASE n < 251 /\ LenencNumber(n) = <<n>>
  <2>1. Len(<<n>>) = 1 /\ <<n>>[1] = n
    OBVIOUS
  <2>2. b[i] = n /\ i <= Len(b)
    BY <1>1, <2>1 DEF Lies, Places
  <2>3. LenencWidth(n) = 0 /\ n # 251
    BY <1>1 DEF LenencWidth
  <2>4. ReadLengthEncodedNumber(b, i) = Got(n, i + 1)
    BY <2>2, <2>3 DEF ReadLengthEncodedNumber, Places
  <2> QED BY <1>1, <2>1, <2>4
<1>2. ASSUME NEW c \in Byte, NEW w \in Seq(Byte), LenencNumber(n) = <<c>> \o w,
             LenencWidth(c) = Len(w), Len(w) # 0, c # 251, LittleEndian(w) = n
      PROVE  ReadLengthEncodedNumber(b, i) = Got(n, i + Len(LenencNumber(n)))
  <2>1. /\ <<c>> \in Seq(Byte) /\ Len(<<c>>) = 1 /\ <<c>>[1] = c /\ Len(w) \in Nat
    BY <1>2
  <2>2. LenencNumber(n) \in Seq(Byte) /\ Len(LenencNumber(n)) = 1 + Len(w)
    BY <1>2, <2>1
  <2>3. Lies(<<c>>, b, i) /\ Lies(w, b, i + Len(<<c>>)) /\ i + Len(<<c>>) \in Places
    <3>1. Lies(<<c>> \o w, b, i)
      BY <1>2
    <3> QED BY <1>2, <2>1, <3>1, LiesParts, ZenonT(60)
  <2>4. b[i] = c /\ i <= Len(b)
    BY <2>1, <2>3 DEF Lies, Places
  <2>5. Take(b, i + 1, Len(w)) = Got(w, i + 1 + Len(w))
    BY <1>2, <2>1, <2>3, TakeReads
  <2>6. i + 1 + Len(w) = i + (1 + Len(w)) /\ ~(i > Len(b))
    BY <2>1, <2>4 DEF Places
  <2> DEFINE t == Take(b, i + 1, Len(w))
  <2>7. t.ok /\ t.val = w /\ t.next = i + 1 + Len(w)
    BY <2>5 DEF Got
  <2>8. ReadLengthEncodedNumber(b, i) = Got(LittleEndian(t.val), t.next)
    <3> HIDE DEF t
    <3>1. t = Take(b, i + 1, LenencWidth(b[i]))
      BY <1>2, <2>4 DEF t
    <3> QED BY <1>2, <2>4, <2>6, <2>7, <3>1 DEF ReadLengthEncodedNumber
  <2>9. ReadLengthEncodedNumber(b, i) = Got(n, i + 1 + Len(w))
    BY <1>2, <2>7, <2>8
  <2> QED BY <2>2, <2>6, <2>9
<1> QED BY <1>1, <1>2, NumberForm, Zenon

(* So is a string with its length in front of it.                          *)
LEMMA LenencIsBytes ==
  ASSUME NEW s \in Seq(Byte), Len(s) < MaxLen
  PROVE  Lenenc(s) \in Seq(Byte) /\ Len(Lenenc(s)) > 0
<1>1. /\ LenencNumber(Len(s)) \in Seq(Byte) /\ Len(LenencNumber(Len(s))) > 0
  BY NumberIsBytes
<1> QED BY <1>1 DEF Lenenc

LEMMA LenencReads ==
  ASSUME NEW b \in Seq(Byte), NEW s \in Seq(Byte), Len(s) < MaxLen,
         NEW i \in Places, Lies(Lenenc(s), b, i)
  PROVE  ReadLengthEncodedString(b, i) = Got(s, i + Len(Lenenc(s)))
<1> DEFINE h == LenencNumber(Len(s))
           k == i + Len(h)
<1>1. Len(s) \in Nat /\ h \in Seq(Byte) /\ Len(h) \in Nat
  BY NumberIsBytes
<1>2. Len(Lenenc(s)) = Len(h) + Len(s)
  BY <1>1 DEF Lenenc
<1>3. Lies(h, b, i) /\ Lies(s, b, k) /\ k \in Places
  BY <1>1, LiesParts, Zenon DEF Lenenc
<1>4. ReadLengthEncodedNumber(b, i) = Got(Len(s), k)
  BY <1>1, <1>3, NumberReads
<1>5. Take(b, k, Len(s)) = Got(s, k + Len(s))
  BY <1>3, TakeReads
<1>6. ReadLengthEncodedString(b, i) = Got(s, k + Len(s))
  BY <1>4, <1>5 DEF ReadLengthEncodedString, Got
<1>7. k + Len(s) = i + (Len(h) + Len(s))
  BY <1>1 DEF Places
<1> QED BY <1>2, <1>6, <1>7

----------------------------------------------------------------------------
(* Induction, with the property as a set.                                  *)
LEMMA Least ==
  ASSUME NEW S \in SUBSET Nat, S # {}
  PROVE  \E x \in S : \A y \in S : x <= y
<1>1. IsWellFoundedOn(OpToRel(<,Nat), Nat)
  BY NatLessThanWellFounded, Zenon
<1>2. PICK x \in S : \A y \in S : ~ (<<y, x>> \in OpToRel(<, Nat))
  BY <1>1, WFMin, Zenon
<1>3. \A y \in S : <<y, x>> \in OpToRel(<, Nat) <=> y < x
  BY DEF OpToRel
<1>4. \A y \in S : ~(y < x)
  BY <1>2, <1>3, Zenon
<1> QED BY <1>4

LEMMA SetInduction ==
  ASSUME NEW S, 0 \in S, \A n \in Nat : n \in S => n + 1 \in S
  PROVE  Nat \subseteq S
<1> SUFFICES ASSUME Nat \ S # {} PROVE FALSE
  OBVIOUS
<1>1. PICK x \in Nat \ S : \A y \in Nat \ S : x <= y
  BY Least, Zenon
<1>2. x - 1 \in Nat /\ x - 1 + 1 = x
  BY <1>1
<1> QED BY <1>1, <1>2

(* What WrittenAttrs has written after n attributes.                       *)
PairsUpTo(attrs, n, f) ==
  [k \in 0..n |-> IF k = 0 THEN <<>>
                  ELSE f[k - 1] \o WrittenPair(attrs[k])]

LEMMA PairsExist ==
  ASSUME NEW attrs, NEW n \in Nat
  PROVE  \E f : f = PairsUpTo(attrs, n, f)
<1> DEFINE S == {m \in Nat : \E f : f = PairsUpTo(attrs, m, f)}
           x(k) == WrittenPair(attrs[k])
<1>1. 0 \in S
  <2>1. [k \in 0..0 |-> <<>>] = PairsUpTo(attrs, 0, [k \in 0..0 |-> <<>>])
    BY DEF PairsUpTo
  <2> QED BY <2>1
<1>2. ASSUME NEW m \in Nat, m \in S PROVE m + 1 \in S
  <2>1. PICK f : f = PairsUpTo(attrs, m, f)
    BY <1>2
  <2>2. f[0] = <<>> /\ \A k \in 1..m : f[k] = f[k - 1] \o x(k)
    <3> DEFINE h == PairsUpTo(attrs, m, f)
    <3> HIDE DEF x
    <3>0. h = [k \in 0..m |-> IF k = 0 THEN <<>> ELSE f[k - 1] \o x(k)]
      BY DEF PairsUpTo, x
    <3> HIDE DEF h
    <3>1. h[0] = <<>> /\ \A k \in 1..m : h[k] = f[k - 1] \o x(k)
      BY <3>0
    <3>2. f = h
      BY <2>1 DEF h
    <3> QED BY <3>1, <3>2
  <2> DEFINE g == [k \in 0..(m + 1) |-> IF k <= m THEN f[k] ELSE f[m] \o x(m + 1)]
  <2> HIDE DEF x
  <2>3. ASSUME NEW k \in 0..(m + 1)
        PROVE  g[k] = IF k = 0 THEN <<>> ELSE g[k - 1] \o x(k)
    <3>1. CASE k = 0
      BY <2>2, <3>1
    <3>2. CASE k \in 1..m
      <4>1. g[k] = f[k] /\ g[k - 1] = f[k - 1]
        BY <3>2
      <4> HIDE DEF g
      <4> QED BY <2>2, <3>2, <4>1, Zenon
    <3>3. CASE k = m + 1
      <4>1. g[k] = f[m] \o x(k) /\ g[k - 1] = f[m] /\ k # 0
        BY <3>3
      <4> HIDE DEF g
      <4> QED BY <4>1, Zenon
    <3> QED BY <3>1, <3>2, <3>3
  <2>4. g = [k \in 0..(m + 1) |-> g[k]]
    OBVIOUS
  <2> HIDE DEF g
  <2>5. g = PairsUpTo(attrs, m + 1, g)
    BY <2>3, <2>4 DEF PairsUpTo, x
  <2> QED BY <2>5
<1> HIDE DEF S
<1>3. n \in S
  BY <1>1, <1>2, SetInduction
<1> QED BY <1>3 DEF S

LEMMA PairsOf ==
  ASSUME NEW attrs \in Seq(Seq(Byte) \X Seq(Byte))
  PROVE  \E f : /\ WrittenAttrs(attrs) = f[Len(attrs)]
                /\ f[0] = <<>>
                /\ \A k \in 1..Len(attrs) :
                     f[k] = f[k - 1] \o WrittenPair(attrs[k])
<1> DEFINE N == Len(attrs)
           pairs[n \in 0..Len(attrs)] ==
             IF n = 0 THEN <<>>
             ELSE pairs[n - 1] \o WrittenPair(attrs[n])
<1>1. WrittenAttrs(attrs) = pairs[Len(attrs)] /\ Len(attrs) \in Nat
  BY DEF WrittenAttrs
<1>2. pairs = CHOOSE f : f = [n \in 0..Len(attrs) |->
                                IF n = 0 THEN <<>>
                                ELSE f[n - 1] \o WrittenPair(attrs[n])]
  OBVIOUS
<1>3. pairs = CHOOSE f : f = PairsUpTo(attrs, Len(attrs), f)
  BY <1>2 DEF PairsUpTo
<1> HIDE DEF pairs
<1>4. pairs = PairsUpTo(attrs, Len(attrs), pairs)
  BY <1>1, <1>3, PairsExist
<1>5. /\ pairs[0] = <<>>
      /\ \A k \in 1..Len(attrs) :
           pairs[k] = pairs[k - 1] \o WrittenPair(attrs[k])
  <2> DEFINE h == PairsUpTo(attrs, Len(attrs), pairs)
             x(k) == WrittenPair(attrs[k])
  <2> HIDE DEF x
  <2>0. h = [k \in 0..Len(attrs) |-> IF k = 0 THEN <<>> ELSE pairs[k - 1] \o x(k)]
    BY DEF PairsUpTo, x
  <2> HIDE DEF h
  <2>1. h[0] = <<>> /\ \A k \in 1..Len(attrs) : h[k] = pairs[k - 1] \o x(k)
    BY <1>1, <2>0, SMTT(60)
  <2>2. pairs = h
    BY <1>4 DEF h
  <2>3. pairs[0] = <<>> /\ \A k \in 1..Len(attrs) : pairs[k] = pairs[k - 1] \o x(k)
    BY <2>1, <2>2, SMTT(30)
  <2> QED BY <2>3, Zenon DEF x
<1> QED BY <1>1, <1>5, Zenon

(* What the parser has after n turns of its loop over the attributes.      *)
TurnsUpTo(d, n, f) == [k \in 0..n |-> IF k = 0 THEN Got(<<>>, 1) ELSE Pair(d, f[k - 1])]

LEMMA TurnsExist ==
  ASSUME NEW d, NEW n \in Nat
  PROVE  \E f : f = TurnsUpTo(d, n, f)
<1> DEFINE S == {m \in Nat : \E f : f = TurnsUpTo(d, m, f)}
           first == Got(<<>>, 1)
<1> HIDE DEF first
<1>1. 0 \in S
  <2>1. [k \in 0..0 |-> first] = TurnsUpTo(d, 0, [k \in 0..0 |-> first])
    BY DEF TurnsUpTo, first
  <2> QED BY <2>1
<1>2. ASSUME NEW m \in Nat, m \in S PROVE m + 1 \in S
  <2>1. PICK f : f = TurnsUpTo(d, m, f)
    BY <1>2
  <2>2. f[0] = first /\ \A k \in 1..m : f[k] = Pair(d, f[k - 1])
    <3> DEFINE h == TurnsUpTo(d, m, f)
    <3>1. h[0] = first /\ \A k \in 1..m : h[k] = Pair(d, f[k - 1])
      BY DEF TurnsUpTo, first
    <3> HIDE DEF h
    <3>2. f = h
      BY <2>1 DEF h
    <3> QED BY <3>1, <3>2
  <2> DEFINE g == [k \in 0..(m + 1) |-> IF k <= m THEN f[k] ELSE Pair(d, f[m])]
  <2>3. ASSUME NEW k \in 0..(m + 1)
        PROVE  g[k] = IF k = 0 THEN first ELSE Pair(d, g[k - 1])
    <3>1. CASE k = 0
      BY <2>2, <3>1
    <3>2. CASE k \in 1..m
      <4>1. g[k] = f[k] /\ g[k - 1] = f[k - 1]
        BY <3>2
      <4> HIDE DEF g
      <4> QED BY <2>2, <3>2, <4>1
    <3>3. CASE k = m + 1
      <4>1. g[k] = Pair(d, f[m]) /\ g[k - 1] = f[m] /\ k # 0
        BY <3>3
      <4> HIDE DEF g
      <4> QED BY <4>1, Zenon
    <3> QED BY <3>1, <3>2, <3>3
  <2>4. g = [k \in 0..(m + 1) |-> g[k]]
    OBVIOUS
  <2> HIDE DEF g
  <2>5. g = TurnsUpTo(d, m + 1, g)
    BY <2>3, <2>4, Zenon DEF TurnsUpTo, first
  <2> QED BY <2>5
<1> HIDE DEF S
<1>3. n \in S
  BY <1>1, <1>2, SetInduction
<1> QED BY <1>3 DEF S

LEMMA TurnsOf ==
  ASSUME NEW d \in Seq(Byte)
  PROVE  \E f : /\ Pairs(d) = f[Len(d)]
                /\ f[0] = Got(<<>>, 1)
                /\ \A k \in 1..Len(d) : f[k] = Pair(d, f[k - 1])
<1> DEFINE loop[n \in 0..Len(d)] == IF n = 0 THEN Got(<<>>, 1) ELSE Pair(d, loop[n - 1])
           first == Got(<<>>, 1)
<1>1. Pairs(d) = loop[Len(d)] /\ Len(d) \in Nat
  BY DEF Pairs
<1>2. loop = CHOOSE f : f = [n \in 0..Len(d) |->
                               IF n = 0 THEN Got(<<>>, 1) ELSE Pair(d, f[n - 1])]
  OBVIOUS
<1>3. loop = CHOOSE f : f = TurnsUpTo(d, Len(d), f)
  BY <1>2 DEF TurnsUpTo
<1> HIDE DEF loop, first
<1>4. loop = TurnsUpTo(d, Len(d), loop)
  BY <1>1, <1>3, TurnsExist
<1>5. loop[0] = first /\ \A k \in 1..Len(d) : loop[k] = Pair(d, loop[k - 1])
  <2> DEFINE h == TurnsUpTo(d, Len(d), loop)
  <2>1. h[0] = first /\ \A k \in 1..Len(d) : h[k] = Pair(d, loop[k - 1])
    BY <1>1 DEF TurnsUpTo, first
  <2> HIDE DEF h
  <2>2. loop = h
    BY <1>4 DEF h
  <2> QED BY <2>1, <2>2
<1> QED BY <1>1, <1>5 DEF first

(* The attributes after the first n.                                       *)
LastUpTo(attrs, n, k) ==
  {i \in 1..n : attrs[i][1] = k /\ \A j \in 1..n : attrs[j][1] = k => j <= i}

AttributesUpTo(attrs, n) ==
  [k \in {attrs[i][1] : i \in 1..n} |-> attrs[CHOOSE i \in LastUpTo(attrs, n, k) : TRUE][2]]

LEMMA AttributesGrow ==
  ASSUME NEW attrs, NEW n \in Nat
  PROVE  AttributesUpTo(attrs, n + 1) =
           Insert(AttributesUpTo(attrs, n), attrs[n + 1][1], attrs[n + 1][2])
<1> DEFINE nm == attrs[n + 1][1]
           val == attrs[n + 1][2]
           D == {attrs[i][1] : i \in 1..n}
           E == {attrs[i][1] : i \in 1..(n + 1)}
           A == AttributesUpTo(attrs, n)
           B == AttributesUpTo(attrs, n + 1)
           last(m, k) == attrs[CHOOSE i \in LastUpTo(attrs, m, k) : TRUE][2]
<1>1. E = D \cup {nm}
  OBVIOUS
<1>2. /\ A = [k \in D |-> last(n, k)] /\ B = [k \in E |-> last(n + 1, k)]
  BY DEF AttributesUpTo
<1>3. last(n + 1, nm) = val
  <2>1. LastUpTo(attrs, n + 1, nm) = {n + 1}
    BY DEF LastUpTo
  <2> QED BY <2>1
<1>4. ASSUME NEW k, k # nm PROVE last(n + 1, k) = last(n, k)
  <2>1. LastUpTo(attrs, n + 1, k) = LastUpTo(attrs, n, k)
    <3>1. \A i \in 1..(n + 1) : i = n + 1 \/ i \in 1..n
      OBVIOUS
    <3>2. \A i \in 1..n : i \in 1..(n + 1)
      OBVIOUS
    <3> QED BY <1>4, <3>1, <3>2 DEF LastUpTo
  <2> QED BY <2>1, ZenonT(60)
<1> HIDE DEF last, A, B, D, E, nm, val
<1>5. DOMAIN A = D /\ \A x \in D : A[x] = last(n, x)
  BY <1>2
<1>6. Insert(A, nm, val) = [x \in D \cup {nm} |-> IF x = nm THEN val ELSE A[x]]
  BY <1>5 DEF Insert
<1>7. \A x \in E : last(n + 1, x) = IF x = nm THEN val ELSE A[x]
  BY <1>1, <1>3, <1>4, <1>5
<1>8. B = Insert(A, nm, val)
  BY <1>1, <1>2, <1>6, <1>7
<1> QED BY <1>8 DEF A, B, nm, val

AttrsFit(attrs) ==
  /\ attrs \in Seq(Seq(Byte) \X Seq(Byte))
  /\ \A i \in 1..Len(attrs) : Len(attrs[i][1]) < MaxLen /\ Len(attrs[i][2]) < MaxLen

(* One pair, and where it lies behind those before it.                     *)
LEMMA PairReads ==
  ASSUME NEW d \in Seq(Byte), NEW k \in Seq(Byte), NEW v \in Seq(Byte),
         Len(k) < MaxLen, Len(v) < MaxLen, NEW map, NEW i \in Places,
         Lies(Lenenc(k) \o Lenenc(v), d, i)
  PROVE  Pair(d, Got(map, i)) = Got(Insert(map, k, v), i + Len(Lenenc(k) \o Lenenc(v)))
<1> DEFINE x == Lenenc(k)
           y == Lenenc(v)
           j == i + Len(x)
<1>1. x \in Seq(Byte) /\ y \in Seq(Byte) /\ Len(x) \in Nat /\ Len(y) \in Nat /\ Len(x) > 0
  BY LenencIsBytes
<1>2. Lies(x, d, i) /\ Lies(y, d, j) /\ j \in Places
  <2> HIDE DEF x, y
  <2>1. Lies(x \o y, d, i)
    BY DEF x, y
  <2> QED BY <1>1, <2>1, LiesParts, Zenon
<1>3. ReadLengthEncodedString(d, i) = Got(k, j)
  BY <1>2, LenencReads
<1>4. ReadLengthEncodedString(d, j) = Got(v, j + Len(y))
  BY <1>2, LenencReads
<1>5. Len(x \o y) = Len(x) + Len(y)
  BY <1>1
<1> HIDE DEF x, y
<1>6. ~(i > Len(d)) /\ j + Len(y) = i + Len(x \o y)
  BY <1>1, <1>2, <1>5 DEF Lies, Places
<1> HIDE DEF j
<1>7. Pair(d, Got(map, i)) = Got(Insert(map, k, v), j + Len(y))
  <2> DEFINE s == Got(map, i)
             a == Got(k, j)
             b == Got(v, j + Len(y))
  <2>1. /\ s.ok /\ s.val = map /\ s.next = i /\ a.ok /\ a.val = k /\ a.next = j
        /\ b.ok /\ b.val = v /\ b.next = j + Len(y)
    BY DEF Got
  <2>2. ReadLengthEncodedString(d, s.next) = a /\ ReadLengthEncodedString(d, a.next) = b
    BY <1>3, <1>4, <2>1
  <2> HIDE DEF s, a, b
  <2>3. Pair(d, s) = Got(Insert(map, k, v), j + Len(y))
    BY <1>6, <2>1, <2>2 DEF Pair
  <2> QED BY <2>3 DEF s
<1> QED BY <1>6, <1>7 DEF x, y

(* Bytes after k pairs, each of which takes one or more.                   *)
LEMMA PairsGrow ==
  ASSUME NEW attrs, AttrsFit(attrs), NEW f, f[0] = <<>>,
         \A k \in 1..Len(attrs) :
           f[k] = f[k - 1] \o WrittenPair(attrs[k])
  PROVE  \A k \in 0..Len(attrs) : f[k] \in Seq(Byte) /\ Len(f[k]) >= k
<1> DEFINE N == Len(attrs)
           x(k) == WrittenPair(attrs[k])
           S == {k \in Nat : k <= N => f[k] \in Seq(Byte) /\ Len(f[k]) >= k}
<1>1. N \in Nat
  BY DEF AttrsFit
<1>2. \A k \in 1..N : x(k) \in Seq(Byte) /\ Len(x(k)) > 0
  <2> TAKE k \in 1..N
  <2>1. attrs[k] \in Seq(Byte) \X Seq(Byte)
    BY DEF AttrsFit
  <2>2. /\ attrs[k][1] \in Seq(Byte) /\ attrs[k][2] \in Seq(Byte)
        /\ Len(attrs[k][1]) < MaxLen /\ Len(attrs[k][2]) < MaxLen
    BY <2>1 DEF AttrsFit
  <2>3. /\ Lenenc(attrs[k][1]) \in Seq(Byte) /\ Len(Lenenc(attrs[k][1])) > 0
        /\ Lenenc(attrs[k][2]) \in Seq(Byte)
    BY <2>2, LenencIsBytes
  <2> QED BY <2>3 DEF WrittenPair
<1> HIDE DEF x, N
<1>3. 0 \in S
  <2>1. f[0] \in Seq(Byte) /\ Len(f[0]) >= 0 /\ 0 \in Nat
    OBVIOUS
  <2> QED BY <2>1, Zenon
<1>4. ASSUME NEW k \in Nat, k \in S PROVE k + 1 \in S
  <2> SUFFICES ASSUME k + 1 <= N
               PROVE  f[k + 1] \in Seq(Byte) /\ Len(f[k + 1]) >= k + 1
    OBVIOUS
  <2>1. f[k] \in Seq(Byte) /\ Len(f[k]) >= k
    BY <1>1, <1>4
  <2> DEFINE j == k + 1
             y == x(j)
             p == f[k]
  <2>2. j \in 1..N /\ j - 1 = k
    BY <1>1
  <2> HIDE DEF j
  <2>3. f[j] = f[k] \o x(j)
    BY <2>2, Zenon DEF x, N
  <2>4. y \in Seq(Byte) /\ Len(y) > 0
    BY <1>2, <2>2
  <2> HIDE DEF y, p
  <2>5. f[j] = p \o y /\ p \in Seq(Byte) /\ Len(p) >= k
    BY <2>1, <2>3 DEF y, p
  <2>6. p \o y \in Seq(Byte) /\ Len(p \o y) = Len(p) + Len(y)
    BY <2>4, <2>5
  <2>7. Len(p) + Len(y) >= k + 1
    BY <2>4, <2>5
  <2> QED BY <2>5, <2>6, <2>7 DEF j
<1>5. Nat \subseteq S
  <2> HIDE DEF S
  <2> QED BY <1>3, <1>4, SetInduction
<1> QED BY <1>1, <1>5 DEF N

(* A pair is a string of bytes.                                            *)
LEMMA PairIsBytes ==
  ASSUME NEW attrs, AttrsFit(attrs), NEW k \in 1..Len(attrs)
  PROVE  /\ attrs[k][1] \in Seq(Byte) /\ Len(attrs[k][1]) < MaxLen
         /\ attrs[k][2] \in Seq(Byte) /\ Len(attrs[k][2]) < MaxLen
         /\ WrittenPair(attrs[k]) \in Seq(Byte) /\ Len(WrittenPair(attrs[k])) > 0
<1>1. attrs[k] \in Seq(Byte) \X Seq(Byte)
  BY DEF AttrsFit
<1>2. /\ attrs[k][1] \in Seq(Byte) /\ attrs[k][2] \in Seq(Byte)
      /\ Len(attrs[k][1]) < MaxLen /\ Len(attrs[k][2]) < MaxLen
  BY <1>1 DEF AttrsFit
<1>3. /\ Lenenc(attrs[k][1]) \in Seq(Byte) /\ Len(Lenenc(attrs[k][1])) > 0
      /\ Lenenc(attrs[k][2]) \in Seq(Byte)
  BY <1>2, LenencIsBytes
<1> QED BY <1>2, <1>3 DEF WrittenPair

(* Every pair lies in the whole behind the pairs before it.                *)
LEMMA PairsLie ==
  ASSUME NEW attrs, AttrsFit(attrs), NEW f, f[0] = <<>>,
         \A k \in 1..Len(attrs) : f[k] = f[k - 1] \o WrittenPair(attrs[k])
  PROVE  \A k \in 1..Len(attrs) :
           Lies(WrittenPair(attrs[k]), f[Len(attrs)], 1 + Len(f[k - 1]))
<1> DEFINE N == Len(attrs)
           x(k) == WrittenPair(attrs[k])
           d == f[N]
           S == {m \in Nat : m <= N => Lies(f[N - m], d, 1)}
<1>1. N \in Nat
  BY DEF AttrsFit
<1>2. \A k \in 0..N : f[k] \in Seq(Byte)
  BY PairsGrow, Zenon
<1>3. \A k \in 1..N : x(k) \in Seq(Byte)
  BY PairIsBytes
<1>4. \A k \in 1..N : f[k] = f[k - 1] \o x(k)
  BY ZenonT(60)
<1> HIDE DEF x, N
<1>5. d \in Seq(Byte)
  BY <1>1, <1>2
<1>6. ASSUME NEW k \in 1..N, Lies(f[k], d, 1)
      PROVE  Lies(f[k - 1], d, 1) /\ Lies(x(k), d, 1 + Len(f[k - 1]))
  <2> DEFINE p == f[k - 1]
             y == x(k)
  <2>1. p \in Seq(Byte) /\ y \in Seq(Byte)
    BY <1>1, <1>2, <1>3
  <2> HIDE DEF d
  <2>2. Lies(p \o y, d, 1) /\ 1 \in Places
    <3>1. f[k] = p \o y
      BY <1>4, Zenon
    <3>2. 1 \in Places
      BY DEF Places
    <3> QED BY <1>6, <3>1, <3>2, Zenon
  <2> HIDE DEF p, y
  <2>3. Lies(p, d, 1) /\ Lies(y, d, 1 + Len(p))
    BY <1>5, <2>1, <2>2, LiesParts, Zenon
  <2> QED BY <2>3 DEF p, y
<1> HIDE DEF d
<1>7. 0 \in S
  <2>1. N - 0 = N
    BY <1>1
  <2>2. Lies(f[N - 0], d, 1) /\ 0 \in Nat
    BY <1>5, <2>1, LiesWhole DEF d
  <2> QED BY <2>2, Zenon
<1>8. ASSUME NEW m \in Nat, m \in S PROVE m + 1 \in S
  <2> SUFFICES ASSUME m + 1 <= N PROVE Lies(f[N - (m + 1)], d, 1)
    OBVIOUS
  <2> DEFINE k == N - m
  <2>1. k \in 1..N /\ N - (m + 1) = k - 1 /\ m <= N
    BY <1>1
  <2>2. Lies(f[k], d, 1)
    BY <1>8, <2>1
  <2> HIDE DEF k
  <2> QED BY <1>6, <2>1, <2>2
<1>9. Nat \subseteq S
  <2> HIDE DEF S
  <2> QED BY <1>7, <1>8, SetInduction
<1>10. ASSUME NEW k \in 1..N PROVE Lies(x(k), d, 1 + Len(f[k - 1]))
  <2>0. N - k \in Nat /\ N - k <= N /\ N - (N - k) = k
    BY <1>1
  <2>1. N - k \in S /\ N - k <= N /\ N - (N - k) = k
    <3> HIDE DEF S
    <3> QED BY <1>9, <2>0
  <2>2. Lies(f[k], d, 1)
    BY <2>1
  <2> QED BY <1>6, <2>2
<1> QED BY <1>10 DEF x, d, N

(* The parser's loop reads the attributes, the later of two with a name    *)
(* counting.                                                               *)
LEMMA PairsRead ==
  ASSUME NEW attrs, AttrsFit(attrs)
  PROVE  /\ WrittenAttrs(attrs) \in Seq(Byte)
         /\ Pairs(WrittenAttrs(attrs)) =
              Got(Attributes(attrs), 1 + Len(WrittenAttrs(attrs)))
<1> DEFINE N == Len(attrs)
           d == WrittenAttrs(attrs)
<1>1. N \in Nat /\ attrs \in Seq(Seq(Byte) \X Seq(Byte))
  BY DEF AttrsFit
<1>2. PICK f : /\ d = f[N] /\ f[0] = <<>>
               /\ \A k \in 1..N : f[k] = f[k - 1] \o WrittenPair(attrs[k])
  BY <1>1, PairsOf, ZenonT(60)
<1>3. \A k \in 0..N : f[k] \in Seq(Byte) /\ Len(f[k]) >= k
  BY <1>2, PairsGrow, Zenon
<1>4. \A k \in 1..N : Lies(WrittenPair(attrs[k]), d, 1 + Len(f[k - 1]))
  BY <1>2, PairsLie, ZenonT(60)
<1>5. d \in Seq(Byte) /\ Len(d) \in Nat /\ Len(d) >= N
  <2>1. N \in 0..N
    BY <1>1
  <2>2. d \in Seq(Byte) /\ Len(d) >= N
    BY <1>2, <1>3, <2>1, Zenon
  <2>3. Len(d) \in Nat
    BY <2>2, LenProperties, Zenon
  <2> QED BY <2>2, <2>3
<1> HIDE DEF d, N
<1>6. PICK l : /\ Pairs(d) = l[Len(d)] /\ l[0] = Got(<<>>, 1)
               /\ \A k \in 1..Len(d) : l[k] = Pair(d, l[k - 1])
  BY <1>5, TurnsOf
<1> DEFINE S == {m \in Nat : m <= N => l[m] = Got(AttributesUpTo(attrs, m), 1 + Len(f[m]))}
<1>7. 0 \in S
  <2>1. AttributesUpTo(attrs, 0) = <<>>
    <3>1. {attrs[i][1] : i \in 1..0} = {}
      OBVIOUS
    <3> QED BY <3>1 DEF AttributesUpTo
  <2>2. 1 + Len(f[0]) = 1 /\ 0 \in Nat
    BY <1>2
  <2>3. l[0] = Got(AttributesUpTo(attrs, 0), 1 + Len(f[0]))
    BY <1>6, <2>1, <2>2, ZenonT(60)
  <2> QED BY <2>2, <2>3, Zenon
<1>8. ASSUME NEW m \in Nat, m \in S PROVE m + 1 \in S
  <2> DEFINE j == m + 1
             i == 1 + Len(f[m])
             map == AttributesUpTo(attrs, m)
             w == WrittenPair(attrs[j])
  <2> SUFFICES ASSUME j <= N PROVE l[j] = Got(AttributesUpTo(attrs, j), 1 + Len(f[j]))
    OBVIOUS
  <2>1. j \in 1..N /\ j - 1 = m /\ j \in 1..Len(d) /\ m \in 0..N /\ m <= N
    BY <1>1, <1>5 DEF N
  <2>2. l[m] = Got(map, i)
    BY <1>8, <2>1
  <2>3. l[j] = Pair(d, l[m])
    <3> HIDE DEF j
    <3> QED BY <1>6, <2>1
  <2>4. Lies(w, d, i)
    <3> HIDE DEF j
    <3> QED BY <1>4, <2>1
  <2>5. f[j] = f[m] \o w
    <3> HIDE DEF j
    <3> QED BY <1>2, <2>1, Zenon
  <2>6. f[m] \in Seq(Byte) /\ i \in Places
    BY <1>3, <2>1 DEF Places
  <2>7. /\ attrs[j][1] \in Seq(Byte) /\ Len(attrs[j][1]) < MaxLen
        /\ attrs[j][2] \in Seq(Byte) /\ Len(attrs[j][2]) < MaxLen
        /\ w \in Seq(Byte)
    <3> HIDE DEF j
    <3> QED BY <2>1, PairIsBytes DEF N
  <2>8. AttributesUpTo(attrs, j) = Insert(map, attrs[j][1], attrs[j][2])
    BY AttributesGrow
  <2>9. 1 + Len(f[j]) = i + Len(w)
    <3> HIDE DEF w, j
    <3> QED BY <2>5, <2>6, <2>7, SMTT(60)
  <2> HIDE DEF j, i, map
  <2>10. Pair(d, Got(map, i)) = Got(Insert(map, attrs[j][1], attrs[j][2]), i + Len(w))
    BY <1>5, <2>4, <2>6, <2>7, PairReads DEF WrittenPair
  <2> QED BY <2>2, <2>3, <2>8, <2>9, <2>10
<1>9. Nat \subseteq S
  <2> HIDE DEF S
  <2> QED BY <1>7, <1>8, SetInduction
<1>10. AttributesUpTo(attrs, N) = Attributes(attrs)
  BY DEF AttributesUpTo, Attributes, LastUpTo, LastOf, N
<1> DEFINE all == Got(Attributes(attrs), 1 + Len(d))
<1>11. l[N] = all
  BY <1>1, <1>2, <1>9, <1>10, SMTT(60) DEF N
<1>12. Pair(d, all) = all
  <2>1. all.next > Len(d)
    BY <1>5 DEF Got
  <2> QED BY <2>1 DEF Pair
<1> DEFINE T == {m \in Nat : N + m <= Len(d) => l[N + m] = all}
<1> HIDE DEF all
<1>13. 0 \in T
  <2>1. N + 0 = N /\ 0 \in Nat
    BY <1>1 DEF N
  <2>2. l[N + 0] = all
    BY <1>11, <2>1
  <2> QED BY <2>1, <2>2, Zenon
<1>14. ASSUME NEW m \in Nat, m \in T PROVE m + 1 \in T
  <2> DEFINE j == N + (m + 1)
  <2> SUFFICES ASSUME j <= Len(d) PROVE l[j] = all
    OBVIOUS
  <2>1. j \in 1..Len(d) /\ j - 1 = N + m /\ N + m <= Len(d)
    BY <1>1, <1>5 DEF N
  <2> HIDE DEF j
  <2>2. l[j] = Pair(d, l[N + m])
    BY <1>6, <2>1
  <2> QED BY <1>12, <1>14, <2>1, <2>2
<1>15. Nat \subseteq T
  <2> HIDE DEF T
  <2> QED BY <1>13, <1>14, SetInduction
<1>16. l[Len(d)] = all
  <2>1. Len(d) - N \in Nat /\ N + (Len(d) - N) = Len(d)
    BY <1>1, <1>5 DEF N
  <2> QED BY <1>15, <2>1
<1> QED BY <1>5, <1>6, <1>16 DEF d, all

----------------------------------------------------------------------------
(* The fields of a HandshakeResponse, as they are written.                 *)
WrittenDb(o) == IF "DB" \in o.flags THEN Nul(o.db) ELSE <<>>
WrittenPlugin(o) == IF "PLUGIN" \in o.flags THEN Nul(Plugin) ELSE <<>>
WrittenTail(o) == IF "ATTRS" \in o.flags THEN Lenenc(WrittenAttrs(o.attrs)) ELSE <<>>

LEMMA NulIsBytes ==
  ASSUME NEW s \in Seq(Byte)
  PROVE  Nul(s) \in Seq(Byte) /\ Len(Nul(s)) = Len(s) + 1
<1>1. <<0>> \in Seq(Byte) /\ Len(<<0>>) = 1
  BY DEF Byte
<1> QED BY <1>1 DEF Nul

LEMMA CharsAreBytes ==
  ASSUME NEW s \in Seq(Char)
  PROVE  s \in Seq(Byte) /\ s \in Seq(Byte \ {0})
<1>1. Char \subseteq Byte \ {0} /\ Char \subseteq Byte
  BY DEF Char, Byte
<1> QED BY <1>1

LEMMA SmallIsByte ==
  ASSUME NEW n \in Nat, n < 256
  PROVE  n \in Byte
BY DEF Byte

LEMMA AttrsOK ==
  ASSUME NEW o, OfferOK(o)
  PROVE  AttrsFit(o.attrs)
<1> DEFINE A == 0..127
<1>1. A \subseteq Byte
  BY DEF Byte
<1>2. Text \subseteq Seq(Byte)
  <2>1. Text = Seq(A)
    BY DEF Text
  <2> HIDE DEF A
  <2>2. Seq(A) \subseteq Seq(Byte)
    <3> SUFFICES ASSUME NEW s \in Seq(A) PROVE s \in Seq(Byte)
      OBVIOUS
    <3> QED BY <1>1
  <2> QED BY <2>1, <2>2
<1>3. Text \X Text \subseteq Seq(Byte) \X Seq(Byte)
  <2> SUFFICES ASSUME NEW p \in Text \X Text PROVE p \in Seq(Byte) \X Seq(Byte)
    OBVIOUS
  <2>1. PICK k \in Text, v \in Text : p = <<k, v>>
    OBVIOUS
  <2>2. k \in Seq(Byte) /\ v \in Seq(Byte)
    BY <1>2
  <2> QED BY <2>1, <2>2
<1>4. o.attrs \in Seq(Text \X Text)
  BY DEF OfferOK
<1>5. o.attrs \in Seq(Seq(Byte) \X Seq(Byte))
  <2> HIDE DEF Text
  <2> QED BY <1>3, <1>4
<1> QED BY <1>5 DEF AttrsFit, OfferOK

LEMMA FieldsAreBytes ==
  ASSUME NEW o, OfferOK(o)
  PROVE  /\ WrittenAuth(o) \in Seq(Byte) /\ WrittenDb(o) \in Seq(Byte)
         /\ WrittenPlugin(o) \in Seq(Byte) /\ WrittenTail(o) \in Seq(Byte)
<1>1. o.auth \in Seq(Byte) /\ Len(o.auth) < MaxLen /\ Len(o.auth) \in Nat
  BY DEF OfferOK
<1>2. WrittenAuth(o) \in Seq(Byte)
  <2>1. CASE "LENENC" \in o.flags
    BY <1>1, <2>1, LenencIsBytes DEF WrittenAuth
  <2>2. CASE "LENENC" \notin o.flags /\ "SECURE" \in o.flags
    <3>0. o.flags \cap {"LENENC", "SECURE"} = {"SECURE"}
      BY <2>2
    <3>1. Len(o.auth) < 256
      BY <3>0 DEF OfferOK
    <3>2. Len(o.auth) \in Byte
      BY <1>1, <3>1, SmallIsByte
    <3>3. WrittenAuth(o) = <<Len(o.auth)>> \o o.auth
      BY <2>2 DEF WrittenAuth
    <3> QED BY <1>1, <3>2, <3>3
  <2>3. CASE "LENENC" \notin o.flags /\ "SECURE" \notin o.flags
    BY <1>1, <2>3, NulIsBytes DEF WrittenAuth
  <2> QED BY <2>1, <2>2, <2>3
<1>3. WrittenDb(o) \in Seq(Byte)
  <2>1. o.db \in Seq(Byte)
    BY DEF OfferOK
  <2> QED BY <2>1, NulIsBytes DEF WrittenDb
<1>4. WrittenPlugin(o) \in Seq(Byte)
  BY HandshakeAssumption, CharsAreBytes, NulIsBytes DEF WrittenPlugin
<1>5. WrittenTail(o) \in Seq(Byte)
  <2>1. WrittenAttrs(o.attrs) \in Seq(Byte) /\ Len(WrittenAttrs(o.attrs)) < MaxLen
    BY AttrsOK, PairsRead, ZenonT(60) DEF OfferOK
  <2> QED BY <2>1, LenencIsBytes, SMTT(60) DEF WrittenTail
<1> QED BY <1>2, <1>3, <1>4, <1>5

LEMMA AuthReads ==
  ASSUME NEW o, OfferOK(o), o.flags \cap {"LENENC", "SECURE"} # {},
         NEW b \in Seq(Byte), NEW i \in Places, Lies(WrittenAuth(o), b, i)
  PROVE  AuthResponse(b, i, o.flags) = Got(o.auth, i + Len(WrittenAuth(o)))
<1>1. o.auth \in Seq(Byte) /\ Len(o.auth) < MaxLen /\ Len(o.auth) \in Nat
  BY SMTT(60) DEF OfferOK
<1>2. CASE "LENENC" \in o.flags
  <2>1. WrittenAuth(o) = Lenenc(o.auth)
    BY <1>2 DEF WrittenAuth
  <2>2. AuthResponse(b, i, o.flags) = ReadLengthEncodedString(b, i)
    BY <1>2, ZenonT(60) DEF AuthResponse
  <2> QED BY <1>1, <2>1, <2>2, LenencReads
<1>3. CASE "LENENC" \notin o.flags /\ "SECURE" \in o.flags
  <2> DEFINE n == Len(o.auth)
             h == <<n>>
  <2>1. n \in Byte
    <3>0. o.flags \cap {"LENENC", "SECURE"} = {"SECURE"}
      BY <1>3, ZenonT(60)
    <3>1. n < 256
      BY <3>0 DEF OfferOK
    <3> QED BY <1>1, <3>1, SmallIsByte, ZenonT(60)
  <2>2. WrittenAuth(o) = h \o o.auth /\ h \in Seq(Byte) /\ Len(h) = 1 /\ h[1] = n
    BY <1>3, <2>1, SMTT(60) DEF WrittenAuth
  <2> HIDE DEF h
  <2>3. Lies(h, b, i) /\ Lies(o.auth, b, i + Len(h)) /\ i + Len(h) \in Places
    <3>1. Lies(h \o o.auth, b, i)
      BY <2>2, ZenonT(60)
    <3> QED BY <1>1, <2>2, <3>1, LiesParts, Zenon
  <2>4. b[i] = n /\ i <= Len(b)
    BY <2>2, <2>3, SMTT(60) DEF Lies, Places
  <2>5. Take(b, i + 1, n) = Got(o.auth, i + 1 + n)
    BY <1>1, <2>2, <2>3, TakeReads, ZenonT(60)
  <2>6. AuthResponse(b, i, o.flags) = Take(b, i + 1, n)
    <3>1. AuthResponse(b, i, o.flags) = IF i <= Len(b) THEN Take(b, i + 1, b[i]) ELSE Fail
      BY <1>3, Zenon DEF AuthResponse
    <3> QED BY <2>4, <3>1
  <2>7. i + 1 + n = i + Len(WrittenAuth(o))
    <3>1. Len(h \o o.auth) = Len(h) + n
      BY <1>1, <2>2, ConcatProperties, ZenonT(60)
    <3> HIDE DEF n
    <3>2. Len(WrittenAuth(o)) = 1 + n /\ n \in Nat /\ i \in Nat
      BY <1>1, <2>1, <2>2, <3>1, SMTT(60) DEF Places, Byte
    <3> QED BY <3>2
  <2> QED BY <2>5, <2>6, <2>7
<1> QED BY <1>2, <1>3

(* A name that the flags announce, or nothing.                             *)
LEMMA DbReads ==
  ASSUME NEW o, OfferOK(o), "DB" \in o.flags => o.db # <<>>,
         NEW b \in Seq(Byte), NEW i \in Places, Lies(WrittenDb(o), b, i)
  PROVE  Database(b, i, o.flags) =
           Got(IF "DB" \in o.flags THEN o.db ELSE None, i + Len(WrittenDb(o)))
<1>1. CASE "DB" \in o.flags
  <2>1. o.db \in Seq(Byte \ {0}) /\ o.db \in Seq(Byte) /\ WrittenDb(o) = Nul(o.db)
    BY <1>1, SMTT(60) DEF OfferOK, WrittenDb
  <2>2. NulString(b, i) = Got(o.db, i + Len(Nul(o.db)))
    BY <1>1, <2>1, NulStringReads
  <2>3. i <= Len(b)
    BY <2>1, NulIsBytes DEF Lies, Places
  <2> QED BY <1>1, <2>1, <2>2, <2>3 DEF Database, Present
<1>2. CASE "DB" \notin o.flags
  <2>1. i + Len(WrittenDb(o)) = i
    BY <1>2, SMTT(60) DEF WrittenDb, Places
  <2> QED BY <1>2, <2>1 DEF Database, Present
<1> QED BY <1>1, <1>2, ZenonT(60)

LEMMA PluginReads ==
  ASSUME NEW o, NEW b \in Seq(Byte), NEW i \in Places, Lies(WrittenPlugin(o), b, i)
  PROVE  AuthPlugin(b, i, o.flags) =
           Got(IF "PLUGIN" \in o.flags THEN Plugin ELSE <<>>, i + Len(WrittenPlugin(o)))
<1>1. CASE "PLUGIN" \in o.flags
  <2>1. /\ Plugin \in Seq(Byte \ {0}) /\ Plugin \in Seq(Byte) /\ Plugin # <<>>
        /\ WrittenPlugin(o) = Nul(Plugin)
    BY <1>1, HandshakeAssumption, CharsAreBytes DEF WrittenPlugin
  <2>2. NulString(b, i) = Got(Plugin, i + Len(Nul(Plugin)))
    BY <2>1, NulStringReads, ZenonT(60)
  <2>3. i <= Len(b)
    BY <2>1, NulIsBytes DEF Lies, Places
  <2> QED BY <1>1, <2>1, <2>2, <2>3 DEF AuthPlugin, Present
<1>2. CASE "PLUGIN" \notin o.flags
  <2>1. i + Len(WrittenPlugin(o)) = i
    BY <1>2, SMTT(60) DEF WrittenPlugin, Places
  <2> QED BY <1>2, <2>1 DEF AuthPlugin, Present
<1> QED BY <1>1, <1>2, ZenonT(60)

LEMMA TailReads ==
  ASSUME NEW o, OfferOK(o), NEW b \in Seq(Byte), NEW i \in Places, Lies(WrittenTail(o), b, i)
  PROVE  ConnectAttributes(b, i, o.flags) =
           Got(IF "ATTRS" \in o.flags THEN Attributes(o.attrs) ELSE None,
               i + Len(WrittenTail(o)))
<1>1. CASE "ATTRS" \in o.flags
  <2> DEFINE d == WrittenAttrs(o.attrs)
  <2>1. /\ d \in Seq(Byte) /\ Len(d) < MaxLen
        /\ Pairs(d) = Got(Attributes(o.attrs), 1 + Len(d))
    BY AttrsOK, PairsRead, ZenonT(60) DEF OfferOK
  <2>2. WrittenTail(o) = Lenenc(d)
    BY <1>1 DEF WrittenTail
  <2> HIDE DEF d
  <2>3. ReadLengthEncodedString(b, i) = Got(d, i + Len(Lenenc(d)))
    BY <2>1, <2>2, LenencReads, ZenonT(60)
  <2>4. i <= Len(b)
    BY <2>1, <2>2, LenencIsBytes DEF Lies, Places
  <2> DEFINE l == ReadLengthEncodedString(b, i)
             p == IF l.ok THEN Pairs(l.val) ELSE Fail
  <2>5. l.ok /\ l.val = d /\ l.next = i + Len(Lenenc(d))
    BY <2>3 DEF Got
  <2>6. p.ok /\ p.val = Attributes(o.attrs)
    BY <2>1, <2>5 DEF Got
  <2>7. ConnectAttributes(b, i, o.flags) = Got(p.val, l.next)
    <3>1. Present(b, i, o.flags, "ATTRS")
      BY <1>1, <2>4, ZenonT(60) DEF Present
    <3> QED BY <2>6, <3>1, ZenonT(60) DEF ConnectAttributes
  <2> QED BY <1>1, <2>2, <2>5, <2>6, <2>7, ZenonT(60)
<1>2. CASE "ATTRS" \notin o.flags
  <2>1. i + Len(WrittenTail(o)) = i
    BY <1>2, SMTT(60) DEF WrittenTail, Places
  <2> QED BY <1>2, <2>1, ZenonT(60) DEF ConnectAttributes, Present
<1> QED BY <1>1, <1>2, ZenonT(60)


(* The places of the five fields in a written packet.                      *)
Laid(b, x, a, d, p, t) == b = x \o (a \o (d \o (p \o t)))

LEMMA FieldsLie ==
  ASSUME NEW x \in Seq(Byte), NEW a \in Seq(Byte), NEW d \in Seq(Byte),
         NEW p \in Seq(Byte), NEW t \in Seq(Byte), NEW b,
         Laid(b, x, a, d, p, t)
  PROVE  /\ b \in Seq(Byte) /\ Lies(x, b, 1)
         /\ 1 + Len(x) \in Places /\ Lies(a, b, 1 + Len(x))
         /\ 1 + Len(x) + Len(a) \in Places /\ Lies(d, b, 1 + Len(x) + Len(a))
         /\ 1 + Len(x) + Len(a) + Len(d) \in Places
         /\ Lies(p, b, 1 + Len(x) + Len(a) + Len(d))
         /\ 1 + Len(x) + Len(a) + Len(d) + Len(p) \in Places
         /\ Lies(t, b, 1 + Len(x) + Len(a) + Len(d) + Len(p))
<1> DEFINE y4 == p \o t
           y3 == d \o y4
           y2 == a \o y3
<1>1. y4 \in Seq(Byte)
  OBVIOUS
<1> HIDE DEF y4
<1>2. y3 \in Seq(Byte)
  BY <1>1
<1> HIDE DEF y3
<1>3. y2 \in Seq(Byte)
  BY <1>2
<1> HIDE DEF y2
<1>4. b = x \o y2 /\ b \in Seq(Byte)
  <2>1. b = x \o y2
    BY Zenon DEF Laid, y2, y3, y4
  <2> QED BY <1>3, <2>1
<1>5. Lies(x \o y2, b, 1) /\ 1 \in Places
  <2>1. Lies(b, b, 1)
    BY <1>4, LiesWhole, Zenon
  <2>2. Lies(x \o y2, b, 1)
    BY <1>4, <2>1, Zenon
  <2> QED BY <2>2 DEF Places
<1>6. Lies(x, b, 1) /\ Lies(y2, b, 1 + Len(x)) /\ 1 + Len(x) \in Places
  BY <1>3, <1>4, <1>5, LiesParts, Zenon
<1>7. /\ Lies(a, b, 1 + Len(x)) /\ Lies(y3, b, 1 + Len(x) + Len(a))
      /\ 1 + Len(x) + Len(a) \in Places
  <2>1. Lies(a \o y3, b, 1 + Len(x))
    BY <1>6 DEF y2
  <2> QED BY <1>2, <1>4, <1>6, <2>1, LiesParts, Zenon
<1>8. /\ Lies(d, b, 1 + Len(x) + Len(a)) /\ Lies(y4, b, 1 + Len(x) + Len(a) + Len(d))
      /\ 1 + Len(x) + Len(a) + Len(d) \in Places
  <2>1. Lies(d \o y4, b, 1 + Len(x) + Len(a))
    BY <1>7 DEF y3
  <2> QED BY <1>1, <1>4, <1>7, <2>1, LiesParts, ZenonT(30)
<1>9. /\ Lies(p, b, 1 + Len(x) + Len(a) + Len(d))
      /\ Lies(t, b, 1 + Len(x) + Len(a) + Len(d) + Len(p))
      /\ 1 + Len(x) + Len(a) + Len(d) + Len(p) \in Places
  <2> DEFINE i == 1 + Len(x) + Len(a) + Len(d)
  <2>1. Lies(p \o t, b, i) /\ i \in Places
    BY <1>8 DEF y4
  <2> HIDE DEF i
  <2>2. Lies(p, b, i) /\ Lies(t, b, i + Len(p)) /\ i + Len(p) \in Places
    BY <1>4, <2>1, LiesParts, Zenon
  <2> QED BY <2>2 DEF i
<1> QED BY <1>4, <1>6, <1>7, <1>8, <1>9

(* A packet that is parsed begins with a name.                             *)
LEMMA NameFirst ==
  ASSUME NEW b, NEW f, ClientHandshakeResponse(b, f).ok
  PROVE  /\ NulString(b, 1).ok
         /\ ClientHandshakeResponse(b, f).val.username = NulString(b, 1).val
<1> DEFINE ru == NulString(b, 1)
           ra == IF ru.ok THEN AuthResponse(b, ru.next, f) ELSE Fail
           rd == IF ra.ok THEN Database(b, ra.next, f) ELSE Fail
           rp == IF rd.ok THEN AuthPlugin(b, rd.next, f) ELSE Fail
           rc == IF rp.ok THEN ConnectAttributes(b, rp.next, f) ELSE Fail
           fields == [username |-> ru.val, auth_response |-> ra.val,
                      database |-> rd.val, auth_plugin |-> rp.val,
                      connect_attributes |-> rc.val]
<1>1. ClientHandshakeResponse(b, f) = IF rc.ok THEN Got(fields, rc.next) ELSE Fail
  BY ZenonT(60) DEF ClientHandshakeResponse
<1>2. fields.username = ru.val /\ ~Fail.ok
  BY ZenonT(60) DEF Fail
<1>3. (rc.ok => rp.ok) /\ (rp.ok => rd.ok) /\ (rd.ok => ra.ok) /\ (ra.ok => ru.ok)
  <2>1. rc.ok => rp.ok
    <3> HIDE DEF rp
    <3> QED BY <1>2
  <2>2. rp.ok => rd.ok
    <3> HIDE DEF rd
    <3> QED BY <1>2, ZenonT(60)
  <2>3. rd.ok => ra.ok
    <3> HIDE DEF ra
    <3> QED BY <1>2, ZenonT(60)
  <2>4. ra.ok => ru.ok
    <3> HIDE DEF ru
    <3> QED BY <1>2, ZenonT(60)
  <2> HIDE DEF ru, ra, rd, rp, rc
  <2> QED BY <2>1, <2>2, <2>3, <2>4, ZenonT(60)
<1> HIDE DEF rc, fields
<1>4. rc.ok
  BY <1>1, <1>2, Zenon
<1>5. ClientHandshakeResponse(b, f).val = fields
  BY <1>1, <1>4, SMTT(60) DEF Got
<1> QED BY <1>2, <1>3, <1>4, <1>5, Zenon

(* The user name of a packet that is parsed at all is the client's: an     *)
(* empty one is refused, and another one ends with the first NUL.          *)
LEMMA NameReads ==
  ASSUME NEW name \in Seq(Char), NEW o, OfferOK(o),
         ClientHandshakeResponse(Written(name, o), o.flags).ok
  PROVE  ClientHandshakeResponse(Written(name, o), o.flags).val.username = name
<1> DEFINE b == Written(name, o)
           x == Nul(name)
           u == NulString(b, 1)
<1>1. name \in Seq(Byte) /\ name \in Seq(Byte \ {0}) /\ x \in Seq(Byte)
  BY CharsAreBytes, NulIsBytes
<1>2. Laid(b, x, WrittenAuth(o), WrittenDb(o), WrittenPlugin(o), WrittenTail(o))
  BY DEF Laid, Written, WrittenDb, WrittenPlugin, WrittenTail
<1>3. b \in Seq(Byte) /\ Lies(x, b, 1)
  <2> HIDE DEF b, x
  <2>1. /\ WrittenAuth(o) \in Seq(Byte) /\ WrittenDb(o) \in Seq(Byte)
        /\ WrittenPlugin(o) \in Seq(Byte) /\ WrittenTail(o) \in Seq(Byte)
    BY FieldsAreBytes
  <2> QED BY <1>1, <1>2, <2>1, FieldsLie, Zenon
<1>4. u.ok /\ ClientHandshakeResponse(b, o.flags).val.username = u.val
  BY NameFirst, Zenon
<1> HIDE DEF b
<1>5. CASE name # <<>>
  <2>1. u = Got(name, 1 + Len(x))
    BY <1>1, <1>3, <1>5, NulStringReads DEF Places
  <2>2. u.val = name
    BY <2>1 DEF Got
  <2> QED BY <1>4, <2>2, Zenon DEF b
<1>6. CASE name = <<>>
  <2>1. x = <<0>>
    BY <1>6 DEF Nul
  <2>2. 1 <= Len(b) /\ b[1] = 0
    BY <1>3, <2>1 DEF Lies
  <2>3. ~TakeUntilNul(b, 1).ok
    BY <2>2 DEF TakeUntilNul, Fail
  <2>4. ~u.ok
    BY <2>3, SMTT(30) DEF NulString, Fail
  <2> QED BY <1>4, <2>4, Zenon
<1> QED BY <1>5, <1>6

(* The fields are read one after the other, each where the last one ended. *)
Gives(r, v, n) == r = Got(v, n)

(* The fields of what a parser gives.                                      *)
LEMMA GivesFields ==
  ASSUME NEW r, NEW v, NEW n, Gives(r, v, n)
  PROVE  r.ok /\ r.val = v /\ r.next = n
BY ZenonT(60) DEF Gives, Got

(* Parsers that each begin where the one before ended make up the whole    *)
(* one.                                                                    *)
LEMMA ReadInTurn ==
  ASSUME NEW b, NEW f, NEW u, NEW a, NEW d, NEW p, NEW c,
         NEW i2, NEW i3, NEW i4, NEW i5, NEW i6,
         Gives(NulString(b, 1), u, i2), Gives(AuthResponse(b, i2, f), a, i3),
         Gives(Database(b, i3, f), d, i4), Gives(AuthPlugin(b, i4, f), p, i5),
         Gives(ConnectAttributes(b, i5, f), c, i6)
  PROVE  Gives(ClientHandshakeResponse(b, f),
               [username |-> u, auth_response |-> a, database |-> d,
                auth_plugin |-> p, connect_attributes |-> c], i6)
<1> DEFINE ru == NulString(b, 1)
           ra == IF ru.ok THEN AuthResponse(b, ru.next, f) ELSE Fail
           rd == IF ra.ok THEN Database(b, ra.next, f) ELSE Fail
           rp == IF rd.ok THEN AuthPlugin(b, rd.next, f) ELSE Fail
           rc == IF rp.ok THEN ConnectAttributes(b, rp.next, f) ELSE Fail
<1>1. ru.ok /\ ru.val = u /\ ru.next = i2
  BY GivesFields, Zenon
<1> HIDE DEF ru
<1>2. ra.ok /\ ra.val = a /\ ra.next = i3
  <2>1. ra = AuthResponse(b, i2, f)
    BY <1>1, Zenon
  <2> QED BY <2>1, GivesFields, ZenonT(60)
<1> HIDE DEF ra
<1>3. rd.ok /\ rd.val = d /\ rd.next = i4
  <2>1. rd = Database(b, i3, f)
    BY <1>2, Zenon
  <2> QED BY <2>1, GivesFields, Zenon
<1> HIDE DEF rd
<1>4. rp.ok /\ rp.val = p /\ rp.next = i5
  <2>1. rp = AuthPlugin(b, i4, f)
    BY <1>3, Zenon
  <2> QED BY <2>1, GivesFields, Zenon
<1> HIDE DEF rp
<1>5. rc.ok /\ rc.val = c /\ rc.next = i6
  <2>1. rc = ConnectAttributes(b, i5, f)
    BY <1>4, Zenon
  <2> QED BY <2>1, GivesFields, ZenonT(60)
<1> HIDE DEF rc
<1>6. ClientHandshakeResponse(b, f) =
        IF rc.ok THEN Got([username |-> ru.val, auth_response |-> ra.val,
                           database |-> rd.val, auth_plugin |-> rp.val,
                           connect_attributes |-> rc.val], rc.next)
        ELSE Fail
  BY ZenonT(60) DEF ClientHandshakeResponse, ru, ra, rd, rp, rc
<1> QED BY <1>1, <1>2, <1>3, <1>4, <1>5, <1>6, ZenonT(60) DEF Gives

(* A client that says how long its password hash is and leaves no string   *)
(* empty is understood: client_handshake_response gives back every field   *)
(* that the client wrote, of whatever length, and the attributes as a map  *)
(* in which the later of two values counts (basic.rs:212-317).             *)
THEOREM ParseRoundTrip ==
  ASSUME NEW name \in Seq(Char), name # <<>>, NEW o, OfferOK(o),
         o.flags \cap {"LENENC", "SECURE"} # {},
         "DB" \in o.flags => o.db # <<>>
  PROVE  /\ ClientHandshakeResponse(Written(name, o), o.flags).ok
         /\ ClientHandshakeResponse(Written(name, o), o.flags).val = Meant(name, o)
<1> DEFINE b == Written(name, o)
           x == Nul(name)
           wa == WrittenAuth(o)
           wd == WrittenDb(o)
           wp == WrittenPlugin(o)
           wt == WrittenTail(o)
           i2 == 1 + Len(x)
           i3 == i2 + Len(wa)
           i4 == i3 + Len(wd)
           i5 == i4 + Len(wp)
           i6 == i5 + Len(wt)
           m == Meant(name, o)
<1>1. name \in Seq(Byte) /\ name \in Seq(Byte \ {0}) /\ x \in Seq(Byte)
  BY CharsAreBytes, NulIsBytes
<1>2. Laid(b, x, wa, wd, wp, wt)
  BY ZenonT(60) DEF Laid, Written, WrittenDb, WrittenPlugin, WrittenTail
<1>3. wa \in Seq(Byte) /\ wd \in Seq(Byte) /\ wp \in Seq(Byte) /\ wt \in Seq(Byte)
  BY FieldsAreBytes
<1> HIDE DEF b, x, wa, wd, wp, wt
<1>4. /\ b \in Seq(Byte) /\ Lies(x, b, 1)
      /\ i2 \in Places /\ Lies(wa, b, i2)
      /\ i3 \in Places /\ Lies(wd, b, i3)
      /\ i4 \in Places /\ Lies(wp, b, i4)
      /\ i5 \in Places /\ Lies(wt, b, i5)
  BY <1>1, <1>2, <1>3, FieldsLie, ZenonT(60)
<1> HIDE DEF i2, i3, i4, i5, i6
<1>5. Gives(NulString(b, 1), name, i2)
  <2>1. 1 \in Places
    BY DEF Places
  <2> QED BY <1>1, <1>4, <2>1, NulStringReads, ZenonT(60) DEF Gives, i2, x
<1>6. Gives(AuthResponse(b, i2, o.flags), o.auth, i3)
  BY <1>4, AuthReads, ZenonT(60) DEF Gives, i3, wa
<1>7. Gives(Database(b, i3, o.flags), m.database, i4)
  BY <1>4, DbReads, ZenonT(60) DEF Gives, i4, wd, Meant
<1>8. Gives(AuthPlugin(b, i4, o.flags), m.auth_plugin, i5)
  BY <1>4, PluginReads, ZenonT(60) DEF Gives, i5, wp, Meant
<1>9. Gives(ConnectAttributes(b, i5, o.flags), m.connect_attributes, i6)
  BY <1>4, TailReads, ZenonT(60) DEF Gives, i6, wt, Meant
<1>10. Gives(ClientHandshakeResponse(b, o.flags),
            [username |-> name, auth_response |-> o.auth, database |-> m.database,
             auth_plugin |-> m.auth_plugin, connect_attributes |-> m.connect_attributes], i6)
  <2> HIDE DEF m
  <2> QED BY <1>5, <1>6, <1>7, <1>8, <1>9, ReadInTurn, Zenon
<1>11. [username |-> name, auth_response |-> o.auth, database |-> m.database,
        auth_plugin |-> m.auth_plugin, connect_attributes |-> m.connect_attributes] = m
  BY Zenon DEF Meant
<1> HIDE DEF m
<1> QED BY <1>10, <1>11 DEF Gives, b, m, Got

----------------------------------------------------------------------------
(* The parser is what the login needs.                                     *)
LEMMA Understood == ParserIsRight
<1> SUFFICES ASSUME NEW name \in Seq(Char), NEW o, OfferOK(o)
             PROVE  LET r == ClientHandshakeResponse(Written(name, o), o.flags)
                    IN  /\ r.ok => r.val.username = name
                        /\ /\ name # <<>> /\ o.flags \cap {"LENENC", "SECURE"} # {}
                           /\ "DB" \in o.flags => o.db # <<>>
                           => r.ok /\ r.val = Meant(name, o)
  BY Zenon DEF ParserIsRight
<1> QED BY NameReads, ParseRoundTrip, Zenon

LEMMA HsInvariant == HsSpec => []HsInv
<1>1. HsInv /\ [HsNext]_hsVars => HsInv'
  BY HsInvNext, Understood, Zenon
<1> QED BY <1>1, HsInvInit, PTL DEF HsSpec

(* A login on bytes is a login: the HandshakeResponse is read back so that *)
(* the change of the tenant and the routing are the ones of TenantKey,     *)
(* whatever the client's flags, password hash, database and attributes     *)
(* (authenticator.rs:62-91, basic.rs:123-139).                             *)
THEOREM LoginImplementsTenantKey == HsSpec => Spec
<1>1. HsInit => Init
  BY DEF HsInit
<1>2. HsInv /\ [HsNext]_hsVars => [Next]_vars
  BY LoginStep, Understood, Zenon
<1> QED
  BY <1>1, <1>2, HsInvariant, PTL DEF HsSpec, Spec

(* The tenant that a client names in its packet is the one that its        *)
(* connection is routed to.                                                *)
THEOREM PacketTenantIsRight == HsSpec => []RightTenant
BY LoginImplementsTenantKey, TenantIsRight, PTL

(* The proxy reads every field as the client wrote it (basic.rs:212-317).  *)
THEOREM AlwaysReadAsSent == HsSpec => []ReadAsSent
BY InvReadAsSent, HsInvariant, PTL

(* The server is asked for the same user and database on a new and on a    *)
(* used connection (authenticator.rs:93-160).                              *)
THEOREM AlwaysSameRequest == HsSpec => []SameRequest
BY InvSameRequest, HsInvariant, PTL

(* Client and server see consecutive packet numbers, but for the verdict   *)
(* on a used connection (authenticator.rs:45-58).                          *)
THEOREM AlwaysInOrder == HsSpec => []NumbersInOrder
BY InvNumbersInOrder, HsInvariant, PTL
==============================================================================
