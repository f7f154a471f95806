--------------------------- MODULE ProtocolProofs ---------------------------
(***************************************************************************)
(* Proofs about the packets, for any names and any sizes.                  *)
(***************************************************************************)
EXTENDS Protocol, SequenceTheorems, TLAPS

Letters == 15 .. 127

LEMMA LettersSeq ==
  ASSUME NEW t \in Seq(Letters)
  PROVE  /\ t \in Seq(Int) /\ Len(t) \in Nat /\ DOMAIN t = 1 .. Len(t)
         /\ \A j \in 1 .. Len(t) : t[j] \in Letters /\ t[j] # 0
<1>1. Letters \subseteq Int /\ 0 \notin Letters
  BY DEF Letters
<1>2. t \in Seq(Int)
  BY <1>1, SeqMonotonic
<1>3. Len(t) \in Nat /\ DOMAIN t = 1 .. Len(t)
  BY LenProperties
<1>4. \A j \in 1 .. Len(t) : t[j] \in Letters
  BY ElementOfSeq
<1>. QED BY <1>1, <1>2, <1>3, <1>4, Zenon

LEMMA PrefixOf ==
  ASSUME NEW s \in Seq(Int), NEW n \in Nat, n <= Len(s)
  PROVE  /\ SubSeq(s, 1, n) \in Seq(Int) /\ Len(SubSeq(s, 1, n)) = n
         /\ \A j \in 1 .. n : SubSeq(s, 1, n)[j] = s[j]
<1>1. Len(s) \in Nat
  BY LenProperties
<1>2. \A j \in 1 .. n : s[j] \in Int
  <2>1. \A j \in 1 .. n : j \in 1 .. Len(s)
    BY <1>1
  <2>. QED BY <2>1, ElementOfSeq
<1>3. 1 \in Int /\ n \in Int
  OBVIOUS
<1>4. /\ SubSeq(s, 1, n) \in Seq(Int)
      /\ Len(SubSeq(s, 1, n)) = IF 1 <= n THEN n - 1 + 1 ELSE 0
      /\ \A j \in 1 .. n - 1 + 1 : SubSeq(s, 1, n)[j] = s[1 + j - 1]
  BY <1>2, <1>3, SubSeqProperties
<1>5. (IF 1 <= n THEN n - 1 + 1 ELSE 0) = n /\ n - 1 + 1 = n /\ \A j \in 1 .. n : 1 + j - 1 = j
  OBVIOUS
<1>. QED BY <1>4, <1>5

(* A string that fits the arrays of protocol.h.                            *)
Text == {s \in Seq(Letters) : Len(s) < MAX_SIZE}

(* The buffer b begins with the bytes p.                                   *)
BeginsWith(b, p) == \A j \in 1 .. Len(p) : b[j] = p[j]

-----------------------------------------------------------------------------
(* Strings.                                                                *)

LEMMA ByteOfSmall ==
  ASSUME NEW n \in 0 .. 255
  PROVE  Byte(n) = n
BY DEF Byte

LEMMA TextBytes ==
  ASSUME NEW s \in Text
  PROVE  /\ s \in Seq(Int)
         /\ Len(s) \in 0 .. 29 /\ Byte(Len(s)) = Len(s)
         /\ DOMAIN s = 1 .. Len(s)
         /\ \A j \in 1 .. Len(s) : s[j] \in 15 .. 127
<1>1. s \in Seq(15 .. 127) /\ Len(s) < 30
  BY DEF Text, Letters, MAX_SIZE
<1>2. Len(s) \in Nat /\ DOMAIN s = 1 .. Len(s)
  BY <1>1, LenProperties
<1>3. s \in Seq(Int)
  <2>1. 15 .. 127 \subseteq Int
    OBVIOUS
  <2>. QED BY <1>1, <2>1, SeqMonotonic
<1>4. Len(s) \in 0 .. 29 /\ Len(s) \in 0 .. 255
  <2>1. \A n \in Nat : n < 30 => n \in 0 .. 29 /\ n \in 0 .. 255
    OBVIOUS
  <2>. QED BY <1>1, <1>2, <2>1, Zenon
<1>5. Byte(Len(s)) = Len(s)
  BY <1>4, ByteOfSmall
<1>6. \A j \in 1 .. Len(s) : s[j] \in 15 .. 127
  BY <1>1, ElementOfSeq
<1>. QED BY <1>2, <1>3, <1>4, <1>5, <1>6

LEMMA NamesAreText ==
  /\ Name \subseteq Text /\ Ip \cup {NoIp, Port, NoPort} \subseteq Text
  /\ \A s \in Ip \cup {NoIp} : Len(s) < IpSize
<1>1. NoIp \in Text /\ Len(NoIp) < IpSize
  <2>1. NoIp \in Seq(15 .. 127)
    BY DEF NoIp
  <2>2. Len(NoIp) < 15 /\ Len(NoIp) < 30
    BY DEF NoIp
  <2>. QED BY <2>1, <2>2, Zenon DEF Text, Letters, MAX_SIZE, IpSize
<1>2. Port \in Text
  <2>1. Port \in Seq(15 .. 127)
    BY DEF Port
  <2>2. Len(Port) < 30
    BY DEF Port
  <2>. QED BY <2>1, <2>2, Zenon DEF Text, Letters, MAX_SIZE
<1>3. NoPort \in Text
  <2>1. NoPort \in Seq(15 .. 127)
    BY DEF NoPort
  <2>2. Len(NoPort) < 30
    BY DEF NoPort
  <2>. QED BY <2>1, <2>2, Zenon DEF Text, Letters, MAX_SIZE
<1>4. ASSUME NEW s \in Name \cup Ip
      PROVE  s \in Text
  <2>1. s \in Seq(15 .. 127)
    BY ProtocolAssumption
  <2>2. Len(s) < 30
    <3>1. CASE s \in Name
      BY <3>1, ProtocolAssumption DEF MAX_SIZE
    <3>2. CASE s \in Ip
      <4>1. Len(s) \in Nat
        BY <2>1, LenProperties
      <4>2. Len(s) < 15
        BY <3>2, ProtocolAssumption DEF IpSize
      <4>. QED BY <4>1, <4>2
    <3>. QED BY <3>1, <3>2
  <2>. QED BY <2>1, <2>2 DEF Text, Letters, MAX_SIZE
<1>. QED BY <1>1, <1>2, <1>3, <1>4, ProtocolAssumption

LEMMA CountedBytes ==
  ASSUME NEW s \in Text
  PROVE  /\ Counted(s) \in Seq(Int) /\ Len(Counted(s)) = Len(s) + 1
         /\ Counted(s)[1] = Len(s)
         /\ \A j \in 1 .. Len(s) : Counted(s)[j + 1] = s[j]
<1>1. s \in Seq(Int) /\ Len(s) \in Nat /\ Byte(Len(s)) = Len(s)
  BY TextBytes
<1>2. <<Len(s)>> \in Seq(Int) /\ Len(<<Len(s)>>) = 1 /\ <<Len(s)>>[1] = Len(s)
  BY <1>1
<1>3. Counted(s) = <<Len(s)>> \o s
  BY <1>1 DEF Counted
<1>4. /\ Counted(s) \in Seq(Int) /\ Len(Counted(s)) = 1 + Len(s)
      /\ \A j \in 1 .. 1 + Len(s) :
           Counted(s)[j] = IF j <= 1 THEN <<Len(s)>>[j] ELSE s[j - 1]
  BY <1>1, <1>2, <1>3, ConcatProperties
<1>5. \A j \in 1 .. Len(s) : j + 1 \in 1 .. 1 + Len(s) /\ ~(j + 1 <= 1) /\ j + 1 - 1 = j
  BY <1>1
<1>. QED BY <1>1, <1>2, <1>4, <1>5

(* A counted string is read back from wherever it lies in a buffer.        *)
LEMMA StringReadBack ==
  ASSUME NEW b, NEW k \in Nat, NEW s \in Text,
         b[k] = Len(s), \A j \in 1 .. Len(s) : b[k + j] = s[j]
  PROVE  BytesAt(b, k) = s /\ After(b, k) = k + Len(s) + 1
<1>1. Len(s) \in Nat
  BY TextBytes
<1>2. \A j \in k + 1 .. k + Len(s) : b[j] \in Int
  <2>. SUFFICES ASSUME NEW j \in k + 1 .. k + Len(s)
                PROVE  b[j] \in Int
    OBVIOUS
  <2>1. j - k \in 1 .. Len(s) /\ k + (j - k) = j
    BY <1>1
  <2>2. b[j] = s[j - k] /\ s[j - k] \in 15 .. 127
    BY <2>1, TextBytes
  <2>. QED BY <2>2
<1>3. /\ SubSeq(b, k + 1, k + Len(s)) \in Seq(Int)
      /\ Len(SubSeq(b, k + 1, k + Len(s))) = Len(s)
      /\ \A j \in 1 .. Len(s) : SubSeq(b, k + 1, k + Len(s))[j] = b[k + j]
  <2>1. k + 1 \in Int /\ k + Len(s) \in Int
    BY <1>1
  <2>2. /\ SubSeq(b, k + 1, k + Len(s)) \in Seq(Int)
        /\ Len(SubSeq(b, k + 1, k + Len(s))) =
             IF k + 1 <= k + Len(s) THEN k + Len(s) - (k + 1) + 1 ELSE 0
        /\ \A j \in 1 .. k + Len(s) - (k + 1) + 1 :
             SubSeq(b, k + 1, k + Len(s))[j] = b[k + 1 + j - 1]
    BY <1>2, <2>1, SubSeqProperties
  <2>3. k + Len(s) - (k + 1) + 1 = Len(s)
    BY <1>1
  <2>4. \A j \in 1 .. Len(s) : k + 1 + j - 1 = k + j
    BY <1>1
  <2>. QED BY <1>1, <2>2, <2>3, <2>4
<1>4. SubSeq(b, k + 1, k + Len(s)) = s
  BY <1>3, TextBytes, SeqEqual
<1>. QED BY <1>1, <1>4 DEF BytesAt, After

-----------------------------------------------------------------------------
(* Memory that strings are copied to.                                      *)

Memory == [1 .. MemorySize -> Int]

LEMMA MemoryBytes ==
  ASSUME NEW mem \in Memory
  PROVE  /\ MemorySize \in Nat /\ MemorySize > 127
         /\ DOMAIN mem = 1 .. MemorySize /\ mem \in Seq(Int) /\ Len(mem) = MemorySize
         /\ \A j \in 1 .. MemorySize : mem[j] \in Int
BY ProtocolAssumption DEF Memory

LEMMA MemoriesInMemory ==
  /\ Cleared \in Memory /\ \A j \in 1 .. MemorySize : Cleared[j] = 0
  /\ Leftover \subseteq Memory
<1>1. Cleared \in Memory /\ \A j \in 1 .. MemorySize : Cleared[j] = 0
  BY DEF Cleared, Memory
<1>2. ASSUME NEW mem \in Leftover
      PROVE  mem \in Memory
  <2>1. mem \in [1 .. MemorySize -> 0 .. 255]
    BY ProtocolAssumption
  <2>2. \A n \in 0 .. 255 : n \in Int
    OBVIOUS
  <2>3. [1 .. MemorySize -> 0 .. 255] \subseteq [1 .. MemorySize -> Int]
    BY <2>2, Zenon
  <2>. QED BY <2>1, <2>3 DEF Memory
<1>. QED BY <1>1, <1>2

(* What strncpy writes and what it leaves.                                 *)
LEMMA Copied ==
  ASSUME NEW mem \in Memory, NEW at \in Nat, NEW s \in Seq(Int)
  PROVE  /\ StrNCpy(mem, at, s) \in Memory
         /\ \A j \in 1 .. MemorySize :
              j <= at \/ j > at + Len(s) => StrNCpy(mem, at, s)[j] = mem[j]
         /\ \A j \in 1 .. Len(s) : at + j <= MemorySize =>
              /\ (\A i \in 1 .. j : s[i] # 0) => StrNCpy(mem, at, s)[at + j] = s[j]
              /\ s[j] = 0 => StrNCpy(mem, at, s)[at + j] = 0
<1>. DEFINE r == StrNCpy(mem, at, s)
<1>1. /\ Len(s) \in Nat /\ DOMAIN s = 1 .. Len(s) /\ \A j \in 1 .. Len(s) : s[j] \in Int
  BY LenProperties, ElementOfSeq
<1>2. DOMAIN mem = 1 .. MemorySize /\ MemorySize \in Nat /\ \A j \in 1 .. MemorySize : mem[j] \in Int
  BY MemoryBytes
<1>3. r = [j \in 1 .. MemorySize |->
             IF j - at \notin 1 .. Len(s) THEN mem[j]
             ELSE IF \E i \in 1 .. j - at : s[i] = 0 THEN 0 ELSE s[j - at]]
  BY <1>1, <1>2 DEF StrNCpy
<1>. HIDE DEF r
<1>4. r \in Memory
  BY <1>1, <1>2, <1>3 DEF Memory
<1>5. \A j \in 1 .. MemorySize : j <= at \/ j > at + Len(s) => r[j] = mem[j]
  BY <1>1, <1>3
<1>6. ASSUME NEW j \in 1 .. Len(s), at + j <= MemorySize
      PROVE  /\ (\A i \in 1 .. j : s[i] # 0) => r[at + j] = s[j]
             /\ s[j] = 0 => r[at + j] = 0
  <2>1. PICK k : k = at + j
    OBVIOUS
  <2>2. k \in 1 .. MemorySize /\ k - at = j /\ j \in 1 .. j
    BY <1>1, <1>2, <1>6, <2>1
  <2>3. r[k] = IF \E i \in 1 .. j : s[i] = 0 THEN 0 ELSE s[j]
    BY <1>3, <2>2
  <2>. QED BY <2>1, <2>2, <2>3, Zenon
<1>. QED BY <1>4, <1>5, <1>6 DEF r

(* The string read from where a text lies starts with the text, and is the *)
(* text if a NUL follows.                                                  *)
LEMMA TextInMemory ==
  ASSUME NEW mem \in Memory, NEW at \in Nat, NEW t \in Seq(Letters),
         at + Len(t) < MemorySize,
         \A j \in 1 .. Len(t) : mem[at + j] = t[j]
  PROVE  /\ StartsWith(StringIn(mem, at), t)
         /\ mem[at + Len(t) + 1] = 0 => StringIn(mem, at) = t
<1>1. /\ t \in Seq(Int) /\ Len(t) \in Nat /\ DOMAIN t = 1 .. Len(t)
      /\ \A j \in 1 .. Len(t) : t[j] # 0
  BY LettersSeq
<1>2. /\ MemorySize \in Nat /\ Len(mem) = MemorySize
      /\ \A j \in 1 .. MemorySize : mem[j] \in Int
  BY MemoryBytes
<1>3. PICK s : s = SubSeq(mem, at + 1, Len(mem))
  OBVIOUS
<1>4. /\ DOMAIN s = 1 .. MemorySize - at
      /\ \A j \in 1 .. MemorySize - at : s[j] = mem[at + j]
  <2>1. \A j \in at + 1 .. MemorySize : mem[j] \in Int
    BY <1>2
  <2>2. at + 1 \in Int /\ MemorySize \in Int
    BY <1>2
  <2>3. /\ s \in Seq(Int)
        /\ Len(s) = IF at + 1 <= MemorySize THEN MemorySize - (at + 1) + 1 ELSE 0
        /\ \A j \in 1 .. MemorySize - (at + 1) + 1 : s[j] = mem[at + 1 + j - 1]
    BY <1>2, <1>3, <2>1, <2>2, SubSeqProperties
  <2>4. /\ (IF at + 1 <= MemorySize THEN MemorySize - (at + 1) + 1 ELSE 0) = MemorySize - at
        /\ MemorySize - (at + 1) + 1 = MemorySize - at
        /\ \A j \in 1 .. MemorySize - at : at + 1 + j - 1 = at + j
    BY <1>1, <1>2
  <2>5. DOMAIN s = 1 .. Len(s)
    BY <2>3, LenProperties
  <2>. QED BY <2>3, <2>4, <2>5
<1>5. StringIn(mem, at) = [j \in {j \in DOMAIN s : \A i \in 1 .. j : s[i] # 0} |-> s[j]]
  BY <1>3 DEF StringIn, CString
<1>6. \A j \in 1 .. Len(t) : /\ j \in DOMAIN s /\ s[j] = t[j]
                             /\ \A i \in 1 .. j : s[i] # 0
  <2>1. \A j \in 1 .. Len(t) : j \in 1 .. MemorySize - at
    BY <1>1, <1>2
  <2>2. \A j \in 1 .. Len(t) : s[j] = t[j]
    BY <1>4, <2>1
  <2>3. \A j \in 1 .. Len(t) : \A i \in 1 .. j : i \in 1 .. Len(t)
    BY <1>1
  <2>. QED BY <1>1, <1>4, <2>1, <2>2, <2>3
<1>7. StartsWith(StringIn(mem, at), t)
  BY <1>1, <1>5, <1>6 DEF StartsWith
<1>8. ASSUME mem[at + Len(t) + 1] = 0
      PROVE  StringIn(mem, at) = t
  <2>. DEFINE D == {j \in DOMAIN s : \A i \in 1 .. j : s[i] # 0}
  <2>1. s[Len(t) + 1] = 0
    <3>1. Len(t) + 1 \in 1 .. MemorySize - at /\ at + (Len(t) + 1) = at + Len(t) + 1
      BY <1>1, <1>2
    <3>. QED BY <1>4, <1>8, <3>1
  <2>2. D = 1 .. Len(t)
    <3>1. ASSUME NEW j \in D
          PROVE  j \in 1 .. Len(t)
      <4>1. j \in 1 .. MemorySize - at
        BY <1>4
      <4>2. Len(t) < j => Len(t) + 1 \in 1 .. j
        BY <1>1, <1>2, <4>1
      <4>3. ~(Len(t) < j)
        BY <2>1, <4>2
      <4>. QED BY <1>1, <1>2, <4>1, <4>3
    <3>2. ASSUME NEW j \in 1 .. Len(t)
          PROVE  j \in D
      BY <1>6
    <3>. QED BY <3>1, <3>2
  <2>3. StringIn(mem, at) = [j \in D |-> s[j]]
    BY <1>5
  <2>. HIDE DEF D
  <2>4. t = [j \in 1 .. Len(t) |-> t[j]]
    BY <1>1
  <2>. QED BY <1>6, <2>2, <2>3, <2>4
<1>. QED BY <1>7, <1>8

(* Two texts, the first shorter than its array.                            *)
LEMMA TwoTexts ==
  ASSUME NEW mem \in Memory, NEW at \in {IpSize, MAX_SIZE}, NEW s \in Text, NEW t \in Text,
         Len(s) < at,
         NEW r, r = StrNCpy(StrNCpy(mem, 0, s), at, t)
  PROVE  /\ StartsWith(StringIn(r, 0), s) /\ StartsWith(StringIn(r, at), t)
         /\ mem[Len(s) + 1] = 0 => StringIn(r, 0) = s
         /\ mem[at + Len(t) + 1] = 0 => StringIn(r, at) = t
<1>1. /\ s \in Seq(Int) /\ t \in Seq(Int) /\ s \in Seq(Letters) /\ t \in Seq(Letters)
      /\ Len(s) \in Nat /\ Len(t) \in Nat /\ Len(t) < 30
      /\ \A j \in 1 .. Len(s) : s[j] # 0
      /\ \A j \in 1 .. Len(t) : t[j] # 0
  <2>1. s \in Seq(Letters) /\ t \in Seq(Letters) /\ Len(t) < 30
    BY DEF Text, MAX_SIZE
  <2>. QED BY <2>1, LettersSeq
<1>2. MemorySize \in Nat /\ MemorySize > 127 /\ at \in Nat /\ at < 31 /\ 0 \in Nat
  BY MemoryBytes DEF IpSize, MAX_SIZE
<1>3. PICK q : q = StrNCpy(mem, 0, s)
  OBVIOUS
<1>4. /\ q \in Memory
      /\ \A j \in 1 .. MemorySize : j > Len(s) => q[j] = mem[j]
      /\ \A j \in 1 .. Len(s) : q[j] = s[j]
  <2>1. /\ q \in Memory
        /\ \A j \in 1 .. MemorySize : j <= 0 \/ j > 0 + Len(s) => q[j] = mem[j]
        /\ \A j \in 1 .. Len(s) : 0 + j <= MemorySize =>
             /\ (\A i \in 1 .. j : s[i] # 0) => q[0 + j] = s[j]
             /\ s[j] = 0 => q[0 + j] = 0
    <3>1. 0 \in Nat
      OBVIOUS
    <3>. QED BY <1>1, <1>3, <3>1, Copied, Zenon
  <2>2. 0 + Len(s) = Len(s) /\ \A j \in 1 .. Len(s) : 0 + j = j /\ j <= MemorySize
    BY <1>1, <1>2
  <2>3. \A j \in 1 .. Len(s) : \A i \in 1 .. j : i \in 1 .. Len(s)
    BY <1>1
  <2>. QED BY <1>1, <2>1, <2>2, <2>3
<1>5. /\ r \in Memory
      /\ \A j \in 1 .. MemorySize : j <= at \/ j > at + Len(t) => r[j] = q[j]
      /\ \A j \in 1 .. Len(t) : r[at + j] = t[j]
  <2>1. /\ r \in Memory
        /\ \A j \in 1 .. MemorySize : j <= at \/ j > at + Len(t) => r[j] = q[j]
        /\ \A j \in 1 .. Len(t) : at + j <= MemorySize =>
             /\ (\A i \in 1 .. j : t[i] # 0) => r[at + j] = t[j]
             /\ t[j] = 0 => r[at + j] = 0
    <3>1. at \in Nat
      BY <1>2
    <3>2. r = StrNCpy(q, at, t)
      BY <1>3
    <3>3. q \in Memory /\ t \in Seq(Int)
      BY <1>1, <1>4
    <3>4. LET u == StrNCpy(q, at, t)
          IN  /\ u \in Memory
              /\ \A j \in 1 .. MemorySize : j <= at \/ j > at + Len(t) => u[j] = q[j]
              /\ \A j \in 1 .. Len(t) : at + j <= MemorySize =>
                   /\ (\A i \in 1 .. j : t[i] # 0) => u[at + j] = t[j]
                   /\ t[j] = 0 => u[at + j] = 0
      BY <3>1, <3>3, Copied, Zenon
    <3>. QED BY <3>2, <3>4, Zenon
  <2>2. \A j \in 1 .. Len(t) : at + j <= MemorySize
    BY <1>1, <1>2
  <2>3. \A j \in 1 .. Len(t) : \A i \in 1 .. j : i \in 1 .. Len(t)
    BY <1>1
  <2>. QED BY <1>1, <2>1, <2>2, <2>3
<1>6. \A j \in 1 .. Len(s) : r[0 + j] = s[j]
  <2>1. \A j \in 1 .. Len(s) : 0 + j = j /\ j \in 1 .. MemorySize /\ j <= at
    BY <1>1, <1>2
  <2>. QED BY <1>4, <1>5, <2>1
<1>7. r[0 + Len(s) + 1] = mem[Len(s) + 1]
  <2>1. /\ 0 + Len(s) + 1 = Len(s) + 1 /\ Len(s) + 1 \in 1 .. MemorySize
        /\ Len(s) + 1 <= at /\ Len(s) + 1 > Len(s)
    BY <1>1, <1>2
  <2>. QED BY <1>4, <1>5, <2>1
<1>8. r[at + Len(t) + 1] = mem[at + Len(t) + 1]
  <2>1. /\ at + Len(t) + 1 \in 1 .. MemorySize
        /\ at + Len(t) + 1 > at + Len(t) /\ at + Len(t) + 1 > Len(s)
    BY <1>1, <1>2
  <2>. QED BY <1>4, <1>5, <2>1
<1>9. 0 + Len(s) < MemorySize /\ at + Len(t) < MemorySize
  BY <1>1, <1>2
<1>10. StartsWith(StringIn(r, 0), s) /\ (mem[Len(s) + 1] = 0 => StringIn(r, 0) = s)
  <2>1. 0 \in Nat
    OBVIOUS
  <2>2. s \in Seq(Letters) /\ r \in Memory
    BY <1>1, <1>5
  <2>3. /\ StartsWith(StringIn(r, 0), s)
        /\ r[0 + Len(s) + 1] = 0 => StringIn(r, 0) = s
    BY <1>6, <1>9, <2>1, <2>2, TextInMemory
  <2>. QED BY <1>7, <2>3
<1>11. StartsWith(StringIn(r, at), t) /\ (mem[at + Len(t) + 1] = 0 => StringIn(r, at) = t)
  <2>1. at \in Nat
    BY <1>2
  <2>. QED BY <1>1, <1>5, <1>8, <1>9, <2>1, TextInMemory
<1>. QED BY <1>10, <1>11

(* In cleared memory both are read as they were copied.                    *)
LEMMA TwoTextsCleared ==
  ASSUME NEW s \in Text, NEW t \in Text,
         NEW r, r = StrNCpy(StrNCpy(Cleared, 0, s), MAX_SIZE, t)
  PROVE  StringIn(r, 0) = s /\ StringIn(r, MAX_SIZE) = t
<1>1. Cleared \in Memory /\ \A j \in 1 .. MemorySize : Cleared[j] = 0
  BY MemoriesInMemory
<1>2. /\ Len(s) \in Nat /\ Len(s) < 30 /\ Len(t) \in Nat /\ Len(t) < 30
      /\ MemorySize \in Nat /\ MemorySize > 127
  BY <1>1, TextBytes, MemoryBytes DEF Text, MAX_SIZE
<1>3. /\ Len(s) < MAX_SIZE /\ Len(s) + 1 \in 1 .. MemorySize
      /\ MAX_SIZE + Len(t) + 1 \in 1 .. MemorySize
  BY <1>2 DEF MAX_SIZE
<1>. QED BY <1>1, <1>3, TwoTexts

LEMMA OneTextCleared ==
  ASSUME NEW s \in Text
  PROVE  StringIn(StrNCpy(Cleared, 0, s), 0) = s
<1>1. Cleared \in Memory /\ \A j \in 1 .. MemorySize : Cleared[j] = 0
  BY MemoriesInMemory
<1>2. /\ Len(s) \in Nat /\ Len(s) < 30 /\ MemorySize \in Nat /\ MemorySize > 127
      /\ s \in Seq(Int) /\ s \in Seq(Letters) /\ \A j \in 1 .. Len(s) : s[j] # 0
  <2>1. s \in Seq(Letters) /\ Len(s) < 30
    BY DEF Text, MAX_SIZE
  <2>. QED BY <1>1, <2>1, LettersSeq, MemoryBytes
<1>3. PICK r : r = StrNCpy(Cleared, 0, s)
  OBVIOUS
<1>4. /\ r \in Memory
      /\ \A j \in 1 .. MemorySize : j <= 0 \/ j > 0 + Len(s) => r[j] = 0
      /\ \A j \in 1 .. Len(s) : 0 + j <= MemorySize =>
           /\ (\A i \in 1 .. j : s[i] # 0) => r[0 + j] = s[j]
           /\ s[j] = 0 => r[0 + j] = 0
  <2>1. 0 \in Nat
    OBVIOUS
  <2>2. /\ r \in Memory
        /\ \A j \in 1 .. MemorySize : j <= 0 \/ j > 0 + Len(s) => r[j] = Cleared[j]
        /\ \A j \in 1 .. Len(s) : 0 + j <= MemorySize =>
             /\ (\A i \in 1 .. j : s[i] # 0) => r[0 + j] = s[j]
             /\ s[j] = 0 => r[0 + j] = 0
    BY <1>1, <1>2, <1>3, <2>1, Copied, Zenon
  <2>. QED BY <1>1, <2>2
<1>5. \A j \in 1 .. Len(s) : r[0 + j] = s[j]
  <2>1. \A j \in 1 .. Len(s) : 0 + j <= MemorySize
    BY <1>2
  <2>2. \A j \in 1 .. Len(s) : \A i \in 1 .. j : i \in 1 .. Len(s)
    BY <1>2
  <2>. QED BY <1>2, <1>4, <2>1, <2>2
<1>6. r[0 + Len(s) + 1] = 0 /\ 0 + Len(s) < MemorySize
  <2>1. 0 + Len(s) + 1 \in 1 .. MemorySize /\ 0 + Len(s) + 1 > 0 + Len(s) /\ 0 + Len(s) < MemorySize
    BY <1>2
  <2>. QED BY <1>4, <2>1
<1>. QED BY <1>2, <1>3, <1>4, <1>5, <1>6, TextInMemory, 0 \in Nat

-----------------------------------------------------------------------------
(* Packets, as a header followed by counted strings.                       *)

LEMMA CountedReadBack ==
  ASSUME NEW h \in Seq(Int), NEW s \in Text
  PROVE  /\ h \o Counted(s) \in Seq(Int)
         /\ Len(h \o Counted(s)) = Len(h) + Len(s) + 1
         /\ \A b : BeginsWith(b, h \o Counted(s)) =>
              /\ BeginsWith(b, h)
              /\ BytesAt(b, Len(h) + 1) = s
              /\ After(b, Len(h) + 1) = Len(h) + Len(s) + 2
<1>. DEFINE p == h \o Counted(s)
<1>1. /\ Len(h) \in Nat /\ Len(s) \in Nat
      /\ Counted(s) \in Seq(Int) /\ Len(Counted(s)) = Len(s) + 1
  BY TextBytes, CountedBytes, LenProperties
<1>2. /\ p \in Seq(Int) /\ Len(p) = Len(h) + Len(Counted(s))
      /\ \A j \in 1 .. Len(h) + Len(Counted(s)) :
           p[j] = IF j <= Len(h) THEN h[j] ELSE Counted(s)[j - Len(h)]
  BY <1>1, ConcatProperties
<1>3. Len(p) = Len(h) + Len(s) + 1
  BY <1>1, <1>2
<1>4. ASSUME NEW b, BeginsWith(b, p)
      PROVE  /\ BeginsWith(b, h)
             /\ BytesAt(b, Len(h) + 1) = s
             /\ After(b, Len(h) + 1) = Len(h) + Len(s) + 2
  <2>1. \A j \in 1 .. Len(h) + (Len(s) + 1) :
          b[j] = IF j <= Len(h) THEN h[j] ELSE Counted(s)[j - Len(h)]
    BY <1>1, <1>2, <1>4 DEF BeginsWith
  <2>2. BeginsWith(b, h)
    <3>1. \A j \in 1 .. Len(h) : j \in 1 .. Len(h) + (Len(s) + 1) /\ j <= Len(h)
      BY <1>1
    <3>. QED BY <2>1, <3>1 DEF BeginsWith
  <2>3. \A j \in 1 .. Len(s) + 1 : b[Len(h) + j] = Counted(s)[j]
    <3>1. \A j \in 1 .. Len(s) + 1 :
            /\ Len(h) + j \in 1 .. Len(h) + (Len(s) + 1)
            /\ ~(Len(h) + j <= Len(h)) /\ Len(h) + j - Len(h) = j
      BY <1>1
    <3>. QED BY <2>1, <3>1
  <2>4. b[Len(h) + 1] = Len(s)
    BY <1>1, <2>3, CountedBytes
  <2>5. \A j \in 1 .. Len(s) : b[Len(h) + 1 + j] = s[j]
    <3>1. \A j \in 1 .. Len(s) : j + 1 \in 1 .. Len(s) + 1 /\ Len(h) + (j + 1) = Len(h) + 1 + j
      BY <1>1
    <3>. QED BY <2>3, <3>1, CountedBytes
  <2>6. Len(h) + 1 \in Nat /\ Len(h) + 1 + Len(s) + 1 = Len(h) + Len(s) + 2
    BY <1>1
  <2>7. /\ BytesAt(b, Len(h) + 1) = s
        /\ After(b, Len(h) + 1) = Len(h) + 1 + Len(s) + 1
    <3>1. Len(h) + 1 \in Nat
      BY <1>1
    <3>. QED BY <2>4, <2>5, <3>1, StringReadBack, Zenon
  <2>. QED BY <2>2, <2>6, <2>7, Zenon
<1>. QED BY <1>2, <1>3, <1>4

LEMMA Headers ==
  ASSUME NEW x \in Int, NEW y \in Int, NEW z \in Int
  PROVE  /\ <<x, y>> \in Seq(Int) /\ Len(<<x, y>>) = 2
         /\ <<x, y, 1, z>> \in Seq(Int) /\ Len(<<x, y, 1, z>>) = 4
         /\ \A b : BeginsWith(b, <<x, y>>) => b[1] = x
         /\ \A b : BeginsWith(b, <<x, y, 1, z>>) => b[1] = x /\ b[4] = z
<1>1. <<x, y>> \in Seq(Int) /\ Len(<<x, y>>) = 2
  OBVIOUS
<1>2. <<x, y, 1, z>> \in Seq(Int) /\ Len(<<x, y, 1, z>>) = 4
  OBVIOUS
<1>3. 1 \in 1 .. 2 /\ 1 \in 1 .. 4 /\ 4 \in 1 .. 4
  OBVIOUS
<1>4. <<x, y>>[1] = x /\ <<x, y, 1, z>>[1] = x /\ <<x, y, 1, z>>[4] = z
  OBVIOUS
<1>. QED BY <1>1, <1>2, <1>3, <1>4, Zenon DEF BeginsWith

LEMMA TwoReadBack ==
  ASSUME NEW m, TagByte[m.m_tag] \in Int, NEW s \in Text, NEW t \in Text
  PROVE  /\ PackTwo(m, s, t) \in Seq(Int) /\ Len(PackTwo(m, s, t)) \in Nat \ {0}
         /\ \A b : BeginsWith(b, PackTwo(m, s, t)) =>
              /\ b[1] = TagByte[m.m_tag]
              /\ BytesAt(b, 3) = s /\ BytesAt(b, After(b, 3)) = t
<1>. DEFINE h == <<TagByte[m.m_tag], Byte(Len(s) + Len(t) + 4)>>
            g == h \o Counted(s)
<1>1. Len(s) \in Nat /\ Len(t) \in Nat
  BY TextBytes
<1>2. Byte(Len(s) + Len(t) + 4) \in Int
  BY <1>1 DEF Byte
<1>3. h \in Seq(Int) /\ Len(h) = 2 /\ \A b : BeginsWith(b, h) => b[1] = TagByte[m.m_tag]
  BY <1>2, Headers, 0 \in Int
<1>. HIDE DEF h
<1>4. /\ g \in Seq(Int) /\ Len(g) = 2 + Len(s) + 1
      /\ \A b : BeginsWith(b, g) =>
           BeginsWith(b, h) /\ BytesAt(b, 2 + 1) = s /\ After(b, 2 + 1) = 2 + Len(s) + 2
  <2>1. /\ g \in Seq(Int) /\ Len(g) = Len(h) + Len(s) + 1
        /\ \A b : BeginsWith(b, g) =>
             /\ BeginsWith(b, h) /\ BytesAt(b, Len(h) + 1) = s
             /\ After(b, Len(h) + 1) = Len(h) + Len(s) + 2
    BY <1>3, CountedReadBack, Zenon
  <2>. HIDE DEF g
  <2>. QED BY <1>3, <2>1, Zenon
<1>. HIDE DEF g
<1>5. /\ g \o Counted(t) \in Seq(Int) /\ Len(g \o Counted(t)) = Len(g) + Len(t) + 1
      /\ \A b : BeginsWith(b, g \o Counted(t)) =>
           BeginsWith(b, g) /\ BytesAt(b, Len(g) + 1) = t
  BY <1>4, CountedReadBack, Zenon
<1>6. PackTwo(m, s, t) = g \o Counted(t)
  BY DEF PackTwo, g, h
<1>7. 2 + 1 = 3 /\ Len(g) + 1 = 2 + Len(s) + 2 /\ Len(g) + Len(t) + 1 \in Nat \ {0}
  BY <1>1, <1>4
<1>. QED BY <1>3, <1>4, <1>5, <1>6, <1>7

-----------------------------------------------------------------------------
(* Tags.                                                                   *)

LEMMA TagReadBack ==
  /\ \A tag \in DOMAIN TagByte : TagOf(TagByte[tag]) = tag
  /\ \A tag \in DOMAIN TagByte : TagByte[tag] \in 1 .. 14
<1>1. \A t1, t2 \in DOMAIN TagByte : TagByte[t1] = TagByte[t2] => t1 = t2
  BY DEF TagByte
<1>2. \A tag \in DOMAIN TagByte : TagByte[tag] \in 1 .. 14
  BY DEF TagByte
<1>. QED BY <1>1, <1>2 DEF TagOf

(* Letters and NUL are no tags.                                            *)
LEMMA NoTag ==
  ASSUME NEW n, n = 0 \/ n \in 15 .. 127
  PROVE  TagOf(n) = "NO_CASE"
BY TagReadBack DEF TagOf

-----------------------------------------------------------------------------
(* Messages: each is unpacked as it was packed from whatever begins with   *)
(* its packet.                                                             *)

GoodPacket(p, memories, result) ==
  /\ p \in Seq(Int) /\ Len(p) \in Nat \ {0}
  /\ \A b : BeginsWith(b, p) => \A mem \in memories : ProtocolUnpack(mem, b) = result

LEMMA RegisterOrLoginGood ==
  ASSUME NEW m \in RegisterOrLoginRequest
  PROVE  GoodPacket(ProtocolPack(m), {Cleared}, m)
<1>1. /\ m.m_tag \in {"REGISTER_REQUEST", "LOGIN_REQUEST"}
      /\ m.m_username \in Text /\ m.m_password \in Text
      /\ m = [m_tag |-> m.m_tag, m_username |-> m.m_username, m_password |-> m.m_password]
  BY NamesAreText DEF RegisterOrLoginRequest
<1>2. m.m_tag \in DOMAIN TagByte
  BY <1>1 DEF TagByte
<1>3. TagByte[m.m_tag] \in Int
  BY <1>2, TagReadBack
<1>4. ProtocolPack(m) = PackTwo(m, m.m_username, m.m_password)
  BY <1>1 DEF ProtocolPack, RegisterOrLoginRequest, GrpReqStruct, LogOutOrSeeGroupsReq,
              Misread, Reply, GroupCreateReply, SeeAllGroupsReply
<1>5. ASSUME NEW b, b[1] = TagByte[m.m_tag], BytesAt(b, 3) = m.m_username,
             BytesAt(b, After(b, 3)) = m.m_password
      PROVE  ProtocolUnpack(Cleared, b) = m
  <2>1. TagOf(b[1]) = m.m_tag
    BY <1>2, <1>5, TagReadBack
  <2>2. LET struct == UnpackTwo(Cleared, MAX_SIZE, b, 3)
        IN  StringIn(struct, 0) = m.m_username /\ StringIn(struct, MAX_SIZE) = m.m_password
    BY <1>1, <1>5, TwoTextsCleared DEF UnpackTwo
  <2>. QED BY <1>1, <2>1, <2>2 DEF ProtocolUnpack, UnpackRegisterOrLoginRequest
<1>6. LET p == PackTwo(m, m.m_username, m.m_password)
      IN  /\ p \in Seq(Int) /\ Len(p) \in Nat \ {0}
          /\ \A b : BeginsWith(b, p) =>
               /\ b[1] = TagByte[m.m_tag] /\ BytesAt(b, 3) = m.m_username
               /\ BytesAt(b, After(b, 3)) = m.m_password
  BY <1>1, <1>3, TwoReadBack
<1>. QED BY <1>4, <1>5, <1>6, Zenon DEF GoodPacket

LEMMA GrpReqGood ==
  ASSUME NEW m \in GrpReqStruct
  PROVE  GoodPacket(ProtocolPack(m), {Cleared}, m)
<1>1. /\ m.m_tag \in {"GROUP_CREATE_REQUEST", "GROUP_JOIN_REQUEST", "GROUP_LEAVE_REQUEST"}
      /\ m.m_username \in Text /\ m.m_groupName \in Text
      /\ m = [m_tag |-> m.m_tag, m_username |-> m.m_username, m_groupName |-> m.m_groupName]
  BY NamesAreText DEF GrpReqStruct
<1>2. m.m_tag \in DOMAIN TagByte
  BY <1>1 DEF TagByte
<1>3. TagByte[m.m_tag] \in Int
  BY <1>2, TagReadBack
<1>4. ProtocolPack(m) = PackTwo(m, m.m_username, m.m_groupName)
  BY <1>1 DEF ProtocolPack, RegisterOrLoginRequest, GrpReqStruct, LogOutOrSeeGroupsReq,
              Misread, Reply, GroupCreateReply, SeeAllGroupsReply
<1>5. ASSUME NEW b, b[1] = TagByte[m.m_tag], BytesAt(b, 3) = m.m_username,
             BytesAt(b, After(b, 3)) = m.m_groupName
      PROVE  ProtocolUnpack(Cleared, b) = m
  <2>1. TagOf(b[1]) = m.m_tag
    BY <1>2, <1>5, TagReadBack
  <2>2. LET struct == UnpackTwo(Cleared, MAX_SIZE, b, 3)
        IN  StringIn(struct, 0) = m.m_username /\ StringIn(struct, MAX_SIZE) = m.m_groupName
    BY <1>1, <1>5, TwoTextsCleared DEF UnpackTwo
  <2>. QED BY <1>1, <2>1, <2>2 DEF ProtocolUnpack, UnpackGrpReq
<1>6. LET p == PackTwo(m, m.m_username, m.m_groupName)
      IN  /\ p \in Seq(Int) /\ Len(p) \in Nat \ {0}
          /\ \A b : BeginsWith(b, p) =>
               /\ b[1] = TagByte[m.m_tag] /\ BytesAt(b, 3) = m.m_username
               /\ BytesAt(b, After(b, 3)) = m.m_groupName
  BY <1>1, <1>3, TwoReadBack
<1>. QED BY <1>4, <1>5, <1>6, Zenon DEF GoodPacket

(* The header and one string of a LOGOUT or GROUP_ALL_AVAILABLE packet,    *)
(* whatever byte the tag is.                                               *)
LEMMA OneReadBack ==
  ASSUME NEW x \in Int, NEW s \in Text
  PROVE  LET p == <<x, Byte(Len(s) + 3)>> \o Counted(s)
         IN  /\ p \in Seq(Int) /\ Len(p) \in Nat \ {0}
             /\ \A b : BeginsWith(b, p) => b[1] = x /\ BytesAt(b, 3) = s
<1>. DEFINE h == <<x, Byte(Len(s) + 3)>>
            p == h \o Counted(s)
<1>1. Len(s) \in Nat /\ Byte(Len(s) + 3) \in Int
  BY TextBytes DEF Byte
<1>2. h \in Seq(Int) /\ Len(h) = 2 /\ \A b : BeginsWith(b, h) => b[1] = x
  BY <1>1, Headers, 0 \in Int
<1>. HIDE DEF h
<1>3. /\ p \in Seq(Int) /\ Len(p) = Len(h) + Len(s) + 1
      /\ \A b : BeginsWith(b, p) => BeginsWith(b, h) /\ BytesAt(b, Len(h) + 1) = s
  BY <1>2, CountedReadBack, Zenon
<1>. HIDE DEF p
<1>4. Len(h) + 1 = 3 /\ Len(p) \in Nat \ {0}
  BY <1>1, <1>2, <1>3
<1>5. /\ p \in Seq(Int) /\ Len(p) \in Nat \ {0}
      /\ \A b : BeginsWith(b, p) => b[1] = x /\ BytesAt(b, 3) = s
  BY <1>2, <1>3, <1>4, Zenon
<1>. QED BY <1>5 DEF p, h

LEMMA LogOutOrSeeGood ==
  ASSUME NEW m \in LogOutOrSeeGroupsReq
  PROVE  GoodPacket(ProtocolPack(m), {Cleared}, m)
<1>1. /\ m.m_tag \in {"LOGOUT_REQUEST", "GROUP_ALL_AVAILABLE_REQUEST"}
      /\ m.m_username \in Text
      /\ m = [m_tag |-> m.m_tag, m_username |-> m.m_username]
  BY NamesAreText DEF LogOutOrSeeGroupsReq
<1>2. m.m_tag \in DOMAIN TagByte
  BY <1>1 DEF TagByte
<1>3. TagByte[m.m_tag] \in Int
  BY <1>2, TagReadBack
<1>4. ProtocolPack(m) = PackLogOutOrSeeGroupsRequest(m)
  BY <1>1 DEF ProtocolPack, RegisterOrLoginRequest, GrpReqStruct, LogOutOrSeeGroupsReq,
              Misread, Reply, GroupCreateReply, SeeAllGroupsReply
<1>5. ASSUME NEW b, b[1] = TagByte[m.m_tag], BytesAt(b, 3) = m.m_username
      PROVE  ProtocolUnpack(Cleared, b) = m
  <2>1. TagOf(b[1]) = m.m_tag
    BY <1>2, <1>5, TagReadBack
  <2>2. StringIn(StrNCpy(Cleared, 0, BytesAt(b, 3)), 0) = m.m_username
    BY <1>1, <1>5, OneTextCleared
  <2>. QED BY <1>1, <2>1, <2>2 DEF ProtocolUnpack, UnpackLogOutOrSeeGroupsRequest
<1>6. LET p == <<TagByte[m.m_tag], Byte(Len(m.m_username) + 3)>> \o Counted(m.m_username)
      IN  /\ p \in Seq(Int) /\ Len(p) \in Nat \ {0}
          /\ \A b : BeginsWith(b, p) => b[1] = TagByte[m.m_tag] /\ BytesAt(b, 3) = m.m_username
  BY <1>1, <1>3, OneReadBack, Zenon
<1>. QED BY <1>4, <1>5, <1>6, Zenon DEF GoodPacket, PackLogOutOrSeeGroupsRequest

LEMMA MisreadGood ==
  ASSUME NEW m \in Misread
  PROVE  GoodPacket(ProtocolPack(m), {Cleared}, NotUnpacked)
<1>. DEFINE x == IF Len(m.m_groupName) < 3 THEN 0 ELSE m.m_groupName[3]
<1>1. m.m_username \in Text /\ m.m_groupName \in Text
  BY NamesAreText DEF Misread
<1>2. x = 0 \/ x \in 15 .. 127
  <2>1. CASE Len(m.m_groupName) < 3
    BY <2>1
  <2>2. CASE ~(Len(m.m_groupName) < 3)
    <3>1. Len(m.m_groupName) \in 0 .. 29
      BY <1>1, TextBytes, Zenon
    <3>2. 3 \in 1 .. Len(m.m_groupName)
      BY <2>2, <3>1
    <3>3. m.m_groupName[3] \in 15 .. 127
      BY <1>1, <3>2, TextBytes, Zenon
    <3>. QED BY <2>2, <3>3
  <2>. QED BY <2>1, <2>2
<1>3. x \in Int
  <2>. HIDE DEF x
  <2>. QED BY <1>2
<1>4. ProtocolPack(m) = PackMisread(m)
  BY DEF ProtocolPack, RegisterOrLoginRequest, GrpReqStruct, LogOutOrSeeGroupsReq,
              Misread, Reply, GroupCreateReply, SeeAllGroupsReply
<1>. HIDE DEF x
<1>5. ASSUME NEW b, b[1] = x
      PROVE  ProtocolUnpack(Cleared, b) = NotUnpacked
  <2>1. TagOf(b[1]) = "NO_CASE"
    BY <1>2, <1>5, NoTag
  <2>. QED BY <2>1 DEF ProtocolUnpack
<1>6. LET p == <<x, Byte(Len(m.m_username) + 3)>> \o Counted(m.m_username)
      IN  /\ p \in Seq(Int) /\ Len(p) \in Nat \ {0}
          /\ \A b : BeginsWith(b, p) => b[1] = x
  BY <1>1, <1>3, OneReadBack, Zenon
<1>7. PackMisread(m) = <<x, Byte(Len(m.m_username) + 3)>> \o Counted(m.m_username)
  BY DEF PackMisread, x
<1>8. \A b : BeginsWith(b, PackMisread(m)) =>
        \A mem \in {Cleared} : ProtocolUnpack(mem, b) = NotUnpacked
  BY <1>5, <1>6, <1>7
<1>. QED BY <1>4, <1>6, <1>7, <1>8, Zenon DEF GoodPacket

LEMMA ReplyGood ==
  ASSUME NEW m \in Reply
  PROVE  GoodPacket(ProtocolPack(m), Leftover, m)
<1>1. /\ m.m_tag \in {"REGISTER_REPLY", "LOGIN_REPLY", "LOGOUT_REPLY", "GROUP_LEAVE_REPLY"}
      /\ m.m_reply \in Int
      /\ m = [m_tag |-> m.m_tag, m_reply |-> m.m_reply]
  BY DEF Reply
<1>2. m.m_tag \in DOMAIN TagByte
  BY <1>1 DEF TagByte
<1>3. TagByte[m.m_tag] \in Int
  BY <1>2, TagReadBack
<1>4. ProtocolPack(m) = PackReply(m)
  BY <1>1 DEF ProtocolPack, RegisterOrLoginRequest, GrpReqStruct, LogOutOrSeeGroupsReq,
              Misread, Reply, GroupCreateReply, SeeAllGroupsReply
<1>5. ASSUME NEW b, NEW mem, b[1] = TagByte[m.m_tag], b[4] = m.m_reply
      PROVE  ProtocolUnpack(mem, b) = m
  <2>1. TagOf(b[1]) = m.m_tag
    BY <1>2, <1>5, TagReadBack
  <2>. QED BY <1>1, <1>5, <2>1 DEF ProtocolUnpack, UnpackReply
<1>6. LET p == <<TagByte[m.m_tag], 4, 1, m.m_reply>>
      IN  /\ p \in Seq(Int) /\ Len(p) = 4
          /\ \A b : BeginsWith(b, p) => b[1] = TagByte[m.m_tag] /\ b[4] = m.m_reply
  <2>1. TagByte[m.m_tag] \in Int /\ 4 \in Int /\ m.m_reply \in Int
    BY <1>1, <1>3
  <2>. QED BY <2>1, Headers, Zenon
<1>7. 4 \in Nat \ {0}
  OBVIOUS
<1>. QED BY <1>4, <1>5, <1>6, <1>7, Zenon DEF GoodPacket, PackReply

LEMMA GroupCreateReplyGood ==
  ASSUME NEW m \in GroupCreateReply
  PROVE  /\ ProtocolPack(m) \in Seq(Int) /\ Len(ProtocolPack(m)) \in Nat \ {0}
         /\ \A b : BeginsWith(b, ProtocolPack(m)) =>
              \A mem \in Leftover : IsUnpacked(m, mem, ProtocolUnpack(mem, b))
<1>. DEFINE x == TagByte[m.m_tag]
            y == Byte(6 + Len(m.m_ip) + Len(m.m_port))
            h == <<x, y, 1, m.m_reply>>
            g == h \o Counted(m.m_ip)
            p == g \o Counted(m.m_port)
<1>1. /\ m.m_tag \in {"GROUP_CREATE_REPLY", "GROUP_JOIN_REPLY"}
      /\ m.m_reply \in Int /\ m.m_ip \in Text /\ m.m_port \in Text
      /\ Len(m.m_ip) < IpSize /\ m \notin Misread
  <2>1. /\ m.m_tag \in {"GROUP_CREATE_REPLY", "GROUP_JOIN_REPLY"}
        /\ m.m_reply \in {0, 1}
        /\ m.m_ip \in Ip \cup {NoIp} /\ m.m_port \in {Port, NoPort}
        /\ DOMAIN m = {"m_tag", "m_reply", "m_ip", "m_port"}
    BY DEF GroupCreateReply
  <2>2. m \notin Misread
    BY <2>1 DEF Misread
  <2>. QED BY <2>1, <2>2, NamesAreText
<1>2. m.m_tag \in DOMAIN TagByte
  BY <1>1 DEF TagByte
<1>3. x \in Int
  BY <1>2, TagReadBack
<1>4. Len(m.m_ip) \in Nat /\ Len(m.m_port) \in Nat
  BY <1>1, TextBytes
<1>5. y \in Int
  BY <1>4 DEF Byte
<1>6. ProtocolPack(m) = p
  <2>1. ProtocolPack(m) = PackGroupCreateReply(m)
    BY <1>1 DEF ProtocolPack, RegisterOrLoginRequest, GrpReqStruct, LogOutOrSeeGroupsReq,
              Misread, Reply, GroupCreateReply, SeeAllGroupsReply
  <2>. QED BY <2>1 DEF PackGroupCreateReply
<1>7. ASSUME NEW b, NEW mem \in Leftover, b[1] = x, b[4] = m.m_reply,
             BytesAt(b, 5) = m.m_ip, BytesAt(b, After(b, 5)) = m.m_port
      PROVE  IsUnpacked(m, mem, ProtocolUnpack(mem, b))
  <2>1. TagOf(b[1]) = m.m_tag
    BY <1>2, <1>7, TagReadBack
  <2>2. PICK r : r = UnpackTwo(mem, IpSize, b, 5)
    OBVIOUS
  <2>3. r = StrNCpy(StrNCpy(mem, 0, m.m_ip), IpSize, m.m_port)
    BY <1>7, <2>2 DEF UnpackTwo
  <2>4. /\ StartsWith(StringIn(r, 0), m.m_ip) /\ StartsWith(StringIn(r, IpSize), m.m_port)
        /\ mem[Len(m.m_ip) + 1] = 0 => StringIn(r, 0) = m.m_ip
        /\ mem[IpSize + Len(m.m_port) + 1] = 0 => StringIn(r, IpSize) = m.m_port
    BY <1>1, <2>3, TwoTexts, MemoriesInMemory
  <2>5. ProtocolUnpack(mem, b) = [m_tag |-> m.m_tag, m_reply |-> m.m_reply,
                                  m_ip |-> StringIn(r, 0), m_port |-> StringIn(r, IpSize)]
    BY <1>1, <1>7, <2>1, <2>2 DEF ProtocolUnpack, UnpackGroupCreateReply
  <2>. QED BY <1>1, <2>4, <2>5 DEF IsUnpacked
<1>. HIDE DEF x, y
<1>8. /\ h \in Seq(Int) /\ Len(h) = 4
      /\ \A b : BeginsWith(b, h) => b[1] = x /\ b[4] = m.m_reply
  <2>1. m.m_reply \in Int
    BY <1>1
  <2>. QED BY <1>3, <1>5, <2>1, Headers, Zenon
<1>. HIDE DEF h
<1>9. /\ g \in Seq(Int) /\ Len(g) = Len(h) + Len(m.m_ip) + 1
      /\ \A b : BeginsWith(b, g) =>
           /\ BeginsWith(b, h) /\ BytesAt(b, Len(h) + 1) = m.m_ip
           /\ After(b, Len(h) + 1) = Len(h) + Len(m.m_ip) + 2
  <2>1. m.m_ip \in Text /\ h \in Seq(Int)
    BY <1>1, <1>8, Zenon
  <2>. QED BY <2>1, CountedReadBack, Zenon
<1>. HIDE DEF g
<1>10. /\ p \in Seq(Int) /\ Len(p) = Len(g) + Len(m.m_port) + 1
       /\ \A b : BeginsWith(b, p) => BeginsWith(b, g) /\ BytesAt(b, Len(g) + 1) = m.m_port
  <2>1. g \in Seq(Int) /\ m.m_port \in Text
    BY <1>1, <1>9
  <2>2. /\ g \o Counted(m.m_port) \in Seq(Int)
        /\ Len(g \o Counted(m.m_port)) = Len(g) + Len(m.m_port) + 1
        /\ \A b : BeginsWith(b, g \o Counted(m.m_port)) =>
             BeginsWith(b, g) /\ BytesAt(b, Len(g) + 1) = m.m_port
    BY <2>1, CountedReadBack, Zenon
  <2>. QED BY <2>2
<1>. HIDE DEF p
<1>11. /\ Len(h) + 1 = 5 /\ Len(g) + 1 = Len(h) + Len(m.m_ip) + 2
       /\ Len(p) \in Nat \ {0}
  <2>1. Len(h) = 4 /\ Len(g) = 4 + Len(m.m_ip) + 1
    BY <1>8, <1>9, Zenon
  <2>2. Len(p) = Len(g) + Len(m.m_port) + 1
    BY <1>10
  <2>3. \A k, n \in Nat : /\ 4 + 1 = 5 /\ (4 + k + 1) + 1 = 4 + k + 2
                        /\ (4 + k + 1) + n + 1 \in Nat \ {0}
    OBVIOUS
  <2>. QED BY <1>4, <2>1, <2>2, <2>3, Zenon
<1>12. ASSUME NEW b, BeginsWith(b, p), NEW mem \in Leftover
       PROVE  IsUnpacked(m, mem, ProtocolUnpack(mem, b))
  <2>1. BeginsWith(b, g) /\ BytesAt(b, Len(g) + 1) = m.m_port
    BY <1>10, <1>12, Zenon
  <2>2. BeginsWith(b, h) /\ BytesAt(b, 5) = m.m_ip /\ After(b, 5) = Len(g) + 1
    BY <1>9, <1>11, <2>1, Zenon
  <2>3. b[1] = x /\ b[4] = m.m_reply
    BY <1>8, <2>2, Zenon
  <2>. QED BY <1>7, <2>1, <2>2, <2>3, Zenon
<1>. QED BY <1>6, <1>10, <1>11, <1>12, Zenon

(* Of a packet with a group list only that it consists of bytes.           *)
LEMMA SeeAllGroupsReplyBytes ==
  ASSUME NEW m \in SeeAllGroupsReply
  PROVE  ProtocolPack(m) \in Seq(Int) /\ Len(ProtocolPack(m)) \in Nat \ {0}
<1>. DEFINE x == TagByte[m.m_tag]
            y == Byte(4 + Len(m.m_allGroupNames))
            h == <<x, y, 1, m.m_reply>>
<1>1. m.m_tag = "GROUP_ALL_AVAILABLE_REPLY" /\ m.m_reply \in Int
  BY DEF SeeAllGroupsReply
<1>2. m.m_allGroupNames \in Seq(Int) /\ Len(m.m_allGroupNames) \in Nat
  <2>1. m.m_allGroupNames \in Seq(15 .. 127)
    BY ProtocolAssumption DEF SeeAllGroupsReply
  <2>2. 15 .. 127 \subseteq Int
    OBVIOUS
  <2>. QED BY <2>1, <2>2, SeqMonotonic, LenProperties
<1>3. x \in Int
  BY <1>1 DEF TagByte
<1>4. y \in Int
  BY <1>2 DEF Byte
<1>5. ProtocolPack(m) = h \o m.m_allGroupNames
  <2>1. ProtocolPack(m) = PackSeeAllGroupsReply(m)
    BY <1>1 DEF ProtocolPack, RegisterOrLoginRequest, GrpReqStruct, LogOutOrSeeGroupsReq,
              Misread, Reply, GroupCreateReply, SeeAllGroupsReply
  <2>. QED BY <2>1 DEF PackSeeAllGroupsReply
<1>. HIDE DEF x, y
<1>6. h \in Seq(Int) /\ Len(h) = 4
  BY <1>1, <1>3, <1>4, Headers
<1>. HIDE DEF h
<1>7. /\ h \o m.m_allGroupNames \in Seq(Int)
      /\ Len(h \o m.m_allGroupNames) = Len(h) + Len(m.m_allGroupNames)
  BY <1>2, <1>6, ConcatProperties
<1>8. Len(h) + Len(m.m_allGroupNames) \in Nat \ {0}
  BY <1>2, <1>6
<1>. QED BY <1>5, <1>7, <1>8

(* The memory that a message is unpacked into.                             *)
Memories(m) == IF m \in Request THEN {Cleared} ELSE Leftover

LEMMA KindsAreDisjoint ==
  /\ \A m \in RegisterOrLoginRequest \cup GrpReqStruct \cup LogOutOrSeeGroupsReq \cup Reply :
       m \notin Misread /\ m \notin GroupCreateReply
  /\ \A m \in Reply \cup GroupCreateReply \cup SeeAllGroupsReply : m \notin Request
<1>1. \A m \in RegisterOrLoginRequest \cup GrpReqStruct \cup LogOutOrSeeGroupsReq \cup Reply :
        m \notin Misread /\ m \notin GroupCreateReply
  BY DEF RegisterOrLoginRequest, GrpReqStruct, LogOutOrSeeGroupsReq, Reply, Misread,
         GroupCreateReply
<1>2. \A m \in Reply \cup GroupCreateReply \cup SeeAllGroupsReply : "m_reply" \in DOMAIN m
  BY DEF Reply, GroupCreateReply, SeeAllGroupsReply
<1>3. \A m \in Request : "m_reply" \notin DOMAIN m
  BY DEF Request, RegisterOrLoginRequest, GrpReqStruct, LogOutOrSeeGroupsReq, Misread
<1>. QED BY <1>1, <1>2, <1>3

LEMMA EveryPacket ==
  /\ \A m \in Message :
       ProtocolPack(m) \in Seq(Int) /\ Len(ProtocolPack(m)) \in Nat \ {0}
  /\ \A m \in Message \ SeeAllGroupsReply : \A b :
       BeginsWith(b, ProtocolPack(m)) =>
         \A mem \in Memories(m) : IsUnpacked(m, mem, ProtocolUnpack(mem, b))
<1>1. ASSUME NEW m \in Message \ SeeAllGroupsReply
      PROVE  /\ ProtocolPack(m) \in Seq(Int) /\ Len(ProtocolPack(m)) \in Nat \ {0}
             /\ \A b : BeginsWith(b, ProtocolPack(m)) =>
                  \A mem \in Memories(m) : IsUnpacked(m, mem, ProtocolUnpack(mem, b))
  <2>1. CASE m \in Misread
    <3>1. Memories(m) = {Cleared}
      BY <2>1 DEF Memories, Request
    <3>. QED BY <2>1, <3>1, MisreadGood, Zenon DEF GoodPacket, IsUnpacked
  <2>2. CASE m \in RegisterOrLoginRequest \cup GrpReqStruct \cup LogOutOrSeeGroupsReq
    <3>1. Memories(m) = {Cleared} /\ m \notin Misread /\ m \notin GroupCreateReply
      BY <2>2, KindsAreDisjoint DEF Memories, Request
    <3>2. GoodPacket(ProtocolPack(m), {Cleared}, m)
      BY <2>2, RegisterOrLoginGood, GrpReqGood, LogOutOrSeeGood, Zenon
    <3>. QED BY <3>1, <3>2, Zenon DEF GoodPacket, IsUnpacked
  <2>3. CASE m \in Reply
    <3>1. Memories(m) = Leftover /\ m \notin Misread /\ m \notin GroupCreateReply
      BY <2>3, KindsAreDisjoint DEF Memories
    <3>2. GoodPacket(ProtocolPack(m), Leftover, m)
      BY <2>3, ReplyGood, Zenon
    <3>. QED BY <3>1, <3>2, Zenon DEF GoodPacket, IsUnpacked
  <2>4. CASE m \in GroupCreateReply
    <3>1. Memories(m) = Leftover
      BY <2>4, KindsAreDisjoint DEF Memories
    <3>. QED BY <2>4, <3>1, GroupCreateReplyGood, Zenon
  <2>. QED BY <1>1, <2>1, <2>2, <2>3, <2>4 DEF Message, Request, AnyReply
<1>. QED BY <1>1, SeeAllGroupsReplyBytes, Zenon

-----------------------------------------------------------------------------
(* The stream holds the whole packet of each message that starts in it, so *)
(* a recv that takes the packet whole puts it at the front of the buffer.  *)

HoldsPacket(f, s) ==
  /\ f.m \in Message /\ f.at \in Nat \ {0}
  /\ f.at + Len(ProtocolPack(f.m)) - 1 <= Len(s)
  /\ \A j \in 1 .. Len(ProtocolPack(f.m)) : s[f.at + j - 1] = ProtocolPack(f.m)[j]

WireInv ==
  /\ stream \in Seq(Int)
  /\ buffer \in Seq(Int) /\ Len(buffer) = BufferSize
  /\ \A f \in fronts : HoldsPacket(f, stream)
  /\ \A f \in fronts : f.m \in IF toServer THEN Request ELSE AnyReply
  /\ FrontIsUnpacked

LEMMA BufferBytes ==
  ASSUME NEW n \in Int
  PROVE  Buffer(n) \in Seq(Int) /\ Len(Buffer(n)) = BufferSize
BY ProtocolAssumption DEF Buffer

LEMMA WireInitInv == WireInit => WireInv
<1>. SUFFICES ASSUME WireInit PROVE WireInv
  OBVIOUS
<1>1. stream \in Seq(Int) /\ fronts = {} /\ due = {}
  BY DEF WireInit
<1>2. buffer \in Seq(Int) /\ Len(buffer) = BufferSize
  <2>1. PICK n \in {0, 97} : buffer = Buffer(n)
    BY DEF WireInit
  <2>. QED BY <2>1, BufferBytes
<1>3. FrontIsUnpacked
  BY <1>1 DEF FrontIsUnpacked
<1>. QED BY <1>1, <1>2, <1>3 DEF WireInv

(* A packet that the stream holds is still there when bytes are appended.  *)
LEMMA HeldAfterAppend ==
  ASSUME NEW s \in Seq(Int), NEW p \in Seq(Int), NEW f, HoldsPacket(f, s)
  PROVE  HoldsPacket(f, s \o p)
<1>1. PICK q : q = ProtocolPack(f.m)
  OBVIOUS
<1>2. /\ f.m \in Message /\ f.at \in Nat \ {0}
      /\ Len(q) \in Nat \ {0} /\ f.at + Len(q) - 1 <= Len(s)
      /\ \A j \in 1 .. Len(q) : s[f.at + j - 1] = q[j]
  BY <1>1, EveryPacket DEF HoldsPacket
<1>3. Len(s) \in Nat /\ Len(p) \in Nat
  BY LenProperties
<1>4. /\ Len(s \o p) = Len(s) + Len(p)
      /\ \A j \in 1 .. Len(s) + Len(p) : (s \o p)[j] = IF j <= Len(s) THEN s[j] ELSE p[j - Len(s)]
  BY ConcatProperties
<1>5. f.at + Len(q) - 1 <= Len(s) + Len(p)
  BY <1>2, <1>3
<1>6. \A j \in 1 .. Len(q) :
        f.at + j - 1 \in 1 .. Len(s) + Len(p) /\ f.at + j - 1 <= Len(s)
  BY <1>2, <1>3
<1>7. \A j \in 1 .. Len(q) : (s \o p)[f.at + j - 1] = q[j]
  BY <1>2, <1>4, <1>6, Zenon
<1>. QED BY <1>1, <1>2, <1>4, <1>5, <1>7, Zenon DEF HoldsPacket

LEMMA SendInv ==
  ASSUME WireInv, NEW m \in IF toServer THEN Request ELSE AnyReply, Send(m)
  PROVE  WireInv'
<1>. m \in Message
  BY DEF Message
<1>1. PICK p : p = ProtocolPack(m)
  OBVIOUS
<1>2. /\ stream' = stream \o p
      /\ fronts' = fronts \cup {[at |-> Len(stream) + 1, m |-> m]}
      /\ UNCHANGED <<toServer, buffer, memory, due, got>>
  BY <1>1 DEF Send
<1>3. stream \in Seq(Int) /\ p \in Seq(Int) /\ Len(p) \in Nat \ {0} /\ Len(stream) \in Nat
  BY <1>1, EveryPacket, LenProperties DEF WireInv
<1>4. /\ stream \o p \in Seq(Int) /\ Len(stream \o p) = Len(stream) + Len(p)
      /\ \A j \in 1 .. Len(stream) + Len(p) :
           (stream \o p)[j] = IF j <= Len(stream) THEN stream[j] ELSE p[j - Len(stream)]
  BY <1>3, ConcatProperties
<1>5. HoldsPacket([at |-> Len(stream) + 1, m |-> m], stream \o p)
  <2>1. Len(stream) + 1 \in Nat \ {0} /\ Len(stream) + 1 + Len(p) - 1 <= Len(stream) + Len(p)
    BY <1>3
  <2>2. \A j \in 1 .. Len(p) :
          /\ Len(stream) + 1 + j - 1 \in 1 .. Len(stream) + Len(p)
          /\ ~(Len(stream) + 1 + j - 1 <= Len(stream))
          /\ Len(stream) + 1 + j - 1 - Len(stream) = j
    BY <1>3
  <2>3. \A j \in 1 .. Len(p) : (stream \o p)[Len(stream) + 1 + j - 1] = p[j]
    <3>. SUFFICES ASSUME NEW j \in 1 .. Len(p)
                  PROVE  (stream \o p)[Len(stream) + 1 + j - 1] = p[j]
      OBVIOUS
    <3>1. PICK i : i = Len(stream) + 1 + j - 1
      OBVIOUS
    <3>2. i \in 1 .. Len(stream) + Len(p) /\ ~(i <= Len(stream)) /\ i - Len(stream) = j
      BY <2>2, <3>1
    <3>3. (stream \o p)[i] = p[i - Len(stream)]
      BY <1>4, <3>2
    <3>. QED BY <3>1, <3>2, <3>3
  <2>. QED BY <1>1, <1>4, <2>1, <2>3 DEF HoldsPacket
<1>6. \A f \in fronts : HoldsPacket(f, stream \o p)
  BY <1>3, HeldAfterAppend DEF WireInv
<1>7. \A f \in fronts' : HoldsPacket(f, stream')
  BY <1>2, <1>5, <1>6
<1>8. FrontIsUnpacked'
  BY <1>2 DEF WireInv, FrontIsUnpacked
<1>9. \A f \in fronts' : f.m \in IF toServer' THEN Request ELSE AnyReply
  BY <1>2 DEF WireInv
<1>. QED BY <1>2, <1>4, <1>7, <1>8, <1>9 DEF WireInv

(* What is left of a packet's stream when the bytes before it are taken.   *)
LEMMA HeldAfterTaking ==
  ASSUME NEW s \in Seq(Int), NEW n \in Nat, n <= Len(s),
         NEW f, HoldsPacket(f, s), f.at > n
  PROVE  HoldsPacket([at |-> f.at - n, m |-> f.m], SubSeq(s, n + 1, Len(s)))
<1>. DEFINE rest == SubSeq(s, n + 1, Len(s))
<1>1. PICK q, at : q = ProtocolPack(f.m) /\ at = f.at
  OBVIOUS
<1>2. /\ f.m \in Message /\ at \in Nat \ {0} /\ at > n
      /\ Len(q) \in Nat \ {0} /\ at + Len(q) - 1 <= Len(s)
      /\ \A j \in 1 .. Len(q) : s[at + j - 1] = q[j]
  BY <1>1, EveryPacket DEF HoldsPacket
<1>3. Len(s) \in Nat
  BY LenProperties
<1>4. Len(rest) = Len(s) - n /\ \A j \in 1 .. Len(s) - n : rest[j] = s[n + j]
  <2>1. \A j \in n + 1 .. Len(s) : s[j] \in Int
    <3>1. \A j \in n + 1 .. Len(s) : j \in 1 .. Len(s)
      BY <1>3
    <3>. QED BY <3>1, ElementOfSeq
  <2>2. n + 1 \in Int /\ Len(s) \in Int
    BY <1>3
  <2>3. /\ Len(rest) = IF n + 1 <= Len(s) THEN Len(s) - (n + 1) + 1 ELSE 0
        /\ \A j \in 1 .. Len(s) - (n + 1) + 1 : rest[j] = s[n + 1 + j - 1]
    BY <2>1, <2>2, SubSeqProperties
  <2>. HIDE DEF rest
  <2>4. /\ (IF n + 1 <= Len(s) THEN Len(s) - (n + 1) + 1 ELSE 0) = Len(s) - n
        /\ Len(s) - (n + 1) + 1 = Len(s) - n
        /\ \A j \in 1 .. Len(s) - n : n + 1 + j - 1 = n + j
    BY <1>3
  <2>. QED BY <2>3, <2>4
<1>. HIDE DEF rest
<1>5. at - n \in Nat \ {0} /\ (at - n) + Len(q) - 1 <= Len(s) - n
  BY <1>2, <1>3
<1>6. \A j \in 1 .. Len(q) : rest[(at - n) + j - 1] = q[j]
  <2>. SUFFICES ASSUME NEW j \in 1 .. Len(q)
                PROVE  rest[(at - n) + j - 1] = q[j]
    OBVIOUS
  <2>1. PICK i : i = (at - n) + j - 1
    OBVIOUS
  <2>2. i \in 1 .. Len(s) - n /\ n + i = at + j - 1
    BY <1>2, <1>3, <2>1
  <2>3. rest[i] = s[at + j - 1]
    BY <1>4, <2>2
  <2>. QED BY <1>2, <2>1, <2>3
<1>7. [at |-> f.at - n, m |-> f.m].m = f.m /\ [at |-> f.at - n, m |-> f.m].at = at - n
  BY <1>1
<1>8. HoldsPacket([at |-> f.at - n, m |-> f.m], rest)
  BY <1>1, <1>2, <1>4, <1>5, <1>6, <1>7, Zenon DEF HoldsPacket
<1>. QED BY <1>8 DEF rest

(* The buffer after a recv of n bytes of the stream s over the old bytes.  *)
LEMMA Received ==
  ASSUME NEW s \in Seq(Int), NEW old \in Seq(Int), Len(old) = BufferSize,
         NEW n \in Nat, n <= Len(s), n <= BufferSize
  PROVE  LET b == SubSeq(s, 1, n) \o SubSeq(old, n + 1, BufferSize)
         IN  /\ b \in Seq(Int) /\ Len(b) = BufferSize
             /\ \A j \in 1 .. n : b[j] = s[j]
<1>. DEFINE first == SubSeq(s, 1, n)
            last  == SubSeq(old, n + 1, BufferSize)
<1>1. Len(s) \in Nat /\ BufferSize \in Nat
  BY LenProperties, ProtocolAssumption
<1>2. first \in Seq(Int) /\ Len(first) = n /\ \A j \in 1 .. n : first[j] = s[j]
  <2>1. \A j \in 1 .. n : s[j] \in Int
    <3>1. \A j \in 1 .. n : j \in 1 .. Len(s)
      BY <1>1
    <3>. QED BY <3>1, ElementOfSeq
  <2>2. 1 \in Int /\ n \in Int
    OBVIOUS
  <2>3. /\ first \in Seq(Int) /\ Len(first) = IF 1 <= n THEN n - 1 + 1 ELSE 0
        /\ \A j \in 1 .. n - 1 + 1 : first[j] = s[1 + j - 1]
    BY <2>1, <2>2, SubSeqProperties
  <2>. HIDE DEF first
  <2>4. (IF 1 <= n THEN n - 1 + 1 ELSE 0) = n /\ n - 1 + 1 = n /\ \A j \in 1 .. n : 1 + j - 1 = j
    OBVIOUS
  <2>. QED BY <2>3, <2>4
<1>3. last \in Seq(Int) /\ Len(last) = BufferSize - n
  <2>1. \A j \in n + 1 .. BufferSize : old[j] \in Int
    <3>1. \A j \in n + 1 .. BufferSize : j \in 1 .. Len(old)
      BY <1>1
    <3>. QED BY <3>1, ElementOfSeq
  <2>2. n + 1 \in Int /\ BufferSize \in Int
    BY <1>1
  <2>3. /\ last \in Seq(Int)
        /\ Len(last) = IF n + 1 <= BufferSize THEN BufferSize - (n + 1) + 1 ELSE 0
    BY <2>1, <2>2, SubSeqProperties
  <2>. HIDE DEF last
  <2>4. (IF n + 1 <= BufferSize THEN BufferSize - (n + 1) + 1 ELSE 0) = BufferSize - n
    BY <1>1
  <2>. QED BY <2>3, <2>4
<1>. HIDE DEF first, last
<1>4. /\ first \o last \in Seq(Int) /\ Len(first \o last) = Len(first) + Len(last)
      /\ \A j \in 1 .. Len(first) + Len(last) :
           (first \o last)[j] = IF j <= Len(first) THEN first[j] ELSE last[j - Len(first)]
  BY <1>2, <1>3, ConcatProperties
<1>5. n + (BufferSize - n) = BufferSize
  BY <1>1
<1>6. \A j \in 1 .. n : j \in 1 .. BufferSize /\ j <= n
  BY <1>1
<1>7. \A j \in 1 .. n : (first \o last)[j] = s[j]
  BY <1>2, <1>3, <1>4, <1>5, <1>6
<1>8. first \o last \in Seq(Int) /\ Len(first \o last) = BufferSize
  BY <1>2, <1>3, <1>4, <1>5
<1>. QED BY <1>7, <1>8 DEF first, last

LEMMA ReceiveInv ==
  ASSUME WireInv, NEW n \in 1 .. BufferSize, Receive(n)
  PROVE  WireInv'
<1>1. PICK old : old = IF toServer THEN buffer ELSE Buffer(0)
  OBVIOUS
<1>2. old \in Seq(Int) /\ Len(old) = BufferSize
  BY <1>1, BufferBytes, 0 \in Int DEF WireInv
<1>3. /\ n <= Len(stream) /\ n <= BufferSize
      /\ buffer' = SubSeq(stream, 1, n) \o SubSeq(old, n + 1, BufferSize)
      /\ stream' = SubSeq(stream, n + 1, Len(stream))
      /\ fronts' = {[at |-> f.at - n, m |-> f.m] : f \in {f \in fronts : f.at > n}}
      /\ due' = {f.m : f \in {f \in fronts : f.at = 1 /\ Len(ProtocolPack(f.m)) <= n}}
      /\ memory' \in IF toServer THEN {Cleared} ELSE Leftover
      /\ got' = IF due' = {} THEN NotUnpacked ELSE ProtocolUnpack(memory', buffer')
      /\ toServer' = toServer
  BY <1>1 DEF Receive
<1>4. stream \in Seq(Int) /\ n \in Nat
  BY DEF WireInv
<1>5. /\ buffer' \in Seq(Int) /\ Len(buffer') = BufferSize
      /\ \A j \in 1 .. n : buffer'[j] = stream[j]
  BY <1>2, <1>3, <1>4, Received
<1>6. stream' \in Seq(Int)
  <2>1. \A j \in n + 1 .. Len(stream) : stream[j] \in Int
    <3>1. Len(stream) \in Nat
      BY <1>4, LenProperties
    <3>2. \A j \in n + 1 .. Len(stream) : j \in 1 .. Len(stream)
      BY <1>4, <3>1
    <3>. QED BY <1>4, <3>2, ElementOfSeq
  <2>2. n + 1 \in Int /\ Len(stream) \in Int
    BY <1>4, LenProperties
  <2>. QED BY <1>3, <2>1, <2>2, SubSeqProperties
<1>7. \A f \in fronts' : HoldsPacket(f, stream')
  <2>. SUFFICES ASSUME NEW f \in fronts, f.at > n
                PROVE  HoldsPacket([at |-> f.at - n, m |-> f.m], stream')
    BY <1>3
  <2>1. HoldsPacket(f, stream)
    BY DEF WireInv
  <2>. QED BY <1>3, <1>4, <2>1, HeldAfterTaking
<1>8. FrontIsUnpacked'
  <2>. SUFFICES ASSUME NEW m \in due' \ SeeAllGroupsReply
                PROVE  IsUnpacked(m, memory', got')
    BY DEF FrontIsUnpacked
  <2>1. PICK f \in fronts : f.at = 1 /\ Len(ProtocolPack(f.m)) <= n /\ m = f.m
    BY <1>3
  <2>2. PICK q : q = ProtocolPack(m)
    OBVIOUS
  <2>3. /\ m \in Message /\ Len(q) \in Nat /\ Len(q) <= n
        /\ \A j \in 1 .. Len(q) : stream[1 + j - 1] = q[j]
    BY <2>1, <2>2, EveryPacket DEF WireInv, HoldsPacket
  <2>4. \A j \in 1 .. Len(q) : j \in 1 .. n /\ 1 + j - 1 = j
    BY <1>4, <2>3
  <2>5. BeginsWith(buffer', q)
    BY <1>5, <2>3, <2>4 DEF BeginsWith
  <2>6. memory' \in Memories(m)
    <3>1. m \in IF toServer THEN Request ELSE AnyReply
      BY <2>1 DEF WireInv
    <3>2. m \in AnyReply => m \notin Request
      BY KindsAreDisjoint DEF AnyReply
    <3>. QED BY <1>3, <3>1, <3>2 DEF Memories
  <2>7. IsUnpacked(m, memory', ProtocolUnpack(memory', buffer'))
    BY <2>2, <2>3, <2>5, <2>6, EveryPacket
  <2>. QED BY <1>3, <2>7
<1>9. \A f \in fronts' : f.m \in IF toServer' THEN Request ELSE AnyReply
  BY <1>3 DEF WireInv
<1>. QED BY <1>5, <1>6, <1>7, <1>8, <1>9 DEF WireInv

LEMMA WireInvKept == WireInv /\ [WireNext]_wireVars => WireInv'
<1>. SUFFICES ASSUME WireInv, [WireNext]_wireVars PROVE WireInv'
  OBVIOUS
<1>1. CASE \E m \in IF toServer THEN Request ELSE AnyReply : Send(m)
  <2>1. PICK m \in IF toServer THEN Request ELSE AnyReply : Send(m)
    BY <1>1
  <2>. QED BY <2>1, SendInv
<1>2. CASE \E n \in 1 .. BufferSize : Receive(n)
  BY <1>2, ReceiveInv
<1>3. CASE UNCHANGED wireVars
  BY <1>3 DEF wireVars, WireInv, FrontIsUnpacked
<1>. QED BY <1>1, <1>2, <1>3 DEF WireNext

(* A message at the front of the buffer is unpacked as it was packed,      *)
(* whatever names it holds, however large the buffer and whatever lies     *)
(* behind it there; an address and a port whatever the memory held that    *)
(* they are copied to, if there was a NUL behind them (protocol.c:260).    *)
THEOREM MessagesAreReadBack == WireSpec => []FrontIsUnpacked
<1>1. WireInv => FrontIsUnpacked
  BY DEF WireInv
<1>. QED BY <1>1, WireInitInv, WireInvKept, PTL DEF WireSpec
-----------------------------------------------------------------------------
(* Group lists: what is read is the list and zeros behind it, if the bytes *)
(* behind it are zero.                                                     *)

(* The bytes of a group list.                                              *)
LEMMA ListPacket ==
  ASSUME NEW m \in SeeAllGroupsReply, NEW p, p = ProtocolPack(m)
  PROVE  /\ p \in Seq(Int) /\ Len(p) = 4 + Len(m.m_allGroupNames)
         /\ m.m_allGroupNames \in Seq(Letters)
         /\ p[1] = TagByte["GROUP_ALL_AVAILABLE_REPLY"] /\ p[4] = 1
         /\ \A j \in 1 .. Len(m.m_allGroupNames) : p[4 + j] = m.m_allGroupNames[j]
<1>. DEFINE x == TagByte[m.m_tag]
            y == Byte(4 + Len(m.m_allGroupNames))
            h == <<x, y, 1, 1>>
<1>1. m.m_tag = "GROUP_ALL_AVAILABLE_REPLY" /\ m.m_reply = 1
  BY DEF SeeAllGroupsReply
<1>2. PICK t : t = m.m_allGroupNames
  OBVIOUS
<1>3. t \in Seq(Letters)
  BY <1>2, ProtocolAssumption DEF SeeAllGroupsReply, Letters
<1>4. t \in Seq(Int) /\ Len(t) \in Nat
  BY <1>3, LettersSeq
<1>5. x \in Int /\ x = TagByte["GROUP_ALL_AVAILABLE_REPLY"]
  BY <1>1 DEF TagByte
<1>6. y \in Int
  BY <1>2, <1>4 DEF Byte
<1>7. p = h \o t
  <2>1. ProtocolPack(m) = PackSeeAllGroupsReply(m)
    BY <1>1 DEF ProtocolPack, RegisterOrLoginRequest, GrpReqStruct, LogOutOrSeeGroupsReq,
              Misread, Reply, GroupCreateReply, SeeAllGroupsReply
  <2>. QED BY <1>1, <1>2, <2>1 DEF PackSeeAllGroupsReply
<1>. HIDE DEF x, y
<1>8. h \in Seq(Int) /\ Len(h) = 4 /\ h[1] = x /\ h[4] = 1
  BY <1>5, <1>6
<1>. HIDE DEF h
<1>9. /\ p \in Seq(Int) /\ Len(p) = 4 + Len(t)
      /\ \A j \in 1 .. 4 + Len(t) : p[j] = IF j <= 4 THEN h[j] ELSE t[j - 4]
  <2>1. /\ p \in Seq(Int) /\ Len(p) = Len(h) + Len(t)
        /\ \A j \in 1 .. Len(h) + Len(t) : p[j] = IF j <= Len(h) THEN h[j] ELSE t[j - Len(h)]
    <3>1. /\ h \o t \in Seq(Int) /\ Len(h \o t) = Len(h) + Len(t)
          /\ \A j \in 1 .. Len(h) + Len(t) :
               (h \o t)[j] = IF j <= Len(h) THEN h[j] ELSE t[j - Len(h)]
      BY <1>4, <1>8, ConcatProperties
    <3>. QED BY <1>7, <3>1, Zenon
  <2>. QED BY <1>8, <2>1, Zenon
<1>10. p[1] = h[1] /\ p[4] = h[4]
  <2>1. \A k \in Nat : 1 \in 1 .. 4 + k /\ 4 \in 1 .. 4 + k /\ 1 <= 4 /\ 4 <= 4
    OBVIOUS
  <2>. QED BY <1>4, <1>9, <2>1, Zenon
<1>11. \A j \in 1 .. Len(t) : p[4 + j] = t[j]
  <2>. SUFFICES ASSUME NEW j \in 1 .. Len(t)
                PROVE  p[4 + j] = t[j]
    OBVIOUS
  <2>1. PICK i : i = 4 + j
    OBVIOUS
  <2>2. i \in 1 .. 4 + Len(t) /\ ~(i <= 4) /\ i - 4 = j
    BY <1>4, <2>1
  <2>3. p[i] = IF i <= 4 THEN h[i] ELSE t[i - 4]
    BY <1>9, <2>2, Zenon
  <2>. QED BY <2>1, <2>2, <2>3, Zenon
<1>. QED BY <1>2, <1>3, <1>5, <1>8, <1>9, <1>10, <1>11

(* When a list of names is followed by a NUL, in the packet's last bytes   *)
(* that are copied or in the memory.                                       *)
ListEnds(names, mem) ==
  LET ends == mem[Len(names) + 1] = 0
  IN  \/ names = <<>> /\ ends
      \/ names # <<>> /\ Len(names) < names[1]
      \/ names # <<>> /\ Len(names) = names[1] /\ ends

(* A buffer that holds such a list and zeros is unpacked as it was packed. *)
(* The last byte read is the 131st at most.                                *)
LEMMA ListReadBack ==
  ASSUME NEW m \in SeeAllGroupsReply, NEW b \in Seq(Int), Len(b) > 130,
         BeginsWith(b, ProtocolPack(m)),
         \A j \in Len(ProtocolPack(m)) + 1 .. Len(b) : b[j] = 0,
         NEW mem \in Memory, ListEnds(m.m_allGroupNames, mem)
  PROVE  ProtocolUnpack(mem, b) = m
<1>1. PICK p, t : p = ProtocolPack(m) /\ t = m.m_allGroupNames
  OBVIOUS
<1>2. /\ p \in Seq(Int) /\ Len(p) = 4 + Len(t)
      /\ t \in Seq(Letters)
      /\ p[1] = TagByte["GROUP_ALL_AVAILABLE_REPLY"] /\ p[4] = 1
      /\ \A j \in 1 .. Len(t) : p[4 + j] = t[j]
  BY <1>1, ListPacket
<1>3. /\ Len(t) \in Nat /\ Len(b) \in Nat
      /\ \A j \in 1 .. Len(t) : t[j] \in Letters
  BY <1>2, LettersSeq, LenProperties
<1>4. \A j \in 1 .. 4 + Len(t) : b[j] = p[j]
  BY <1>1, <1>2 DEF BeginsWith
<1>5. b[1] = p[1] /\ b[4] = 1
  BY <1>2, <1>3, <1>4
<1>6. \A j \in 1 .. Len(t) : b[4 + j] = t[j]
  <2>1. \A j \in 1 .. Len(t) : 4 + j \in 1 .. 4 + Len(t)
    BY <1>3
  <2>. QED BY <1>2, <1>4, <2>1
<1>7. \A j \in 4 + Len(t) + 1 .. Len(b) : b[j] = 0
  BY <1>1, <1>2
<1>8. b[5] \in 0 .. 127 /\ Len(t) <= b[5] /\ (Len(t) < b[5] \/ mem[Len(t) + 1] = 0)
  <2>1. CASE t = <<>>
    <3>1. Len(t) = 0
      BY <2>1
    <3>2. 5 \in 4 + Len(t) + 1 .. Len(b)
      BY <1>3, <3>1
    <3>3. b[5] = 0
      BY <1>7, <3>2
    <3>. QED BY <1>1, <2>1, <3>1, <3>3 DEF ListEnds
  <2>2. CASE t # <<>>
    <3>1. 1 \in 1 .. Len(t)
      BY <1>2, <1>3, <2>2, EmptySeq
    <3>2. b[5] = t[1] /\ t[1] \in 15 .. 127
      BY <1>3, <1>6, <3>1 DEF Letters
    <3>3. Len(t) < t[1] \/ (Len(t) = t[1] /\ mem[Len(t) + 1] = 0)
      BY <1>1, <2>2 DEF ListEnds
    <3>. QED BY <1>3, <3>2, <3>3
  <2>. QED BY <2>1, <2>2
<1>9. PICK n \in 0 .. 127 : n = b[5]
  BY <1>8
<1>10. PICK s : s = SubSeq(b, 5, 4 + n)
  OBVIOUS
<1>11. s \in Seq(Int) /\ Len(s) = n /\ \A j \in 1 .. n : s[j] = b[4 + j]
  <2>1. \A j \in 5 .. 4 + n : b[j] \in Int
    <3>1. \A k \in Nat : k > 130 => \A j \in 5 .. 4 + n : j \in 1 .. k
      OBVIOUS
    <3>. QED BY <1>3, <3>1, ElementOfSeq, Zenon
  <2>2. 5 \in Int /\ 4 + n \in Int
    OBVIOUS
  <2>3. /\ s \in Seq(Int) /\ Len(s) = IF 5 <= 4 + n THEN 4 + n - 5 + 1 ELSE 0
        /\ \A j \in 1 .. 4 + n - 5 + 1 : s[j] = b[5 + j - 1]
    BY <1>10, <2>1, <2>2, SubSeqProperties
  <2>4. /\ (IF 5 <= 4 + n THEN 4 + n - 5 + 1 ELSE 0) = n /\ 4 + n - 5 + 1 = n
        /\ \A j \in 1 .. n : 5 + j - 1 = 4 + j
    OBVIOUS
  <2>. QED BY <2>3, <2>4
<1>12. PICK r : r = StrNCpy(mem, 0, s)
  OBVIOUS
<1>13. StringIn(r, 0) = t
  <2>1. /\ MemorySize \in Nat /\ MemorySize > 127 /\ 0 \in Nat
        /\ Len(t) \in Nat /\ Len(t) <= n /\ n \in Nat /\ n < 128
    <3>1. \A k \in 0 .. 127 : k \in Nat /\ k < 128
      OBVIOUS
    <3>2. n \in Nat /\ n < 128 /\ 0 \in Nat
      BY <1>9, <3>1
    <3>. QED BY <1>3, <1>8, <1>9, <3>2, MemoryBytes
  <2>2. /\ r \in Memory
        /\ \A j \in 1 .. MemorySize : j <= 0 \/ j > 0 + n => r[j] = mem[j]
        /\ \A j \in 1 .. n : 0 + j <= MemorySize =>
             /\ (\A i \in 1 .. j : s[i] # 0) => r[0 + j] = s[j]
             /\ s[j] = 0 => r[0 + j] = 0
    <3>1. 0 \in Nat /\ s \in Seq(Int) /\ Len(s) = n
      BY <1>11
    <3>. QED BY <1>12, <3>1, Copied
  <2>3. \A j \in 1 .. Len(t) : j \in 1 .. n /\ s[j] = t[j] /\ s[j] # 0
    <3>1. \A j \in 1 .. Len(t) : j \in 1 .. n
      BY <2>1
    <3>2. \A j \in 1 .. Len(t) : t[j] # 0
      BY <1>2, LettersSeq
    <3>. QED BY <1>6, <1>11, <3>1, <3>2
  <2>4. \A j \in 1 .. Len(t) : r[0 + j] = t[j]
    <3>1. \A j \in 1 .. Len(t) : 0 + j <= MemorySize /\ \A i \in 1 .. j : i \in 1 .. Len(t)
      BY <2>1
    <3>. QED BY <2>2, <2>3, <3>1
  <2>5. r[0 + Len(t) + 1] = 0
    <3>1. PICK k : k = Len(t) + 1
      OBVIOUS
    <3>2. k \in 1 .. MemorySize /\ 0 + Len(t) + 1 = k /\ 0 + k = k
      BY <2>1, <3>1
    <3>3. CASE Len(t) < n
      <4>1. k \in 1 .. n /\ k <= MemorySize
        BY <2>1, <3>1, <3>3
      <4>2. s[k] = 0
        <5>1. 4 + k \in 4 + Len(t) + 1 .. Len(b)
          <6>1. Len(b) \in Nat /\ Len(b) > 130
            BY <1>3
          <6>. QED BY <2>1, <3>1, <4>1, <6>1
        <5>. QED BY <1>7, <1>11, <4>1, <5>1
      <4>. QED BY <2>2, <3>2, <4>1, <4>2
    <3>4. CASE Len(t) = n
      <4>1. k > 0 + n
        BY <2>1, <3>1, <3>4
      <4>2. mem[k] = 0
        BY <1>8, <1>9, <2>1, <3>1, <3>4
      <4>. QED BY <2>2, <3>2, <4>1, <4>2
    <3>. QED BY <2>1, <3>3, <3>4
  <2>6. 0 + Len(t) < MemorySize
    BY <2>1
  <2>. QED BY <1>2, <2>1, <2>2, <2>4, <2>5, <2>6, TextInMemory
<1>14. TagOf(b[1]) = "GROUP_ALL_AVAILABLE_REPLY"
  <2>1. "GROUP_ALL_AVAILABLE_REPLY" \in DOMAIN TagByte
    BY DEF TagByte
  <2>. QED BY <1>2, <1>5, <2>1, TagReadBack
<1>15. ProtocolUnpack(mem, b) = [m_tag |-> "GROUP_ALL_AVAILABLE_REPLY", m_reply |-> 1, m_allGroupNames |-> t]
  <2>1. ProtocolUnpack(mem, b) = UnpackSeeAllGroupsReply(mem, b)
    BY <1>14 DEF ProtocolUnpack
  <2>. QED BY <1>5, <1>9, <1>10, <1>12, <1>13, <1>14, <2>1 DEF UnpackSeeAllGroupsReply
<1>. QED BY <1>1, <1>15 DEF SeeAllGroupsReply

ListInv == WireInv /\ ShortListIsUnpacked

LEMMA ListInitInv == WireInit => ListInv
BY WireInitInv DEF WireInit, ListInv, ShortListIsUnpacked

(* Behind the bytes that a client receives are zeros.                      *)
LEMMA ZerosBehind ==
  ASSUME NEW s \in Seq(Int), NEW n \in Nat, n <= Len(s), n <= BufferSize, NEW b,
         b = SubSeq(s, 1, n) \o SubSeq(Buffer(0), n + 1, BufferSize)
  PROVE  \A j \in n + 1 .. Len(b) : b[j] = 0
<1>1. Len(s) \in Nat /\ BufferSize \in Nat
  BY LenProperties, ProtocolAssumption
<1>2. PICK first : first = SubSeq(s, 1, n)
  OBVIOUS
<1>3. first \in Seq(Int) /\ Len(first) = n
  BY <1>2, PrefixOf
<1>4. PICK old : old = Buffer(0)
  OBVIOUS
<1>5. \A j \in n + 1 .. BufferSize : old[j] = 0
  BY <1>1, <1>4 DEF Buffer
<1>6. PICK last : last = SubSeq(old, n + 1, BufferSize)
  OBVIOUS
<1>7. last \in Seq(Int) /\ Len(last) = BufferSize - n /\ \A j \in 1 .. BufferSize - n : last[j] = 0
  <2>1. \A j \in n + 1 .. BufferSize : old[j] \in Int
    BY <1>5
  <2>2. n + 1 \in Int /\ BufferSize \in Int
    BY <1>1
  <2>3. /\ last \in Seq(Int)
        /\ Len(last) = IF n + 1 <= BufferSize THEN BufferSize - (n + 1) + 1 ELSE 0
        /\ \A j \in 1 .. BufferSize - (n + 1) + 1 : last[j] = old[n + 1 + j - 1]
    BY <1>6, <2>1, <2>2, SubSeqProperties
  <2>4. /\ (IF n + 1 <= BufferSize THEN BufferSize - (n + 1) + 1 ELSE 0) = BufferSize - n
        /\ BufferSize - (n + 1) + 1 = BufferSize - n
        /\ \A j \in 1 .. BufferSize - n : n + 1 + j - 1 \in n + 1 .. BufferSize
    BY <1>1
  <2>. QED BY <1>5, <2>3, <2>4
<1>8. /\ Len(b) = n + (BufferSize - n)
      /\ \A j \in 1 .. n + (BufferSize - n) : b[j] = IF j <= n THEN first[j] ELSE last[j - n]
  <2>1. /\ Len(first \o last) = Len(first) + Len(last)
        /\ \A j \in 1 .. Len(first) + Len(last) :
             (first \o last)[j] = IF j <= Len(first) THEN first[j] ELSE last[j - Len(first)]
    BY <1>3, <1>7, ConcatProperties
  <2>2. b = first \o last
    BY <1>2, <1>4, <1>6
  <2>. QED BY <1>3, <1>7, <2>1, <2>2
<1>9. \A j \in n + 1 .. n + (BufferSize - n) :
        /\ j \in 1 .. n + (BufferSize - n) /\ ~(j <= n)
        /\ j - n \in 1 .. BufferSize - n
  BY <1>1
<1>. QED BY <1>7, <1>8, <1>9

LEMMA ReceiveLists ==
  ASSUME ListInv, WireInv', NEW n \in 1 .. BufferSize, Receive(n), BufferSize > 130
  PROVE  ShortListIsUnpacked'
<1>2. ASSUME NEW m \in due' \cap SeeAllGroupsReply, taken' = Len(ProtocolPack(m)),
             ListEnds(m.m_allGroupNames, memory')
      PROVE  got' = m
  <2>1. PICK f \in fronts : f.at = 1 /\ Len(ProtocolPack(f.m)) <= n /\ m = f.m
    BY <1>2 DEF Receive
  <2>2. ~toServer /\ memory' \in Memory
    <3>1. ~toServer
      BY <1>2, <2>1, KindsAreDisjoint DEF ListInv, WireInv
    <3>. QED BY <3>1, MemoriesInMemory DEF Receive
  <2>3. PICK p : p = ProtocolPack(m)
    OBVIOUS
  <2>4. Len(p) = n
    BY <1>2, <2>3 DEF Receive
  <2>5. \A j \in 1 .. n : stream[1 + j - 1] = p[j]
    BY <2>1, <2>3, <2>4 DEF ListInv, WireInv, HoldsPacket
  <2>6. stream \in Seq(Int) /\ n \in Nat /\ n <= Len(stream) /\ n <= BufferSize
    BY DEF ListInv, WireInv, Receive
  <2>7. PICK b : b = buffer'
    OBVIOUS
  <2>8. b = SubSeq(stream, 1, n) \o SubSeq(Buffer(0), n + 1, BufferSize)
    BY <2>2, <2>7 DEF Receive
  <2>9. /\ b \in Seq(Int) /\ Len(b) = BufferSize
        /\ \A j \in 1 .. n : b[j] = stream[j]
    BY <2>6, <2>8, BufferBytes, Received, 0 \in Int
  <2>10. \A j \in n + 1 .. Len(b) : b[j] = 0
    BY <2>6, <2>8, ZerosBehind
  <2>11. BeginsWith(b, p)
    <3>1. \A j \in 1 .. n : 1 + j - 1 = j
      OBVIOUS
    <3>. QED BY <2>4, <2>5, <2>9, <3>1 DEF BeginsWith
  <2>12. ProtocolUnpack(memory', b) = m
    BY <1>2, <2>2, <2>3, <2>4, <2>9, <2>10, <2>11, ListReadBack
  <2>. QED BY <1>2, <2>7, <2>12 DEF Receive
<1>. QED BY <1>2 DEF ShortListIsUnpacked, ListEnds

LEMMA ListInvKept ==
  ASSUME BufferSize > 130, ListInv, [WireNext]_wireVars
  PROVE  ListInv'
<1>1. WireInv'
  BY WireInvKept DEF ListInv
<1>2. CASE \E m \in IF toServer THEN Request ELSE AnyReply : Send(m)
  BY <1>1, <1>2 DEF ListInv, ShortListIsUnpacked, Send
<1>3. CASE \E n \in 1 .. BufferSize : Receive(n)
  BY <1>1, <1>3, ReceiveLists DEF ListInv
<1>4. CASE UNCHANGED wireVars
  BY <1>1, <1>4 DEF wireVars, ListInv, ShortListIsUnpacked
<1>. QED BY <1>2, <1>3, <1>4 DEF WireNext

(* A group list that arrives alone is read back, whatever its names, if it *)
(* is shorter than its first letter's number, and if it is as long, or     *)
(* empty, from memory that had a NUL behind it, provided that the client's *)
(* buffer (2048 bytes in client_manager.c) has the 131 bytes that may be   *)
(* looked at.                                                              *)
THEOREM ShortListsAreReadBack ==
  ASSUME BufferSize > 130
  PROVE  WireSpec => []ShortListIsUnpacked
<1>1. ListInv => ShortListIsUnpacked
  BY DEF ListInv
<1>2. ListInv /\ [WireNext]_wireVars => ListInv'
  BY ListInvKept
<1>. QED BY <1>1, <1>2, ListInitInv, PTL DEF WireSpec
=============================================================================
