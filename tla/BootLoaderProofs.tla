-------------------------- MODULE BootLoaderProofs --------------------------
(***************************************************************************)
(* A file that mkimage.py packed is loaded byte for byte by boot.asm, for  *)
(* every file that fits, every geometry and every size of sectors and      *)
(* records.  First what the image builder makes: pieces, records, their    *)
(* concatenation, sectors.  Then the invariant, which says after p bytes   *)
(* where the loader is on the volume and in which record, and that every   *)
(* step of it takes it one byte on.                                        *)
(***************************************************************************)
EXTENDS BootLoader, SequenceTheorems, WellFoundedInduction, TLAPS

\* Every nonempty set of naturals has a smallest element.
LEMMA SmallestNumber ==
  ASSUME NEW T, T \subseteq Nat, T # {}
  PROVE  \E n \in T : \A m \in T : n <= m
PROOF
  <1>1. PICK n \in T : \A m \in T : <<m, n>> \notin OpToRel(<, Nat)
    BY NatLessThanWellFounded, WFMin
  <1>2. \A m \in T : n <= m
    <2>1. SUFFICES ASSUME NEW m \in T PROVE n <= m
      OBVIOUS
    <2>2. n \in Nat /\ m \in Nat
      OBVIOUS
    <2>3. OpToRel(<, Nat) = {pair \in Nat \X Nat : pair[1] < pair[2]}
      BY DEF OpToRel
    <2>4. ~(m < n)
      BY <1>1, <2>2, <2>3
    <2>. QED
      BY <2>2, <2>4
  <1>. QED
    BY <1>2

\* Division with remainder.
LEMMA DivisionFacts ==
  ASSUME NEW a \in Nat, NEW d \in Nat, d > 0
  PROVE  /\ a \div d \in Nat
         /\ a % d \in 0 .. d - 1
         /\ a = d * (a \div d) + (a % d)
PROOF
  OBVIOUS

\* Two divisions of the same number agree.
LEMMA DivisionUnique ==
  ASSUME NEW q \in Nat, NEW p \in Nat, NEW d \in Nat, d > 0,
         NEW r \in 0 .. d - 1, NEW s \in 0 .. d - 1, d * q + r = d * p + s
  PROVE  q = p /\ r = s
PROOF
  OBVIOUS

-----------------------------------------------------------------------------
(* Chunks.                                                                 *)

\* The pieces that n elements make, and the length of the k-th.
Pieces(n, size) == (n + size - 1) \div size
PieceEnd(k, n, size) == IF k * size < n THEN k * size ELSE n
PieceLength(k, n, size) == PieceEnd(k, n, size) - (k - 1) * size

\* All pieces but the last are full, and the last is not empty.
LEMMA PieceFacts ==
  ASSUME NEW n \in Nat, NEW size \in Nat, size > 0
  PROVE  /\ Pieces(n, size) \in Nat
         /\ n <= Pieces(n, size) * size
         /\ n > 0 => Pieces(n, size) > 0
         /\ \A k \in 1 .. Pieces(n, size) : (k - 1) * size < n
         /\ \A k \in Nat : k < Pieces(n, size) => k * size < n
PROOF
  <1> DEFINE q == Pieces(n, size)
             r == (n + size - 1) % size
  <1>1. /\ q \in Nat
        /\ r \in 0 .. size - 1
        /\ n + size - 1 = size * q + r
    BY DivisionFacts, n + size - 1 \in Nat DEF Pieces
  <1>. HIDE DEF q, r
  <1>2. n <= q * size
    <2>1. size * q = q * size
      BY <1>1
    <2>. QED
      BY <1>1, <2>1
  <1>3. ASSUME n > 0 PROVE q > 0
    <2>1. CASE q = 0
      <3>1. size * q = 0
        BY <2>1
      <3>. QED
        BY <1>1, <1>3, <3>1
    <2>. QED
      BY <1>1, <2>1
  <1>4. ASSUME NEW k \in Nat, k < q PROVE k * size < n
    <2>1. PICK j \in Nat : q = k + 1 + j
      <3>1. q - k - 1 \in Nat /\ q = k + 1 + (q - k - 1)
        BY <1>1, <1>4
      <3>. QED
        BY <3>1
    <2>2. size * q = k * size + size + j * size
      BY <2>1
    <2>3. j * size \in Nat /\ k * size \in Nat
      BY <2>1
    <2>. QED
      BY <1>1, <2>2, <2>3
  <1>5. ASSUME NEW k \in 1 .. q PROVE (k - 1) * size < n
    BY <1>1, <1>4, k - 1 \in Nat, k - 1 < q
  <1>. QED
    BY <1>1, <1>2, <1>3, <1>4, <1>5 DEF q

\* What Chunks returns.
LEMMA ChunksFacts ==
  ASSUME NEW X, NEW s \in Seq(X), NEW size \in Nat, size > 0
  PROVE  /\ Len(Chunks(s, size)) = Pieces(Len(s), size)
         /\ Chunks(s, size) \in Seq(Seq(X))
         /\ \A k \in 1 .. Pieces(Len(s), size) :
              /\ PieceLength(k, Len(s), size) \in 1 .. size
              /\ Len(Chunks(s, size)[k]) = PieceLength(k, Len(s), size)
              /\ \A i \in 1 .. PieceLength(k, Len(s), size) :
                   /\ (k - 1) * size + i \in 1 .. Len(s)
                   /\ Chunks(s, size)[k][i] = s[(k - 1) * size + i]
PROOF
  <1> DEFINE n == Len(s)
             m == Pieces(n, size)
             c == Chunks(s, size)
  <1>1. n \in Nat /\ m \in Nat
    BY PieceFacts
  <1>2. c = [k \in 1 .. m |-> SubSeq(s, (k - 1) * size + 1, PieceEnd(k, n, size))]
    BY DEF Chunks, Pieces, PieceEnd
  <1>3. ASSUME NEW k \in 1 .. m
        PROVE  /\ c[k] \in Seq(X)
               /\ PieceLength(k, n, size) \in 1 .. size
               /\ Len(c[k]) = PieceLength(k, n, size)
               /\ \A i \in 1 .. PieceLength(k, n, size) :
                   /\ (k - 1) * size + i \in 1 .. n
                   /\ c[k][i] = s[(k - 1) * size + i]
    <2> DEFINE a == (k - 1) * size
               e == PieceEnd(k, n, size)
    <2>1. a \in Nat /\ a < n /\ k * size = a + size /\ k * size \in Nat
      <3>1. k - 1 \in Nat /\ k = (k - 1) + 1 /\ k - 1 < m
        BY <1>1
      <3>2. a < n
        BY <1>1, <3>1, PieceFacts
      <3>3. a \in Nat
        BY <3>1
      <3>4. k * size = a + size
        BY <3>1
      <3>. QED
        BY <3>2, <3>3, <3>4
    <2>2. e \in Nat /\ a + 1 <= e /\ e <= n /\ e - a <= size
      BY <2>1, <1>1 DEF PieceEnd
    <2>3. c[k] = SubSeq(s, a + 1, e)
      BY <1>2
    <2>4. PieceLength(k, n, size) = e - a
      BY DEF PieceLength
    <2>. HIDE DEF a, e, c, n, m
    <2>5. /\ SubSeq(s, a + 1, e) \in Seq(X)
          /\ Len(SubSeq(s, a + 1, e)) = e - a
          /\ \A i \in 1 .. e - a : SubSeq(s, a + 1, e)[i] = s[a + i]
      BY <2>1, <2>2 DEF n
    <2>6. ASSUME NEW i \in 1 .. e - a PROVE a + i \in 1 .. n
      BY <2>1, <2>2, <1>1
    <2>7. a = (k - 1) * size
      BY DEF a
    <2>8. e - a \in 1 .. size
      BY <2>1, <2>2
    <2>. QED
      BY <2>3, <2>4, <2>5, <2>6, <2>7, <2>8
  <1>4. c \in Seq(Seq(X)) /\ Len(c) = m
    <2>1. \A k \in 1 .. m : c[k] \in Seq(X)
      BY <1>3
    <2>. HIDE DEF m, n
    <2>2. DOMAIN c = 1 .. m
      BY <1>2
    <2>. HIDE DEF c
    <2>3. c = [k \in 1 .. m |-> c[k]]
      BY <1>2
    <2>. QED
      BY <1>1, <2>1, <2>2, <2>3
  <1>. QED
    BY <1>3, <1>4

-----------------------------------------------------------------------------
(* A concatenation of sequences.                                           *)

\* F[i] is the concatenation of the first i sequences of g.
ConcatenatesUpTo(F, g, n) ==
  \A i \in 1 .. n : F[i] = IF i = 1 THEN g[i] ELSE F[i - 1] \o g[i]

\* The concatenations of the first sequences are a function.
LEMMA ConcatenationExists ==
  ASSUME NEW X, NEW g \in Seq(Seq(X)), NEW n \in 1 .. Len(g)
  PROVE  \E F \in [1 .. n -> Seq(X)] : ConcatenatesUpTo(F, g, n)
PROOF
  <1> DEFINE Good(k) == \E F \in [1 .. k -> Seq(X)] : ConcatenatesUpTo(F, g, k)
             T == { k \in 1 .. Len(g) : ~Good(k) }
  <1>1. SUFFICES ASSUME T # {} PROVE FALSE
    OBVIOUS
  <1>2. PICK k \in T : \A j \in T : k <= j
    BY <1>1, SmallestNumber, T \subseteq Nat
  <1>3. CASE k = 1
    <2>1. [i \in 1 .. 1 |-> g[1]] \in [1 .. 1 -> Seq(X)]
      BY <1>2
    <2>2. ConcatenatesUpTo([i \in 1 .. 1 |-> g[1]], g, 1)
      BY DEF ConcatenatesUpTo
    <2>. QED
      BY <1>2, <1>3, <2>1, <2>2
  <1>4. CASE k > 1
    <2>1. k - 1 \in 1 .. Len(g) /\ k - 1 \notin T
      <3>1. k \in 1 .. Len(g) /\ ~(k <= k - 1)
        BY <1>2
      <3>2. k - 1 \notin T
        <4>. HIDE DEF T
        <4>. QED
          BY <1>2, <3>1
      <3>. QED
        BY <1>4, <3>1, <3>2
    <2>2. PICK F \in [1 .. k - 1 -> Seq(X)] : ConcatenatesUpTo(F, g, k - 1)
      BY <2>1
    <2> DEFINE G == [i \in 1 .. k |-> IF i = k THEN F[k - 1] \o g[k] ELSE F[i]]
    <2>3. F[k - 1] \in Seq(X) /\ g[k] \in Seq(X)
      BY <1>2, <1>4, <2>1
    <2>4. F[k - 1] \o g[k] \in Seq(X)
      BY <2>3
    <2>5. G \in [1 .. k -> Seq(X)]
      BY <2>2, <2>4, <1>2
    <2>6. ConcatenatesUpTo(G, g, k)
      <3>1. k \in Nat /\ k > 1
        BY <1>2, <1>4
      <3>2. \A i \in 1 .. k : G[i] = IF i = k THEN F[k - 1] \o g[k] ELSE F[i]
        OBVIOUS
      <3>. HIDE DEF G
      <3>3. ASSUME NEW i \in 1 .. k
            PROVE  G[i] = IF i = 1 THEN g[i] ELSE G[i - 1] \o g[i]
        <4>1. CASE i = k
          <5>1. G[k] = F[k - 1] \o g[k] /\ G[k - 1] = F[k - 1]
            BY <3>1, <3>2, k \in 1 .. k, k - 1 \in 1 .. k, k - 1 # k
          <5>2. G[k] = G[k - 1] \o g[k] /\ k # 1
            BY <5>1, <3>1
          <5>. QED
            BY <5>2, <4>1, Zenon
        <4>2. CASE i < k
          <5>1. i \in 1 .. k - 1
            BY <4>2, <3>1
          <5>2. F[i] = IF i = 1 THEN g[i] ELSE F[i - 1] \o g[i]
            BY <2>2, <5>1 DEF ConcatenatesUpTo
          <5>3. G[i] = F[i] /\ (i # 1 => G[i - 1] = F[i - 1])
            BY <5>1, <3>1, <3>2, i # 1 => i - 1 \in 1 .. k - 1
          <5>. QED
            BY <5>2, <5>3
        <4>. QED
          BY <4>1, <4>2, <3>1
      <3>. QED
        BY <3>3 DEF ConcatenatesUpTo
    <2>. QED
      BY <1>2, <2>5, <2>6
  <1>. QED
    BY <1>2, <1>3, <1>4

\* Only one function is.
LEMMA ConcatenationUnique ==
  ASSUME NEW n \in Nat, NEW F, NEW G, NEW g,
         ConcatenatesUpTo(F, g, n), ConcatenatesUpTo(G, g, n)
  PROVE  \A i \in 1 .. n : F[i] = G[i]
PROOF
  <1> DEFINE T == { i \in 1 .. n : F[i] # G[i] }
  <1>1. SUFFICES ASSUME T # {} PROVE FALSE
    OBVIOUS
  <1>2. PICK k \in T : \A j \in T : k <= j
    BY <1>1, SmallestNumber, T \subseteq Nat
  <1>3. CASE k = 1
    BY <1>2, <1>3 DEF ConcatenatesUpTo
  <1>4. CASE k > 1
    <2>1. k - 1 \in 1 .. n /\ k - 1 \notin T
      BY <1>2, <1>4
    <2>2. F[k - 1] = G[k - 1]
      BY <2>1
    <2>3. F[k] = F[k - 1] \o g[k] /\ G[k] = G[k - 1] \o g[k]
      BY <1>2, <1>4 DEF ConcatenatesUpTo
    <2>. QED
      BY <1>2, <2>2, <2>3
  <1>. QED
    BY <1>2, <1>3, <1>4

\* FlattenSeq is the last of them.
LEMMA FlattenIsConcatenation ==
  ASSUME NEW X, NEW g \in Seq(Seq(X)), Len(g) > 0
  PROVE  \E F \in [1 .. Len(g) -> Seq(X)] :
           ConcatenatesUpTo(F, g, Len(g)) /\ FlattenSeq(g) = F[Len(g)]
PROOF
  <1> DEFINE n == Len(g)
             Equation(h) == h = [i \in 1 .. n |-> IF i = 1 THEN g[i] ELSE h[i - 1] \o g[i]]
             flatten == CHOOSE h : Equation(h)
  <1>1. n \in 1 .. Len(g)
    OBVIOUS
  <1>2. PICK F \in [1 .. n -> Seq(X)] : ConcatenatesUpTo(F, g, n)
    BY <1>1, ConcatenationExists
  <1>3. Equation(F)
    <2>1. \A i \in 1 .. n : F[i] = IF i = 1 THEN g[i] ELSE F[i - 1] \o g[i]
      BY <1>2 DEF ConcatenatesUpTo
    <2>2. F = [i \in 1 .. n |-> F[i]]
      BY <1>2
    <2>. QED
      BY <2>1, <2>2
  <1>4. Equation(flatten)
    BY <1>3
  <1>5. FlattenSeq(g) = flatten[n]
    BY DEF FlattenSeq
  <1>6. ConcatenatesUpTo(flatten, g, n)
    <2>. HIDE DEF flatten
    <2>. QED
      BY <1>4 DEF ConcatenatesUpTo
  <1>7. flatten[n] = F[n]
    <2>. HIDE DEF flatten
    <2>. QED
      BY <1>1, <1>2, <1>6, ConcatenationUnique
  <1>. QED
    BY <1>2, <1>5, <1>7

-----------------------------------------------------------------------------
(* The records of a file.                                                  *)

Bytes == 0 .. 255

\* What the proofs need of the number 65536.
LEMMA MemorySizeFacts == MemorySize \in Nat /\ MemorySize = 256 * 256
PROOF
  BY DEF MemorySize

\* An address is a number.
LEMMA AddressIsNat ==
  ASSUME NEW w \in 0 .. MemorySize - 1
  PROVE  w \in Nat /\ w < MemorySize
PROOF
  <1>1. MemorySize \in Nat
    BY MemorySizeFacts
  <1>. QED
    BY <1>1

\* What is said of the sizes.
LEMMA SizeFacts ==
  /\ RecordMax \in Nat /\ RecordMax > 0 /\ RecordMax <= 255
  /\ SectorData \in Nat /\ SectorData > 0
  /\ BootTracks \in Nat /\ BootTracks > 0 /\ BootTracks <= 128
  /\ BootSectors \in Nat /\ BootSectors > 0 /\ BootSectors <= 16
PROOF
  BY BootAssumption

\* What is said of a file.
LEMMA FileFacts ==
  ASSUME NEW f \in Files
  PROVE  /\ f.bytes \in Seq(Bytes) /\ Len(f.bytes) \in Nat
         /\ f.address \in 0 .. MemorySize - 1 /\ f.entry \in 0 .. MemorySize - 1
         /\ f.address + Len(f.bytes) <= MemorySize
PROOF
  <1>1. f.bytes \in Seq(Bytes) /\ {f.address, f.entry} \subseteq 0 .. MemorySize - 1
    BY BootAssumption DEF Bytes
  <1>2. f.address + Len(f.bytes) <= MemorySize
    BY FilesFit DEF Fits
  <1>. QED
    BY <1>1, <1>2

\* A file leaves room on its drive.
LEMMA FileFits ==
  ASSUME NEW f \in Files
  PROVE  BootSectors + Len(Chunks(Records(f), SectorData)) < BootTracks * BootSectors
PROOF
  BY FilesFit DEF Fits

\* The elements of a concatenation.
LEMMA ConcatenationFacts ==
  ASSUME NEW X, NEW s \in Seq(X), NEW t \in Seq(X)
  PROVE  /\ s \o t \in Seq(X)
         /\ Len(s \o t) = Len(s) + Len(t)
         /\ \A i \in 1 .. Len(s) : (s \o t)[i] = s[i]
         /\ \A i \in 1 .. Len(t) : (s \o t)[Len(s) + i] = t[i]
PROOF
  OBVIOUS

\* An address as two bytes.
LEMMA BigEndianFacts ==
  ASSUME NEW w \in 0 .. MemorySize - 1
  PROVE  /\ BigEndian(w) = <<w \div 256, w % 256>>
         /\ w \div 256 \in Bytes /\ w % 256 \in Bytes
         /\ BigEndian(w) \in Seq(Bytes) /\ Len(BigEndian(w)) = 2
         /\ BigEndian(w)[1] = w \div 256 /\ BigEndian(w)[2] = w % 256
PROOF
  <1>1. w \div 256 \in Bytes /\ w % 256 \in Bytes
    <2>1. w \in Nat /\ w < 256 * 256
      <3>1. w \in Nat /\ w < MemorySize
        BY AddressIsNat
      <3>. QED
        BY <3>1, MemorySizeFacts
    <2>2. /\ w \div 256 \in Nat /\ w % 256 \in 0 .. 255
          /\ w = 256 * (w \div 256) + (w % 256)
      BY <2>1, DivisionFacts
    <2>. QED
      BY <2>1, <2>2 DEF Bytes
  <1>. QED
    BY <1>1 DEF BigEndian

\* The k-th of the records of a file, their number and the bytes of each.
RecordCount(f) == Pieces(Len(f.bytes), RecordMax)
RecordBytes(f, k) == PieceLength(k, Len(f.bytes), RecordMax)
RecordOf(f, k) ==
  <<2>> \o BigEndian(f.address + (k - 1) * RecordMax)
        \o <<Len(Chunks(f.bytes, RecordMax)[k])>> \o Chunks(f.bytes, RecordMax)[k]

\* The byte at an offset of a record.
RecordByte(f, k, j) ==
  CASE j = 1 -> 2
    [] j = 2 -> (f.address + (k - 1) * RecordMax) \div 256
    [] j = 3 -> (f.address + (k - 1) * RecordMax) % 256
    [] j = 4 -> RecordBytes(f, k)
    [] OTHER -> f.bytes[(k - 1) * RecordMax + (j - 4)]

\* Where the bytes of a record lie in the file.
LEMMA RecordBounds ==
  ASSUME NEW f \in Files, NEW k \in 1 .. RecordCount(f)
  PROVE  /\ RecordCount(f) \in Nat
         /\ RecordBytes(f, k) \in 1 .. RecordMax
         /\ (k - 1) * RecordMax \in Nat
         /\ (k - 1) * RecordMax + RecordBytes(f, k) <= Len(f.bytes)
         /\ f.address + (k - 1) * RecordMax \in 0 .. MemorySize - 1
         /\ \A i \in 1 .. RecordBytes(f, k) : f.bytes[(k - 1) * RecordMax + i] \in Bytes
PROOF
  <1> DEFINE a == (k - 1) * RecordMax
             l == RecordBytes(f, k)
             n == Len(f.bytes)
  <1>1. n \in Nat /\ RecordMax \in Nat /\ RecordMax > 0 /\ f.bytes \in Seq(Bytes)
    BY FileFacts, SizeFacts
  <1>2. RecordCount(f) \in Nat /\ a < n
    BY <1>1, PieceFacts DEF RecordCount
  <1>3. k - 1 \in Nat
    BY <1>2
  <1>4. a \in Nat
    BY <1>1, <1>3
  <1>5. l \in 1 .. RecordMax /\ \A i \in 1 .. l : a + i \in 1 .. n
    BY <1>1, ChunksFacts DEF RecordCount, RecordBytes
  <1>. HIDE DEF a, l, n
  <1>6. a + l <= n
    BY <1>1, <1>4, <1>5
  <1>7. f.address + a \in 0 .. MemorySize - 1
    <2>1. f.address \in 0 .. MemorySize - 1 /\ f.address + n <= MemorySize
      BY FileFacts DEF n
    <2>2. MemorySize \in Nat
      BY MemorySizeFacts
    <2>. QED
      BY <1>1, <1>2, <1>4, <2>1, <2>2
  <1>8. \A i \in 1 .. l : f.bytes[a + i] \in Bytes
    BY <1>1, <1>5 DEF n
  <1>. QED
    BY <1>2, <1>4, <1>5, <1>6, <1>7, <1>8 DEF a, l, n

\* A record is its type, address, count and bytes.
LEMMA RecordFacts ==
  ASSUME NEW f \in Files, NEW k \in 1 .. RecordCount(f)
  PROVE  /\ RecordOf(f, k) \in Seq(Bytes)
         /\ Len(RecordOf(f, k)) = 4 + RecordBytes(f, k)
         /\ \A j \in 1 .. 4 + RecordBytes(f, k) :
              RecordOf(f, k)[j] = RecordByte(f, k, j)
PROOF
  <1> DEFINE w == f.address + (k - 1) * RecordMax
             p == Chunks(f.bytes, RecordMax)[k]
             l == RecordBytes(f, k)
  <1>1. w \in 0 .. MemorySize - 1 /\ l \in 1 .. 255
    <2>1. w \in 0 .. MemorySize - 1 /\ l \in 1 .. RecordMax
      BY RecordBounds
    <2>. HIDE DEF w, l
    <2>. QED
      BY <2>1, SizeFacts
  <1>2. /\ p \in Seq(Bytes) /\ Len(p) = l
        /\ \A i \in 1 .. l : p[i] = f.bytes[(k - 1) * RecordMax + i]
    <2> DEFINE s == f.bytes
               c == Chunks(s, RecordMax)
    <2>1. s \in Seq(Bytes) /\ RecordMax \in Nat /\ RecordMax > 0
      BY FileFacts, SizeFacts
    <2>. HIDE DEF s
    <2>2. /\ c \in Seq(Seq(Bytes)) /\ Len(c) = Pieces(Len(s), RecordMax)
          /\ \A i \in 1 .. Pieces(Len(s), RecordMax) :
               /\ Len(c[i]) = PieceLength(i, Len(s), RecordMax)
               /\ \A b \in 1 .. PieceLength(i, Len(s), RecordMax) :
                    c[i][b] = s[(i - 1) * RecordMax + b]
      BY <2>1, ChunksFacts
    <2>3. k \in 1 .. Pieces(Len(s), RecordMax)
      BY DEF s, RecordCount
    <2>. HIDE DEF c
    <2>4. c[k] \in Seq(Bytes)
      BY <2>2, <2>3
    <2>5. l = PieceLength(k, Len(s), RecordMax) /\ p = c[k]
      BY DEF s, c, RecordBytes
    <2>. QED
      BY <2>2, <2>3, <2>4, <2>5 DEF s
  <1>3. \A i \in 1 .. l : p[i] = f.bytes[(k - 1) * RecordMax + i]
    BY <1>2
  <1> DEFINE head == <<2>> \o BigEndian(w) \o <<l>>
  <1>4. /\ head \in Seq(Bytes) /\ Len(head) = 4
        /\ head[1] = 2 /\ head[2] = w \div 256 /\ head[3] = w % 256 /\ head[4] = l
    <2>. HIDE DEF w, l
    <2>1. <<2>> \in Seq(Bytes) /\ <<l>> \in Seq(Bytes)
      BY <1>1 DEF Bytes
    <2> DEFINE two == <<2>> \o BigEndian(w)
    <2>2. /\ two \in Seq(Bytes) /\ Len(two) = 3
          /\ two[1] = 2 /\ two[2] = w \div 256 /\ two[3] = w % 256
      <3>1. /\ two \in Seq(Bytes) /\ Len(two) = 1 + 2
            /\ two[1] = <<2>>[1] /\ two[1 + 1] = BigEndian(w)[1] /\ two[1 + 2] = BigEndian(w)[2]
        BY <2>1, <1>1, BigEndianFacts, ConcatenationFacts, Len(<<2>>) = 1
      <3>. QED
        BY <3>1, <1>1, BigEndianFacts
    <2>. HIDE DEF two
    <2>3. head = two \o <<l>>
      BY DEF two
    <2>4. /\ two \o <<l>> \in Seq(Bytes) /\ Len(two \o <<l>>) = Len(two) + Len(<<l>>)
          /\ \A i \in 1 .. Len(two) : (two \o <<l>>)[i] = two[i]
          /\ \A i \in 1 .. Len(<<l>>) : (two \o <<l>>)[Len(two) + i] = <<l>>[i]
      BY <2>1, <2>2, ConcatenationFacts
    <2>5. Len(<<l>>) = 1 /\ <<l>>[1] = l
      OBVIOUS
    <2>6. (two \o <<l>>)[3 + 1] = l
      BY <2>2, <2>4, <2>5
    <2>7. \A i \in 1 .. 3 : (two \o <<l>>)[i] = two[i]
      BY <2>2, <2>4
    <2>8. /\ (two \o <<l>>)[1] = 2 /\ (two \o <<l>>)[2] = w \div 256
          /\ (two \o <<l>>)[3] = w % 256
      BY <2>2, <2>7
    <2>9. two \o <<l>> \in Seq(Bytes) /\ Len(two \o <<l>>) = 4
      BY <2>2, <2>4, <2>5
    <2>10. (two \o <<l>>)[4] = l
      BY <2>6, 3 + 1 = 4
    <2>. QED
      BY <2>3, <2>8, <2>9, <2>10
  <1>5. RecordOf(f, k) = head \o p
    BY <1>2 DEF RecordOf
  <1>. HIDE DEF head, p, w, l
  <1>6. /\ head \o p \in Seq(Bytes) /\ Len(head \o p) = 4 + l
        /\ \A i \in 1 .. 4 : (head \o p)[i] = head[i]
        /\ \A i \in 1 .. l : (head \o p)[4 + i] = p[i]
    <2>1. /\ head \o p \in Seq(Bytes) /\ Len(head \o p) = Len(head) + Len(p)
          /\ \A i \in 1 .. Len(head) : (head \o p)[i] = head[i]
          /\ \A i \in 1 .. Len(p) : (head \o p)[Len(head) + i] = p[i]
      <3>1. head \in Seq(Bytes)
        BY <1>4
      <3>2. p \in Seq(Bytes)
        BY <1>2
      <3>. QED
        BY <3>1, <3>2, ConcatenationFacts
    <2>. QED
      BY <1>2, <1>4, <2>1
  <1>7. ASSUME NEW j \in 1 .. 4 + l PROVE (head \o p)[j] = RecordByte(f, k, j)
    <2>1. CASE j \in 1 .. 4
      <3>1. (head \o p)[j] = head[j]
        BY <2>1, <1>6
      <3>2. j = 1 \/ j = 2 \/ j = 3 \/ j = 4
        BY <2>1
      <3>3. /\ RecordByte(f, k, 1) = 2 /\ RecordByte(f, k, 2) = w \div 256
            /\ RecordByte(f, k, 3) = w % 256 /\ RecordByte(f, k, 4) = l
        BY DEF RecordByte, w, l
      <3>. QED
        BY <3>1, <3>2, <3>3, <1>4
    <2>2. CASE j > 4
      <3>1. j - 4 \in 1 .. l /\ j = 4 + (j - 4) /\ j \in Nat
        BY <2>2, <1>1
      <3>2. (head \o p)[4 + (j - 4)] = p[j - 4]
        BY <3>1, <1>6
      <3>3. p[j - 4] = f.bytes[(k - 1) * RecordMax + (j - 4)]
        BY <3>1, <1>3
      <3>4. RecordByte(f, k, j) = f.bytes[(k - 1) * RecordMax + (j - 4)]
        BY <2>2, <3>1 DEF RecordByte
      <3>. QED
        BY <3>1, <3>2, <3>3, <3>4
    <2>3. l \in Nat
      BY <1>1
    <2>4. j \in 1 .. 4 \/ j > 4
      BY <2>3
    <2>. QED
      BY <2>1, <2>2, <2>4
  <1>. QED
    BY <1>5, <1>6, <1>7 DEF l

\* How many bytes the first k records take.
After(f, k) == 4 * k + PieceEnd(k, Len(f.bytes), RecordMax)

\* A record starts where the one before ends.
LEMMA AfterFacts ==
  ASSUME NEW f \in Files
  PROVE  /\ RecordCount(f) \in Nat
         /\ After(f, 0) = 0
         /\ After(f, RecordCount(f)) = 4 * RecordCount(f) + Len(f.bytes)
         /\ \A k \in 0 .. RecordCount(f) : After(f, k) \in Nat
         /\ \A k \in 1 .. RecordCount(f) :
              /\ k - 1 \in 0 .. RecordCount(f)
              /\ After(f, k) = After(f, k - 1) + 4 + RecordBytes(f, k)
         /\ \A j, k \in 0 .. RecordCount(f) : j <= k => After(f, j) <= After(f, k)
PROOF
  <1> DEFINE n == Len(f.bytes)
             m == RecordCount(f)
  <1>1. n \in Nat /\ RecordMax \in Nat /\ RecordMax > 0
    BY FileFacts, SizeFacts
  <1>2. m \in Nat /\ n <= m * RecordMax /\ \A k \in Nat : k < m => k * RecordMax < n
    BY <1>1, PieceFacts DEF RecordCount
  <1>3. After(f, 0) = 0
    <2>1. PieceEnd(0, n, RecordMax) = 0
      BY <1>1 DEF PieceEnd
    <2>. QED
      BY <2>1 DEF After
  <1>. HIDE DEF n, m
  <1>4. After(f, m) = 4 * m + n
    <2>1. ~(m * RecordMax < n)
      <3>1. m * RecordMax \in Nat
        BY <1>1, <1>2
      <3>. QED
        BY <1>1, <1>2, <3>1
    <2>. QED
      BY <2>1 DEF After, PieceEnd, n
  <1>5. ASSUME NEW k \in 0 .. m PROVE After(f, k) \in Nat /\ PieceEnd(k, n, RecordMax) \in Nat
    <2>1. k \in Nat
      BY <1>2
    <2>2. k * RecordMax \in Nat
      BY <1>1, <2>1
    <2>3. PieceEnd(k, n, RecordMax) \in Nat
      BY <1>1, <2>2 DEF PieceEnd
    <2>. QED
      BY <2>1, <2>3 DEF After, n
  <1>6. ASSUME NEW k \in 1 .. m
        PROVE  /\ k - 1 \in 0 .. m
               /\ After(f, k) = After(f, k - 1) + 4 + RecordBytes(f, k)
    <2>1. k - 1 \in Nat /\ k - 1 < m /\ k \in Nat /\ k \in 0 .. m
      BY <1>2
    <2>2. PieceEnd(k - 1, n, RecordMax) = (k - 1) * RecordMax /\ (k - 1) * RecordMax \in Nat
      BY <1>1, <1>2, <2>1 DEF PieceEnd
    <2> DEFINE e == PieceEnd(k, n, RecordMax)
               a == (k - 1) * RecordMax
    <2>3. RecordBytes(f, k) = e - a
      BY DEF RecordBytes, PieceLength, n
    <2>4. After(f, k) = 4 * k + e /\ After(f, k - 1) = 4 * (k - 1) + a
      BY <2>2 DEF After, n
    <2>5. e \in Nat /\ a \in Nat
      BY <1>5, <2>1, <2>2
    <2>. HIDE DEF e, a
    <2>6. 4 * k = 4 * (k - 1) + 4 /\ 4 * (k - 1) \in Nat
      BY <2>1
    <2>7. 4 * k + e = (4 * (k - 1) + a) + 4 + (e - a)
      BY <2>5, <2>6
    <2>8. k - 1 \in 0 .. m
      BY <1>2, <2>1
    <2>. QED
      BY <2>3, <2>4, <2>7, <2>8
  <1>7. ASSUME NEW j \in 0 .. m, NEW k \in 0 .. m, j <= k PROVE After(f, j) <= After(f, k)
    <2>1. PICK i \in Nat : k = j + i
      <3>1. k - j \in Nat /\ k = j + (k - j)
        BY <1>2, <1>7
      <3>. QED
        BY <3>1
    <2>2. k * RecordMax = j * RecordMax + i * RecordMax
      BY <1>1, <1>2, <2>1
    <2>3. j * RecordMax \in Nat /\ i * RecordMax \in Nat /\ j \in Nat
      BY <1>1, <1>2
    <2>4. PieceEnd(j, n, RecordMax) <= PieceEnd(k, n, RecordMax)
      BY <1>1, <2>2, <2>3 DEF PieceEnd
    <2>5. 4 * j <= 4 * k /\ 4 * j \in Nat /\ 4 * k \in Nat
      BY <2>1, <2>3
    <2>6. After(f, j) = 4 * j + PieceEnd(j, n, RecordMax)
          /\ After(f, k) = 4 * k + PieceEnd(k, n, RecordMax)
      BY DEF After, n
    <2>. QED
      BY <1>5, <2>4, <2>5, <2>6
  <1>. QED
    BY <1>2, <1>3, <1>4, <1>5, <1>6, <1>7 DEF n, m

\* The concatenation of the first k records holds each of them at its place.
HoldsRecords(f, s, k) ==
  /\ s \in Seq(Bytes)
  /\ Len(s) = After(f, k)
  /\ \A r \in 1 .. k : \A j \in 1 .. 4 + RecordBytes(f, r) :
       s[After(f, r - 1) + j] = RecordByte(f, r, j)

\* One record more.
LEMMA OneRecordMore ==
  ASSUME NEW f \in Files, NEW k \in 1 .. RecordCount(f), NEW s,
         HoldsRecords(f, s, k - 1)
  PROVE  HoldsRecords(f, s \o RecordOf(f, k), k)
PROOF
  <1> DEFINE t == RecordOf(f, k)
             l == RecordBytes(f, k)
             a == After(f, k - 1)
  <1>1. t \in Seq(Bytes) /\ Len(t) = 4 + l /\ \A j \in 1 .. 4 + l : t[j] = RecordByte(f, k, j)
    BY RecordFacts
  <1>2. s \in Seq(Bytes) /\ Len(s) = a
    BY DEF HoldsRecords
  <1>3. l \in Nat /\ k \in Nat /\ k > 0 /\ RecordCount(f) \in Nat
    <2>1. l \in 1 .. RecordMax /\ RecordCount(f) \in Nat
      BY RecordBounds
    <2>. QED
      BY <2>1, SizeFacts
  <1>4. After(f, k) = a + 4 + l
    BY AfterFacts
  <1>5. a \in Nat
    BY <1>3, AfterFacts, k - 1 \in 0 .. RecordCount(f)
  <1>. HIDE DEF t, l, a
  <1>6. /\ s \o t \in Seq(Bytes) /\ Len(s \o t) = Len(s) + Len(t)
        /\ \A i \in 1 .. Len(s) : (s \o t)[i] = s[i]
        /\ \A i \in 1 .. Len(t) : (s \o t)[Len(s) + i] = t[i]
    <2>1. s \in Seq(Bytes) /\ t \in Seq(Bytes)
      BY <1>1, <1>2
    <2>. QED
      BY <2>1, ConcatenationFacts
  <1>7. Len(s \o t) = After(f, k)
    BY <1>1, <1>2, <1>3, <1>4, <1>5, <1>6
  <1>8. ASSUME NEW r \in 1 .. k, NEW j \in 1 .. 4 + RecordBytes(f, r)
        PROVE  (s \o t)[After(f, r - 1) + j] = RecordByte(f, r, j)
    <2>1. CASE r = k
      <3>1. j \in 1 .. 4 + l
        BY <2>1 DEF l
      <3>2. (s \o t)[a + j] = t[j]
        BY <1>1, <1>2, <1>6, <3>1
      <3>. QED
        BY <1>1, <2>1, <3>1, <3>2 DEF a
    <2>2. CASE r < k
      <3>1. r \in 1 .. k - 1 /\ r \in 1 .. RecordCount(f)
            /\ r \in 0 .. RecordCount(f) /\ k - 1 \in 0 .. RecordCount(f) /\ r <= k - 1
        BY <1>3, <2>2
      <3>2. After(f, r) = After(f, r - 1) + 4 + RecordBytes(f, r)
            /\ After(f, r - 1) \in Nat /\ After(f, r) <= a
        BY <3>1, AfterFacts DEF a
      <3>3. RecordBytes(f, r) \in Nat
        <4>1. RecordBytes(f, r) \in 1 .. RecordMax
          BY <3>1, RecordBounds
        <4>. QED
          BY <4>1, SizeFacts
      <3>4. After(f, r - 1) + j \in 1 .. a
        BY <1>5, <3>2, <3>3
      <3>5. (s \o t)[After(f, r - 1) + j] = s[After(f, r - 1) + j]
        BY <1>2, <1>6, <3>4
      <3>6. s[After(f, r - 1) + j] = RecordByte(f, r, j)
        BY <3>1 DEF HoldsRecords
      <3>. QED
        BY <3>5, <3>6
    <2>3. r = k \/ r < k
      BY <1>3
    <2>. QED
      BY <2>1, <2>2, <2>3
  <1>. QED
    BY <1>6, <1>7, <1>8 DEF HoldsRecords, t

\* A function on the first numbers is a sequence.
LEMMA FunctionIsSequence ==
  ASSUME NEW X, NEW m \in Nat, NEW h \in [1 .. m -> X]
  PROVE  h \in Seq(X) /\ Len(h) = m
PROOF
  OBVIOUS

\* The records of a file, one behind the other.
LEMMA FlatRecords ==
  ASSUME NEW f \in Files,
         NEW g, g = [k \in 1 .. RecordCount(f) |-> RecordOf(f, k)]
  PROVE  HoldsRecords(f, FlattenSeq(g), RecordCount(f))
PROOF
  <1> DEFINE m == RecordCount(f)
  <1>1. m \in Nat
    BY AfterFacts
  <1>2. g \in Seq(Seq(Bytes)) /\ Len(g) = m /\ \A k \in 1 .. m : g[k] = RecordOf(f, k)
    <2>1. \A k \in 1 .. m : RecordOf(f, k) \in Seq(Bytes)
      BY RecordFacts
    <2>. HIDE DEF m
    <2>2. g = [k \in 1 .. m |-> RecordOf(f, k)]
      BY DEF m
    <2>3. DOMAIN g = 1 .. m /\ \A k \in 1 .. m : g[k] = RecordOf(f, k)
      BY <2>2
    <2>4. g \in [1 .. m -> Seq(Bytes)]
      BY <2>1, <2>2
    <2>5. g \in Seq(Seq(Bytes)) /\ Len(g) = m
      BY <1>1, <2>4, FunctionIsSequence
    <2>. QED
      BY <2>3, <2>5
  <1>. HIDE DEF m
  <1>3. HoldsRecords(f, <<>>, 0)
    BY AfterFacts DEF HoldsRecords
  <1>4. CASE m = 0
    <2>1. g = <<>>
      BY <1>2, <1>4, EmptySeq
    <2>2. FlattenSeq(g) = <<>>
      BY <2>1 DEF FlattenSeq
    <2>. QED
      BY <1>3, <1>4, <2>2 DEF m
  <1>5. CASE m > 0
    <2>1. PICK F \in [1 .. m -> Seq(Bytes)] :
            ConcatenatesUpTo(F, g, m) /\ FlattenSeq(g) = F[m]
      BY <1>2, <1>5, FlattenIsConcatenation
    <2> DEFINE T == { k \in 1 .. m : ~HoldsRecords(f, F[k], k) }
    <2>2. SUFFICES ASSUME T # {} PROVE FALSE
      BY <1>1, <1>5, <2>1 DEF m
    <2>3. PICK k \in T : \A j \in T : k <= j
      BY <2>2, SmallestNumber, T \subseteq Nat
    <2>4. k \in 1 .. m /\ ~HoldsRecords(f, F[k], k) /\ k \in Nat
      BY <2>3
    <2>5. CASE k = 1
      <3>1. F[1] = g[1]
        BY <2>1, <2>4, <2>5 DEF ConcatenatesUpTo
      <3>2. <<>> \o RecordOf(f, 1) = RecordOf(f, 1)
        <4>1. RecordOf(f, 1) \in Seq(Bytes)
          BY <2>4, <2>5, RecordFacts DEF m
        <4>. QED
          BY <4>1
      <3>3. HoldsRecords(f, <<>> \o RecordOf(f, 1), 1)
        BY <1>3, <2>4, <2>5, OneRecordMore, 1 - 1 = 0 DEF m
      <3>. QED
        BY <1>2, <2>4, <2>5, <3>1, <3>2, <3>3
    <2>6. CASE k > 1
      <3>1. k - 1 \in 1 .. m /\ ~(k <= k - 1) /\ k # 1
        BY <1>1, <2>4, <2>6
      <3>2. HoldsRecords(f, F[k - 1], k - 1)
        BY <2>3, <3>1
      <3>3. F[k] = F[k - 1] \o RecordOf(f, k)
        BY <1>2, <2>1, <2>4, <3>1 DEF ConcatenatesUpTo
      <3>4. HoldsRecords(f, F[k - 1] \o RecordOf(f, k), k)
        BY <2>4, <3>2, OneRecordMore DEF m
      <3>. QED
        BY <2>4, <3>3, <3>4
    <2>. QED
      BY <2>4, <2>5, <2>6
  <1>. QED
    BY <1>1, <1>4, <1>5

\* Where the transfer record starts.
LastStart(f) == After(f, RecordCount(f))

\* What the image builder makes of a file: its records, and the transfer record.
LEMMA StreamFacts ==
  ASSUME NEW f \in Files
  PROVE  /\ Records(f) \in Seq(Bytes)
         /\ LastStart(f) \in Nat
         /\ Len(Records(f)) = LastStart(f) + 3
         /\ \A k \in 1 .. RecordCount(f) : \A j \in 1 .. 4 + RecordBytes(f, k) :
              Records(f)[After(f, k - 1) + j] = RecordByte(f, k, j)
         /\ Records(f)[LastStart(f) + 1] = 22
         /\ Records(f)[LastStart(f) + 2] = f.entry \div 256
         /\ Records(f)[LastStart(f) + 3] = f.entry % 256
PROOF
  <1> DEFINE m == RecordCount(f)
             g == [k \in 1 .. m |-> RecordOf(f, k)]
             s == FlattenSeq(g)
             a == LastStart(f)
             w == BigEndian(f.entry)
  <1>1. m \in Nat /\ a \in Nat
    BY AfterFacts DEF LastStart
  <1>2. HoldsRecords(f, s, m)
    BY FlatRecords
  <1>3. w \in Seq(Bytes) /\ Len(w) = 2 /\ w[1] = f.entry \div 256 /\ w[2] = f.entry % 256
    BY FileFacts, BigEndianFacts
  <1>4. Records(f) = s \o <<22>> \o w
    <2> DEFINE parts == Chunks(f.bytes, RecordMax)
    <2>1. Records(f) = FlattenSeq([k \in DOMAIN parts |-> RecordOf(f, k)]) \o <<22>> \o w
      BY DEF Records, RecordOf
    <2>2. DOMAIN parts = 1 .. m
      <3>1. f.bytes \in Seq(Bytes) /\ RecordMax \in Nat /\ RecordMax > 0
        BY FileFacts, SizeFacts
      <3>. QED
        BY <3>1, ChunksFacts DEF Chunks, RecordCount, Pieces
    <2>. QED
      BY <2>1, <2>2
  <1>. HIDE DEF m, g, s, a, w
  <1> DEFINE u == s \o <<22>>
  <1>5. s \in Seq(Bytes) /\ Len(s) = a
    BY <1>2 DEF HoldsRecords, a, LastStart, m
  <1>6. /\ u \in Seq(Bytes) /\ Len(u) = a + 1 /\ u[a + 1] = 22
        /\ \A i \in 1 .. a : u[i] = s[i]
    <2>1. <<22>> \in Seq(Bytes) /\ Len(<<22>>) = 1 /\ <<22>>[1] = 22
      BY DEF Bytes
    <2>2. s \in Seq(Bytes)
      BY <1>5
    <2>3. /\ u \in Seq(Bytes) /\ Len(u) = Len(s) + Len(<<22>>)
          /\ \A i \in 1 .. Len(s) : u[i] = s[i]
          /\ \A i \in 1 .. Len(<<22>>) : u[Len(s) + i] = <<22>>[i]
      BY <2>1, <2>2, ConcatenationFacts
    <2>. HIDE DEF u
    <2>4. u[a + 1] = 22
      BY <1>5, <2>1, <2>3
    <2>. QED
      BY <1>5, <2>1, <2>3, <2>4
  <1>. HIDE DEF u
  <1>7. /\ u \o w \in Seq(Bytes) /\ Len(u \o w) = a + 3
        /\ \A i \in 1 .. a + 1 : (u \o w)[i] = u[i]
        /\ (u \o w)[a + 2] = w[1] /\ (u \o w)[a + 3] = w[2]
    <2>1. u \in Seq(Bytes) /\ w \in Seq(Bytes)
      BY <1>3, <1>6
    <2>2. /\ u \o w \in Seq(Bytes) /\ Len(u \o w) = Len(u) + Len(w)
          /\ \A i \in 1 .. Len(u) : (u \o w)[i] = u[i]
          /\ \A i \in 1 .. Len(w) : (u \o w)[Len(u) + i] = w[i]
      BY <2>1, ConcatenationFacts
    <2>3. Len(u \o w) = a + 3
      BY <1>1, <1>3, <1>6, <2>2
    <2>4. (u \o w)[(a + 1) + 1] = w[1] /\ (u \o w)[(a + 1) + 2] = w[2]
      BY <1>3, <1>6, <2>2
    <2>5. (a + 1) + 1 = a + 2 /\ (a + 1) + 2 = a + 3
      BY <1>1
    <2>. QED
      BY <1>6, <2>2, <2>3, <2>4, <2>5
  <1>8. Records(f) = u \o w
    BY <1>4 DEF u
  <1>9. ASSUME NEW k \in 1 .. m, NEW j \in 1 .. 4 + RecordBytes(f, k)
        PROVE  Records(f)[After(f, k - 1) + j] = RecordByte(f, k, j)
    <2>1. RecordBytes(f, k) \in Nat
      <3>1. RecordBytes(f, k) \in 1 .. RecordMax
        BY RecordBounds DEF m
      <3>. QED
        BY <3>1, SizeFacts
    <2>2. /\ k - 1 \in 0 .. m /\ k \in 0 .. m /\ m \in 0 .. m /\ k <= m
          /\ After(f, k) = After(f, k - 1) + 4 + RecordBytes(f, k)
          /\ After(f, k - 1) \in Nat
      BY <1>1, AfterFacts DEF m
    <2>3. After(f, k) <= a
      BY <2>2, AfterFacts DEF a, LastStart, m
    <2>4. After(f, k - 1) + j \in 1 .. a
      BY <1>1, <2>1, <2>2, <2>3
    <2>5. (u \o w)[After(f, k - 1) + j] = s[After(f, k - 1) + j]
      BY <1>1, <1>6, <1>7, <2>4
    <2>6. s[After(f, k - 1) + j] = RecordByte(f, k, j)
      BY <1>2 DEF HoldsRecords
    <2>. QED
      BY <1>8, <2>5, <2>6
  <1>10. (u \o w)[a + 1] = 22
    BY <1>1, <1>6, <1>7
  <1>. QED
    BY <1>1, <1>3, <1>7, <1>8, <1>9, <1>10 DEF a, m

-----------------------------------------------------------------------------
(* The sectors of a file.                                                  *)

\* The numbers of the sectors of the volume are its track and sector numbers.
LEMMA TrackSectorFacts ==
  /\ \A n \in Nat : n < BootTracks * BootSectors => TrackSector(n) \in Addresses
  /\ \A n, m \in Nat : TrackSector(n) = TrackSector(m) => n = m
PROOF
  <1>1. ASSUME NEW n \in Nat
        PROVE  /\ n \div BootSectors \in Nat
               /\ n % BootSectors \in 0 .. BootSectors - 1
               /\ n = BootSectors * (n \div BootSectors) + (n % BootSectors)
    BY SizeFacts, DivisionFacts
  <1>2. ASSUME NEW n \in Nat, n < BootTracks * BootSectors
        PROVE  TrackSector(n) \in Addresses
    <2> DEFINE q == n \div BootSectors
               r == n % BootSectors
    <2>1. q \in Nat /\ r \in 0 .. BootSectors - 1 /\ n = BootSectors * q + r
      BY <1>1
    <2>. HIDE DEF q, r
    <2>2. q < BootTracks
      <3>1. SUFFICES ASSUME ~(q < BootTracks) PROVE FALSE
        OBVIOUS
      <3>2. PICK i \in Nat : q = BootTracks + i
        <4>1. q - BootTracks \in Nat /\ q = BootTracks + (q - BootTracks)
          BY <2>1, <3>1, SizeFacts
        <4>. QED
          BY <4>1
      <3>3. BootSectors * q = BootTracks * BootSectors + BootSectors * i
        BY <3>2, SizeFacts
      <3>4. BootSectors * i \in Nat /\ BootTracks * BootSectors \in Nat
        BY SizeFacts
      <3>. QED
        BY <1>2, <2>1, <3>3, <3>4
    <2>3. q \in 0 .. BootTracks - 1 /\ r + 1 \in 1 .. BootSectors
      BY <2>1, <2>2, SizeFacts
    <2>4. TrackSector(n) = <<q, r + 1>>
      BY DEF TrackSector, q, r
    <2>. QED
      BY <2>3, <2>4 DEF Addresses
  <1>3. ASSUME NEW n \in Nat, NEW m \in Nat, TrackSector(n) = TrackSector(m)
        PROVE  n = m
    <2>1. n \div BootSectors = m \div BootSectors
          /\ (n % BootSectors) + 1 = (m % BootSectors) + 1
      BY <1>3 DEF TrackSector
    <2>2. n % BootSectors = m % BootSectors
      <3>1. n % BootSectors \in 0 .. BootSectors - 1 /\ m % BootSectors \in 0 .. BootSectors - 1
        BY <1>1
      <3>. QED
        BY <2>1, <3>1, SizeFacts
    <2>. QED
      BY <1>1, <2>1, <2>2
  <1>. QED
    BY <1>2, <1>3

\* The sectors of a file and where the k-th after the first lies.
SectorCount(f) == Len(Chunks(Records(f), SectorData))
Place(k) == TrackSector(BootSectors + k)

\* Every byte of the stream is in the sector and at the place where it belongs.
LEMMA PackedFacts ==
  ASSUME NEW f \in Files
  PROVE  /\ SectorCount(f) \in Nat
         /\ \A k \in Nat : k * SectorData < Len(Records(f)) => k < SectorCount(f)
         /\ Packed(f).first = Place(0)
         /\ \A k \in 1 .. SectorCount(f) :
              /\ Place(k - 1) \in Addresses
              /\ Packed(f).sectors[Place(k - 1)].link = LinkAfter(k, SectorCount(f))
              /\ \A i \in 1 .. SectorData :
                   (k - 1) * SectorData + i <= Len(Records(f)) =>
                     Packed(f).sectors[Place(k - 1)].data[i] = Records(f)[(k - 1) * SectorData + i]
PROOF
  <1> DEFINE S == Records(f)
             L == Len(S)
             parts == Chunks(S, SectorData)
             t == Pieces(L, SectorData)
  <1>1. S \in Seq(Bytes) /\ SectorData \in Nat /\ SectorData > 0 /\ BootSectors \in Nat
    BY StreamFacts, SizeFacts
  <1>. HIDE DEF S
  <1>2. L \in Nat
    BY <1>1
  <1>3. t \in Nat /\ L <= t * SectorData
    BY <1>1, <1>2, PieceFacts
  <1>4. /\ Len(parts) = t /\ parts \in Seq(Seq(Bytes))
        /\ \A k \in 1 .. t :
              /\ Len(parts[k]) = PieceLength(k, L, SectorData)
              /\ \A i \in 1 .. PieceLength(k, L, SectorData) :
                   parts[k][i] = S[(k - 1) * SectorData + i]
    BY <1>1, ChunksFacts
  <1>5. SectorCount(f) = t
    BY <1>4 DEF SectorCount, S
  <1>. HIDE DEF parts, t, L
  <1>6. DOMAIN parts = 1 .. t
    BY <1>3, <1>4
  <1>7. ASSUME NEW k \in Nat, k * SectorData < L PROVE k < t
    <2>1. SUFFICES ASSUME ~(k < t) PROVE FALSE
      OBVIOUS
    <2>2. PICK i \in Nat : k = t + i
      <3>1. k - t \in Nat /\ k = t + (k - t)
        BY <1>3, <2>1
      <3>. QED
        BY <3>1
    <2>3. k * SectorData = t * SectorData + i * SectorData
      BY <1>1, <1>3, <2>2
    <2>4. i * SectorData \in Nat /\ t * SectorData \in Nat
      BY <1>1, <1>3, <2>2
    <2>. QED
      BY <1>2, <1>3, <1>7, <2>3, <2>4
  <1>8. BootSectors + t < BootTracks * BootSectors
    BY <1>5, FileFits DEF SectorCount
  <1>9. ASSUME NEW k \in 1 .. t
        PROVE  /\ Place(k - 1) \in Addresses
               /\ Packed(f).sectors[Place(k - 1)].link = LinkAfter(k, t)
               /\ Packed(f).sectors[Place(k - 1)].data = Padded(parts[k])
    <2>1. k - 1 \in Nat /\ BootSectors + (k - 1) \in Nat /\ BootSectors + (k - 1) < BootSectors + t
      BY <1>1, <1>3
    <2>2. BootSectors + (k - 1) < BootTracks * BootSectors
      <3>1. BootTracks * BootSectors \in Nat /\ BootSectors + t \in Nat
        BY <1>3, SizeFacts
      <3>. QED
        BY <1>8, <2>1, <3>1
    <2>3. Place(k - 1) \in Addresses
      BY <2>1, <2>2, TrackSectorFacts DEF Place
    <2> DEFINE At(address) ==
                 { j \in DOMAIN parts : TrackSector(BootSectors + j - 1) = address }
    <2>4. At(Place(k - 1)) = {k}
      <3>1. \A j \in 1 .. t : BootSectors + j - 1 \in Nat /\ BootSectors + j - 1 = BootSectors + (j - 1)
        BY <1>1, <1>3
      <3>2. \A j \in 1 .. t : TrackSector(BootSectors + j - 1) = Place(k - 1) => j = k
        <4>1. ASSUME NEW j \in 1 .. t, TrackSector(BootSectors + j - 1) = TrackSector(BootSectors + (k - 1))
              PROVE  j = k
          <5>1. BootSectors + j - 1 = BootSectors + (k - 1)
            BY <2>1, <3>1, <4>1, TrackSectorFacts
          <5>. QED
            BY <1>1, <1>3, <5>1
        <4>. QED
          BY <4>1 DEF Place
      <3>3. TrackSector(BootSectors + k - 1) = Place(k - 1)
        BY <3>1 DEF Place
      <3>. QED
        BY <1>6, <3>2, <3>3
    <2> DEFINE sector(address) ==
                 IF At(address) = {}
                   THEN [link |-> <<0, 0>>, data |-> Padded(<<>>)]
                   ELSE LET j == CHOOSE j \in At(address) : TRUE
                        IN  [link |-> LinkAfter(j, Len(parts)), data |-> Padded(parts[j])]
    <2>5. Packed(f).sectors = [address \in Addresses |-> sector(address)]
      BY DEF Packed, parts, S
    <2>6. Packed(f).sectors[Place(k - 1)] = sector(Place(k - 1))
      BY <2>3, <2>5
    <2>7. sector(Place(k - 1)) = [link |-> LinkAfter(k, t), data |-> Padded(parts[k])]
      <3>1. At(Place(k - 1)) # {} /\ (CHOOSE j \in At(Place(k - 1)) : TRUE) = k
        BY <2>4
      <3>. QED
        BY <1>4, <3>1
    <2>. HIDE DEF sector, At
    <2>. QED
      BY <2>3, <2>6, <2>7
  <1>10. ASSUME NEW k \in 1 .. t, NEW i \in 1 .. SectorData, (k - 1) * SectorData + i <= L
         PROVE  Packed(f).sectors[Place(k - 1)].data[i] = S[(k - 1) * SectorData + i]
    <2>1. Packed(f).sectors[Place(k - 1)].data = Padded(parts[k])
      BY <1>9
    <2>2. i \in 1 .. PieceLength(k, L, SectorData)
      <3>1. k - 1 \in Nat
        BY <1>3
      <3>2. (k - 1) * SectorData \in Nat
        BY <1>1, <3>1
      <3>3. k * SectorData = (k - 1) * SectorData + SectorData
        BY <1>1, <3>1
      <3>. QED
        BY <1>1, <1>2, <1>10, <3>2, <3>3 DEF PieceLength, PieceEnd
    <2>3. Padded(parts[k])[i] = parts[k][i]
      BY <1>4, <2>2 DEF Padded
    <2>. QED
      BY <1>4, <2>1, <2>2, <2>3
  <1>11. Packed(f).first = Place(0)
    BY <1>1 DEF Packed, Place
  <1>12. ASSUME NEW k \in 1 .. SectorCount(f)
         PROVE  /\ Place(k - 1) \in Addresses
                /\ Packed(f).sectors[Place(k - 1)].link = LinkAfter(k, SectorCount(f))
                /\ \A i \in 1 .. SectorData :
                     (k - 1) * SectorData + i <= Len(Records(f)) =>
                       Packed(f).sectors[Place(k - 1)].data[i] = Records(f)[(k - 1) * SectorData + i]
    BY <1>5, <1>9, <1>10 DEF S, L
  <1>. QED
    BY <1>3, <1>5, <1>7, <1>11, <1>12 DEF S, L

-----------------------------------------------------------------------------
(* The invariant: where the reader is in the stream, and what it has made  *)
(* of the bytes before.                                                    *)

\* p bytes have been taken: the sector that the last of them was in, what is left
\* of it and its link.
SectorAt(f, p) ==
  \E k \in 0 .. SectorCount(f) :
    /\ remain \in 0 .. SectorData - 1
    /\ p + remain = k * SectorData
    /\ k > 0 => current = Place(k - 1)
    /\ link = IF k < SectorCount(f) THEN Place(k) ELSE <<0, 0>>

\* The first n bytes of a file are in the memory, and nothing else is.
HasLoaded(f, n) ==
  /\ DOMAIN loaded = { f.address + i - 1 : i \in 1 .. n }
  /\ \A i \in 1 .. n : loaded[f.address + i - 1] = f.bytes[i]

\* A word whose high byte is that of w.
HighRead(w) == \E low \in Bytes : dest = (w \div 256) * 256 + low

\* Between two records, or before the transfer record.
BetweenRecords(f, p, k) ==
  /\ reader = "type"
  /\ p = After(f, k)
  /\ HasLoaded(f, PieceEnd(k, Len(f.bytes), RecordMax))

RecordAddress(f, k) == f.address + (k - 1) * RecordMax

\* In the head of the k-th record.
InHead(f, p, k) ==
  /\ HasLoaded(f, (k - 1) * RecordMax)
  /\ \/ reader = "high" /\ p = After(f, k - 1) + 1
     \/ reader = "low" /\ p = After(f, k - 1) + 2 /\ HighRead(RecordAddress(f, k))
     \/ reader = "count" /\ p = After(f, k - 1) + 3 /\ dest = RecordAddress(f, k)

\* Behind i bytes of the k-th record.
InBytes(f, p, k, i) ==
  /\ reader = "copy"
  /\ p = After(f, k - 1) + 4 + i
  /\ dest = RecordAddress(f, k) + i
  /\ count = RecordBytes(f, k) - i
  /\ HasLoaded(f, (k - 1) * RecordMax + i)

\* In the transfer record.
InTransfer(f, p) ==
  /\ HasLoaded(f, Len(f.bytes))
  /\ \/ reader = "entryHigh" /\ p = LastStart(f) + 1
     \/ reader = "entryLow" /\ p = LastStart(f) + 2 /\ HighRead(f.entry)

ReaderAt(f, p) ==
  \/ \E k \in 0 .. RecordCount(f) : BetweenRecords(f, p, k)
  \/ \E k \in 1 .. RecordCount(f) : InHead(f, p, k)
  \/ \E k \in 1 .. RecordCount(f) : \E i \in 0 .. RecordBytes(f, k) - 1 : InBytes(f, p, k, i)
  \/ InTransfer(f, p)

Reading(f) ==
  \E p \in Nat : p < Len(Records(f)) /\ SectorAt(f, p) /\ ReaderAt(f, p)

Done(f) == reader = "jumped" /\ dest = f.entry /\ HasLoaded(f, Len(f.bytes))

BootInv ==
  packed # {} =>
    \E f \in Files :
      /\ packed = {f}
      /\ chain = Packed(f)
      /\ dest \in Nat
      /\ Reading(f) \/ Done(f)

-----------------------------------------------------------------------------
(* The next byte.                                                          *)

\* GETBYTE returns the next byte of the stream, whether it fetches a sector or
\* not, and does not fail.
LEMMA NextByteIs ==
  ASSUME NEW f \in Files, NEW p \in Nat, p < Len(Records(f)),
         chain = Packed(f), SectorAt(f, p)
  PROVE  /\ HasByte
         /\ remain = 0 => link \in Addresses
         /\ NextByte = Records(f)[p + 1]
         /\ NextByte \in Bytes
         /\ TakesByte /\ chain' = chain => SectorAt(f, p + 1)'
PROOF
  <1> DEFINE S == Records(f)
             L == Len(S)
             t == SectorCount(f)
  <1>1. PICK k \in 0 .. t :
          /\ remain \in 0 .. SectorData - 1
          /\ p + remain = k * SectorData
          /\ k > 0 => current = Place(k - 1)
          /\ link = IF k < t THEN Place(k) ELSE <<0, 0>>
    BY DEF SectorAt
  <1>2. /\ SectorData \in Nat /\ SectorData > 0 /\ t \in Nat /\ L \in Nat
        /\ S \in Seq(Bytes) /\ BootSectors \in Nat
    BY SizeFacts, PackedFacts, StreamFacts
  <1>3. k \in Nat /\ k <= t /\ remain \in Nat /\ remain < SectorData
    BY <1>1, <1>2
  <1>4. p + 1 \in 1 .. L /\ S[p + 1] \in Bytes
    <2>1. p + 1 \in 1 .. L
      BY <1>2
    <2>. HIDE DEF S
    <2>. QED
      BY <1>2, <2>1
  <1>5. ASSUME NEW j \in 1 .. t
        PROVE  /\ Place(j - 1) \in Addresses
               /\ chain.sectors[Place(j - 1)].link = IF j < t THEN Place(j) ELSE <<0, 0>>
               /\ \A i \in 1 .. SectorData : (j - 1) * SectorData + i <= L =>
                    chain.sectors[Place(j - 1)].data[i] = S[(j - 1) * SectorData + i]
    <2>1. LinkAfter(j, t) = IF j < t THEN Place(j) ELSE <<0, 0>>
      BY DEF LinkAfter, Place
    <2>. QED
      BY <2>1, PackedFacts
  <1>. HIDE DEF S, L, t
  <1>6. CASE remain = 0
    <2>1. p = k * SectorData /\ p < L
      <3>1. k * SectorData \in Nat
        BY <1>2, <1>3
      <3>. QED
        BY <1>1, <1>6, <3>1 DEF L, S
    <2>2. k < t
      BY <1>3, <2>1, PackedFacts DEF L, S, t
    <2>3. k + 1 \in 1 .. t /\ (k + 1) - 1 = k
      BY <1>2, <1>3, <2>2
    <2>4. /\ link = Place(k) /\ Place(k) \in Addresses
          /\ chain.sectors[Place(k)].link = IF k + 1 < t THEN Place(k + 1) ELSE <<0, 0>>
          /\ \A i \in 1 .. SectorData : k * SectorData + i <= L =>
               chain.sectors[Place(k)].data[i] = S[k * SectorData + i]
      BY <1>1, <1>5, <2>2, <2>3
    <2>5. BytesLeft = SectorData /\ Source = Place(k)
      BY <1>6, <2>4 DEF BytesLeft, Source
    <2>6. NextByte = S[p + 1]
      <3>1. 1 \in 1 .. SectorData /\ SectorData - SectorData + 1 = 1 /\ p + 1 <= L
        BY <1>2, <2>1
      <3>2. NextByte = chain.sectors[Place(k)].data[1]
        BY <2>5, <3>1 DEF NextByte
      <3>. QED
        BY <2>1, <2>4, <3>1, <3>2
    <2>7. ASSUME TakesByte PROVE SectorAt(f, p + 1)'
      <3>1. /\ current' = Place((k + 1) - 1)
            /\ link' = IF k + 1 < t THEN Place(k + 1) ELSE <<0, 0>>
            /\ remain' = SectorData - 1
        BY <1>6, <2>3, <2>4, <2>5, <2>7 DEF TakesByte
      <3>2. (p + 1) + (SectorData - 1) = (k + 1) * SectorData
        <4>1. k * SectorData \in Nat /\ (k + 1) * SectorData = k * SectorData + SectorData
          BY <1>2, <1>3
        <4>. QED
          BY <1>2, <2>1, <4>1
      <3>3. SectorData - 1 \in 0 .. SectorData - 1 /\ k + 1 \in 0 .. t
        BY <1>2, <2>3
      <3>. QED
        BY <3>1, <3>2, <3>3 DEF SectorAt, t
    <2>. QED
      BY <1>4, <2>4, <2>6, <2>7 DEF HasByte, S
  <1>7. CASE remain > 0
    <2>1. k > 0 /\ k \in 1 .. t
      <3>1. k # 0
        <4>1. SUFFICES ASSUME k = 0 PROVE FALSE
          OBVIOUS
        <4>2. k * SectorData = 0
          BY <1>2, <4>1
        <4>. QED
          BY <1>1, <1>3, <1>7, <4>2
      <3>. QED
        BY <1>2, <1>3, <3>1
    <2> DEFINE i == SectorData - remain + 1
    <2>2. i \in 1 .. SectorData
      BY <1>2, <1>3, <1>7
    <2>3. (k - 1) * SectorData + i = p + 1
      <3>1. k * SectorData = (k - 1) * SectorData + SectorData
            /\ (k - 1) * SectorData \in Nat
        BY <1>2, <2>1
      <3>. QED
        BY <1>1, <1>2, <1>3, <3>1
    <2>4. BytesLeft = remain /\ Source = current /\ current = Place(k - 1)
      BY <1>1, <1>7, <1>3, <2>1 DEF BytesLeft, Source
    <2>5. NextByte = S[p + 1]
      <3>1. NextByte = chain.sectors[Place(k - 1)].data[i]
        BY <2>4 DEF NextByte
      <3>. HIDE DEF i
      <3>2. p + 1 <= L
        BY <1>4, <1>2
      <3>. QED
        BY <1>5, <2>1, <2>2, <2>3, <3>1, <3>2
    <2>6. ASSUME TakesByte PROVE SectorAt(f, p + 1)'
      <3>1. current' = current /\ link' = link /\ remain' = remain - 1
        BY <1>3, <1>7, <2>4, <2>6 DEF TakesByte
      <3>2. remain' \in 0 .. SectorData - 1 /\ (p + 1) + remain' = k * SectorData
        <4>1. k * SectorData \in Nat
          BY <1>2, <1>3
        <4>. QED
          BY <1>1, <1>2, <1>3, <1>7, <3>1, <4>1
      <3>. QED
        BY <1>1, <2>4, <3>1, <3>2 DEF SectorAt, t
    <2>. QED
      BY <1>3, <1>4, <1>7, <2>5, <2>6 DEF HasByte, S
  <1>. QED
    BY <1>3, <1>6, <1>7

-----------------------------------------------------------------------------
(* The reader, a byte at a time.                                           *)

\* What the k-th record of a file is in the stream.
LEMMA RecordInStream ==
  ASSUME NEW f \in Files, NEW k \in 1 .. RecordCount(f)
  PROVE  /\ After(f, k - 1) \in Nat
         /\ RecordBytes(f, k) \in 1 .. 255
         /\ After(f, k) = After(f, k - 1) + 4 + RecordBytes(f, k)
         /\ After(f, k) <= LastStart(f)
         /\ LastStart(f) \in Nat
         /\ Len(Records(f)) = LastStart(f) + 3
         /\ (k - 1) * RecordMax \in Nat
         /\ RecordAddress(f, k) \in 0 .. MemorySize - 1
         /\ RecordAddress(f, k) + RecordBytes(f, k) <= MemorySize
         /\ PieceEnd(k - 1, Len(f.bytes), RecordMax) = (k - 1) * RecordMax
         /\ PieceEnd(k, Len(f.bytes), RecordMax) = (k - 1) * RecordMax + RecordBytes(f, k)
         /\ Records(f)[After(f, k - 1) + 1] = 2
         /\ Records(f)[After(f, k - 1) + 2] = RecordAddress(f, k) \div 256
         /\ Records(f)[After(f, k - 1) + 3] = RecordAddress(f, k) % 256
         /\ Records(f)[After(f, k - 1) + 4] = RecordBytes(f, k)
         /\ \A i \in 1 .. RecordBytes(f, k) :
              Records(f)[After(f, k - 1) + (4 + i)] = f.bytes[(k - 1) * RecordMax + i]
PROOF
  <1> DEFINE l == RecordBytes(f, k)
             a == (k - 1) * RecordMax
             n == Len(f.bytes)
  <1>1. l \in 1 .. 255 /\ l \in Nat
    <2>1. l \in 1 .. RecordMax
      BY RecordBounds
    <2>. HIDE DEF l
    <2>. QED
      BY <2>1, SizeFacts
  <1>2. /\ After(f, k - 1) \in Nat /\ After(f, k) = After(f, k - 1) + 4 + l
        /\ After(f, k) <= LastStart(f)
    <2>1. /\ RecordCount(f) \in Nat /\ k \in 0 .. RecordCount(f) /\ k - 1 \in 0 .. RecordCount(f)
          /\ RecordCount(f) \in 0 .. RecordCount(f) /\ k <= RecordCount(f)
      BY AfterFacts
    <2>2. After(f, k) = After(f, k - 1) + 4 + l
      BY AfterFacts
    <2>. QED
      BY <2>1, <2>2, AfterFacts DEF LastStart
  <1>3. a \in Nat /\ a + l <= n /\ f.address + a \in 0 .. MemorySize - 1
    BY RecordBounds
  <1>4. n \in Nat /\ f.address \in Nat /\ f.address + n <= MemorySize /\ MemorySize \in Nat
    <2>1. /\ n \in Nat /\ f.address \in 0 .. MemorySize - 1 /\ f.address + n <= MemorySize
      BY FileFacts
    <2>2. MemorySize \in Nat
      BY MemorySizeFacts
    <2>. HIDE DEF n
    <2>. QED
      BY <2>1, <2>2
  <1>5. LastStart(f) \in Nat /\ Len(Records(f)) = LastStart(f) + 3
    BY StreamFacts
  <1>6. \A j \in 1 .. 4 + l : Records(f)[After(f, k - 1) + j] = RecordByte(f, k, j)
    BY StreamFacts
  <1>7. l = PieceEnd(k, n, RecordMax) - a
    BY DEF RecordBytes, PieceLength
  <1>8. PieceEnd(k - 1, n, RecordMax) = a
    <2>. HIDE DEF a, l, n
    <2>1. a \in Nat /\ a + l <= n /\ n \in Nat
      BY <1>3, <1>4
    <2>2. a < n
      BY <1>1, <2>1
    <2>. QED
      BY <2>2 DEF PieceEnd, a
  <1>9. PieceEnd(k, n, RecordMax) \in Nat
    <2>1. k \in Nat /\ RecordMax \in Nat
      BY RecordBounds, SizeFacts
    <2>2. k * RecordMax \in Nat
      BY <2>1
    <2>. QED
      BY <1>4, <2>2 DEF PieceEnd
  <1>10. /\ RecordByte(f, k, 1) = 2
         /\ RecordByte(f, k, 2) = RecordAddress(f, k) \div 256
         /\ RecordByte(f, k, 3) = RecordAddress(f, k) % 256
         /\ RecordByte(f, k, 4) = l
    BY DEF RecordByte, RecordAddress
  <1>11. ASSUME NEW i \in 1 .. l PROVE RecordByte(f, k, 4 + i) = f.bytes[a + i]
    <2>1. 4 + i # 1 /\ 4 + i # 2 /\ 4 + i # 3 /\ 4 + i # 4 /\ (4 + i) - 4 = i
      BY <1>1
    <2>. QED
      BY <2>1 DEF RecordByte
  <1>12. RecordAddress(f, k) = f.address + a
    BY DEF RecordAddress
  <1>. HIDE DEF l, a, n
  <1>13. PieceEnd(k, n, RecordMax) = a + l
    BY <1>1, <1>3, <1>7, <1>9
  <1>14. RecordAddress(f, k) \in 0 .. MemorySize - 1 /\ RecordAddress(f, k) + l <= MemorySize
    BY <1>1, <1>3, <1>4, <1>12
  <1>15. \A j \in {1, 2, 3, 4} : Records(f)[After(f, k - 1) + j] = RecordByte(f, k, j)
    BY <1>1, <1>6
  <1>16. ASSUME NEW i \in 1 .. l
         PROVE  Records(f)[After(f, k - 1) + (4 + i)] = f.bytes[a + i]
    <2>1. 4 + i \in 1 .. 4 + l
      BY <1>1
    <2>. QED
      BY <2>1, <1>6, <1>11
  <1>. QED
    BY <1>1, <1>2, <1>3, <1>5, <1>8, <1>10, <1>13, <1>14, <1>15, <1>16 DEF l, a, n

\* What a step of the reader makes of the byte that it takes.
ReaderStepsOn(f, p) ==
  /\ dest' \in Nat
  /\ \/ p + 1 < Len(Records(f)) /\ ReaderAt(f, p + 1)'
     \/ Done(f)'

\* NEXTREC finds a record or the transfer record.
LEMMA TypeStep ==
  ASSUME NEW f \in Files, NEW p \in Nat, ReaderAt(f, p), dest \in Nat,
         NextByte = Records(f)[p + 1], ReadsType
  PROVE  ReaderStepsOn(f, p)
PROOF
  <1> DEFINE m == RecordCount(f)
  <1>1. reader = "type" /\ dest' = dest /\ loaded' = loaded /\ m \in Nat
    BY AfterFacts DEF ReadsType
  <1>2. PICK k \in 0 .. m : BetweenRecords(f, p, k)
    BY <1>1 DEF ReaderAt, InHead, InBytes, InTransfer
  <1>3. p = After(f, k) /\ HasLoaded(f, PieceEnd(k, Len(f.bytes), RecordMax))
    BY <1>2 DEF BetweenRecords
  <1>. HIDE DEF m
  <1>4. CASE k < m
    <2>1. k + 1 \in 1 .. m /\ (k + 1) - 1 = k
      BY <1>1, <1>4
    <2>2. k + 1 \in 1 .. RecordCount(f)
      BY <2>1 DEF m
    <2>3. /\ After(f, k) \in Nat /\ RecordBytes(f, k + 1) \in 1 .. 255
          /\ After(f, k + 1) = After(f, k) + 4 + RecordBytes(f, k + 1)
          /\ After(f, k + 1) <= LastStart(f) /\ LastStart(f) \in Nat
          /\ Len(Records(f)) = LastStart(f) + 3
          /\ PieceEnd(k, Len(f.bytes), RecordMax) = k * RecordMax
          /\ Records(f)[After(f, k) + 1] = 2
      BY <2>1, <2>2, RecordInStream
    <2>4. NextByte = 2
      BY <1>3, <2>3
    <2>5. reader' = "high"
      BY <2>4 DEF ReadsType
    <2>6. HasLoaded(f, k * RecordMax)'
      BY <1>1, <1>3, <2>3 DEF HasLoaded
    <2>7. InHead(f, p + 1, k + 1)'
      BY <1>3, <2>1, <2>5, <2>6 DEF InHead
    <2>8. p + 1 < Len(Records(f))
      <3> DEFINE l == RecordBytes(f, k + 1)
                 e == LastStart(f)
      <3>1. p \in Nat /\ l \in 1 .. 255 /\ e \in Nat /\ p + 4 + l <= e
        BY <1>3, <2>3
      <3>. HIDE DEF l, e
      <3>2. p + 1 < e + 3
        BY <3>1
      <3>. QED
        BY <2>3, <3>2 DEF e
    <2>. QED
      BY <1>1, <2>2, <2>7, <2>8 DEF ReaderStepsOn, ReaderAt
  <1>5. CASE k = m
    <2>1. PieceEnd(m, Len(f.bytes), RecordMax) = Len(f.bytes)
      <3>1. /\ After(f, m) = 4 * m + Len(f.bytes)
            /\ After(f, m) = 4 * m + PieceEnd(m, Len(f.bytes), RecordMax)
        BY AfterFacts DEF After, m
      <3>2. Len(f.bytes) \in Nat /\ RecordMax \in Nat
        BY FileFacts, SizeFacts
      <3>3. PieceEnd(m, Len(f.bytes), RecordMax) \in Nat
        <4>1. m * RecordMax \in Nat
          BY <1>1, <3>2
        <4>. QED
          BY <3>2, <4>1 DEF PieceEnd
      <3>4. 4 * m \in Nat
        BY <1>1
      <3>. QED
        BY <3>1, <3>2, <3>3, <3>4
    <2>2. p = LastStart(f)
      BY <1>3, <1>5 DEF LastStart, m
    <2>3. /\ NextByte = 22 /\ p + 1 < Len(Records(f))
      BY <2>2, StreamFacts
    <2>4. reader' = "entryHigh"
      BY <2>3 DEF ReadsType
    <2>5. InTransfer(f, p + 1)'
      BY <1>1, <1>3, <1>5, <2>1, <2>2, <2>4 DEF InTransfer, HasLoaded
    <2>. QED
      BY <1>1, <2>3, <2>5 DEF ReaderStepsOn, ReaderAt
  <1>. QED
    BY <1>1, <1>4, <1>5

\* A record is not the end of the stream.
LEMMA RecordInside ==
  ASSUME NEW f \in Files, NEW k \in 1 .. RecordCount(f),
         NEW j \in 0 .. 4 + RecordBytes(f, k)
  PROVE  After(f, k - 1) + j \in Nat /\ After(f, k - 1) + j < Len(Records(f))
PROOF
  <1> DEFINE l == RecordBytes(f, k)
             e == LastStart(f)
             a == After(f, k - 1)
             n == Len(Records(f))
  <1>1. a \in Nat /\ l \in 1 .. 255 /\ e \in Nat /\ After(f, k) = a + 4 + l /\ After(f, k) <= e
    BY RecordInStream
  <1>2. n = e + 3
    BY RecordInStream
  <1>3. j \in 0 .. 4 + l
    OBVIOUS
  <1>. HIDE DEF l, e, a, n
  <1>4. a + 4 + l <= e
    BY <1>1
  <1>5. a + j \in Nat /\ a + j < n
    BY <1>1, <1>2, <1>3, <1>4
  <1>. QED
    BY <1>5 DEF a, n

\* A high byte and some low byte.
LEMMA HighFacts ==
  ASSUME NEW w \in 0 .. MemorySize - 1, NEW d \in Nat
  PROVE  /\ WithHigh(d, w \div 256) \in Nat
         /\ \E low \in Bytes : WithHigh(d, w \div 256) = (w \div 256) * 256 + low
PROOF
  <1>1. d % 256 \in Bytes /\ w \div 256 \in Nat
    <2>1. d % 256 \in 0 .. 256 - 1
      BY DivisionFacts
    <2>2. w \div 256 \in Bytes
      BY BigEndianFacts
    <2>. QED
      BY <2>1, <2>2 DEF Bytes
  <1>. QED
    BY <1>1 DEF WithHigh, Bytes

\* The low byte completes the word.
LEMMA LowFacts ==
  ASSUME NEW w \in 0 .. MemorySize - 1, NEW low \in Bytes
  PROVE  WithLow((w \div 256) * 256 + low, w % 256) = w
PROOF
  <1> DEFINE h == w \div 256
             r == w % 256
             d == h * 256 + low
  <1>1. h \in Nat /\ r \in 0 .. 255 /\ w = 256 * h + r
    <2>1. w \in Nat
      BY AddressIsNat
    <2>. QED
      BY <2>1, DivisionFacts
  <1>2. d \in Nat /\ d = 256 * h + low /\ low \in 0 .. 255
    BY <1>1 DEF Bytes
  <1>3. d \div 256 \in Nat /\ d % 256 \in 0 .. 255 /\ d = 256 * (d \div 256) + (d % 256)
    BY <1>2, DivisionFacts
  <1>. HIDE DEF h, r, d
  <1>4. d \div 256 = h
    BY <1>1, <1>2, <1>3, DivisionUnique
  <1>5. WithLow(d, r) = w
    BY <1>1, <1>4 DEF WithLow
  <1>. QED
    BY <1>5 DEF d, h, r

\* ADDRESS and TRANSFER: the high byte.
LEMMA HighStep ==
  ASSUME NEW f \in Files, NEW p \in Nat, ReaderAt(f, p), dest \in Nat,
         NextByte = Records(f)[p + 1], ReadsHigh
  PROVE  ReaderStepsOn(f, p)
PROOF
  <1>1. loaded' = loaded /\ dest' = WithHigh(dest, NextByte)
    BY DEF ReadsHigh
  <1>2. CASE reader = "high"
    <2>1. PICK k \in 1 .. RecordCount(f) : InHead(f, p, k)
      BY <1>2 DEF ReaderAt, BetweenRecords, InBytes, InTransfer
    <2> DEFINE w == RecordAddress(f, k)
               a == After(f, k - 1)
    <2>2. p = a + 1 /\ HasLoaded(f, (k - 1) * RecordMax)
      BY <1>2, <2>1 DEF InHead
    <2>3. /\ a \in Nat /\ w \in 0 .. MemorySize - 1 /\ Records(f)[a + 2] = w \div 256
          /\ RecordBytes(f, k) \in 1 .. 255
      BY RecordInStream
    <2>. HIDE DEF w, a
    <2>4. p + 1 = a + 2 /\ 2 \in 0 .. 4 + RecordBytes(f, k)
      BY <2>2, <2>3
    <2>5. NextByte = w \div 256
      BY <2>3, <2>4
    <2>6. dest' \in Nat /\ HighRead(w)'
      BY <1>1, <2>3, <2>5, HighFacts DEF HighRead
    <2>7. p + 1 < Len(Records(f))
      BY <2>4, RecordInside DEF a
    <2>8. reader' = "low"
      BY <1>2 DEF ReadsHigh
    <2>9. InHead(f, p + 1, k)'
      BY <1>1, <2>2, <2>4, <2>6, <2>8 DEF InHead, HasLoaded, a, w
    <2>. QED
      BY <2>6, <2>7, <2>9 DEF ReaderStepsOn, ReaderAt
  <1>3. CASE reader = "entryHigh"
    <2>1. InTransfer(f, p)
      BY <1>3 DEF ReaderAt, BetweenRecords, InHead, InBytes
    <2>2. p = LastStart(f) + 1 /\ HasLoaded(f, Len(f.bytes))
      BY <1>3, <2>1 DEF InTransfer
    <2>3. /\ LastStart(f) \in Nat /\ Len(Records(f)) = LastStart(f) + 3
          /\ Records(f)[LastStart(f) + 2] = f.entry \div 256
      BY StreamFacts
    <2>4. p + 1 = LastStart(f) + 2 /\ p + 1 < Len(Records(f))
      BY <2>2, <2>3
    <2>5. NextByte = f.entry \div 256
      BY <2>3, <2>4
    <2>6. dest' \in Nat /\ HighRead(f.entry)'
      <3>1. f.entry \in 0 .. MemorySize - 1
        BY FileFacts
      <3>2. /\ WithHigh(dest, f.entry \div 256) \in Nat
            /\ \E low \in Bytes :
                 WithHigh(dest, f.entry \div 256) = (f.entry \div 256) * 256 + low
        BY <3>1, HighFacts
      <3>. QED
        BY <1>1, <2>5, <3>2 DEF HighRead
    <2>7. reader' = "entryLow"
      BY <1>3 DEF ReadsHigh
    <2>8. InTransfer(f, p + 1)'
      BY <1>1, <2>2, <2>4, <2>6, <2>7 DEF InTransfer, HasLoaded
    <2>. QED
      BY <2>4, <2>6, <2>8 DEF ReaderStepsOn, ReaderAt
  <1>. QED
    BY <1>2, <1>3 DEF ReadsHigh

\* ADDRESS and TRANSFER: the low byte.
LEMMA LowStep ==
  ASSUME NEW f \in Files, NEW p \in Nat, ReaderAt(f, p), dest \in Nat,
         NextByte = Records(f)[p + 1], ReadsLow
  PROVE  ReaderStepsOn(f, p)
PROOF
  <1>1. loaded' = loaded /\ dest' = WithLow(dest, NextByte)
    BY DEF ReadsLow
  <1>2. CASE reader = "low"
    <2>1. PICK k \in 1 .. RecordCount(f) : InHead(f, p, k)
      BY <1>2 DEF ReaderAt, BetweenRecords, InBytes, InTransfer
    <2> DEFINE w == RecordAddress(f, k)
               a == After(f, k - 1)
    <2>2. p = a + 2 /\ HasLoaded(f, (k - 1) * RecordMax) /\ HighRead(w)
      BY <1>2, <2>1 DEF InHead
    <2>3. /\ a \in Nat /\ w \in 0 .. MemorySize - 1 /\ Records(f)[a + 3] = w % 256
          /\ RecordBytes(f, k) \in 1 .. 255
      BY RecordInStream
    <2>. HIDE DEF w, a
    <2>4. p + 1 = a + 3 /\ 3 \in 0 .. 4 + RecordBytes(f, k)
      BY <2>2, <2>3
    <2>5. NextByte = w % 256
      BY <2>3, <2>4
    <2>6. dest' = w
      BY <1>1, <2>2, <2>3, <2>5, LowFacts DEF HighRead
    <2>7. p + 1 < Len(Records(f))
      BY <2>4, RecordInside DEF a
    <2>8. reader' = "count"
      BY <1>2 DEF ReadsLow
    <2>9. InHead(f, p + 1, k)'
      BY <1>1, <2>2, <2>4, <2>6, <2>8 DEF InHead, HasLoaded, a, w
    <2>10. dest' \in Nat
      <3>1. w \in Nat
        BY <2>3, AddressIsNat
      <3>. QED
        BY <2>6, <3>1
    <2>. QED
      BY <2>7, <2>9, <2>10 DEF ReaderStepsOn, ReaderAt
  <1>3. CASE reader = "entryLow"
    <2>1. InTransfer(f, p)
      BY <1>3 DEF ReaderAt, BetweenRecords, InHead, InBytes
    <2>2. p = LastStart(f) + 2 /\ HasLoaded(f, Len(f.bytes)) /\ HighRead(f.entry)
      BY <1>3, <2>1 DEF InTransfer
    <2>3. LastStart(f) \in Nat /\ Records(f)[LastStart(f) + 3] = f.entry % 256
      BY StreamFacts
    <2>4. NextByte = f.entry % 256
      BY <2>2, <2>3, p + 1 = LastStart(f) + 3
    <2>5. f.entry \in 0 .. MemorySize - 1
      BY FileFacts
    <2>6. dest' = f.entry
      <3>1. PICK low \in Bytes : dest = (f.entry \div 256) * 256 + low
        BY <2>2 DEF HighRead
      <3>2. WithLow((f.entry \div 256) * 256 + low, f.entry % 256) = f.entry
        BY <2>5, LowFacts
      <3>. QED
        BY <1>1, <2>4, <3>1, <3>2
    <2>7. reader' = "jumped"
      BY <1>3 DEF ReadsLow
    <2>8. dest' \in Nat
      <3>1. f.entry \in Nat
        BY <2>5, AddressIsNat
      <3>. QED
        BY <2>6, <3>1
    <2>9. Done(f)'
      BY <1>1, <2>2, <2>6, <2>7 DEF Done, HasLoaded
    <2>. QED
      BY <2>8, <2>9 DEF ReaderStepsOn
  <1>. QED
    BY <1>2, <1>3 DEF ReadsLow

\* ADDRESS: the count, which is never zero.
LEMMA CountStep ==
  ASSUME NEW f \in Files, NEW p \in Nat, ReaderAt(f, p), dest \in Nat,
         NextByte = Records(f)[p + 1], ReadsCount
  PROVE  ReaderStepsOn(f, p)
PROOF
  <1>1. reader = "count" /\ loaded' = loaded /\ dest' = dest /\ count' = NextByte
    BY DEF ReadsCount
  <1>2. PICK k \in 1 .. RecordCount(f) : InHead(f, p, k)
    BY <1>1 DEF ReaderAt, BetweenRecords, InBytes, InTransfer
  <1> DEFINE w == RecordAddress(f, k)
             a == After(f, k - 1)
             l == RecordBytes(f, k)
  <1>3. p = a + 3 /\ HasLoaded(f, (k - 1) * RecordMax) /\ dest = w
    BY <1>1, <1>2 DEF InHead
  <1>4. /\ a \in Nat /\ w \in 0 .. MemorySize - 1 /\ Records(f)[a + 4] = l
        /\ l \in 1 .. 255
    <2>1. a \in Nat /\ l \in 1 .. 255
      BY RecordInStream
    <2>2. w \in 0 .. MemorySize - 1
      BY RecordBounds DEF RecordAddress
    <2>3. Records(f)[a + 4] = l
      BY RecordInStream
    <2>. QED
      BY <2>1, <2>2, <2>3
  <1>. HIDE DEF w, a, l
  <1>5. p + 1 = a + 4 /\ 4 \in 0 .. 4 + l /\ 0 \in 0 .. l - 1
    BY <1>3, <1>4
  <1>6. NextByte = l
    BY <1>4, <1>5
  <1>7. reader' = "copy" /\ count' = l
    BY <1>1, <1>4, <1>6 DEF ReadsCount
  <1>8. p + 1 < Len(Records(f))
    BY <1>5, RecordInside DEF a, l
  <1>9. InBytes(f, p + 1, k, 0)'
    <2>1. (k - 1) * RecordMax \in Nat
      BY RecordBounds
    <2>2. w \in Nat
      BY <1>4, AddressIsNat
    <2>3. p + 1 = a + 4 + 0 /\ dest' = w + 0 /\ count' = l - 0
      BY <1>1, <1>3, <1>4, <1>5, <1>7, <2>2
    <2>4. (k - 1) * RecordMax + 0 = (k - 1) * RecordMax
      BY <2>1
    <2>5. HasLoaded(f, (k - 1) * RecordMax)'
      BY <1>1, <1>3 DEF HasLoaded
    <2>. QED
      BY <1>7, <2>3, <2>4, <2>5 DEF InBytes, a, w, l
  <1>. QED
    BY <1>1, <1>5, <1>8, <1>9 DEF ReaderStepsOn, ReaderAt, l

\* A byte more is in the memory.
LEMMA OneByteMore ==
  ASSUME NEW f \in Files, NEW n \in Nat, HasLoaded(f, n),
         f.address \in Nat, dest = f.address + n, NextByte = f.bytes[n + 1],
         loaded' = [a \in DOMAIN loaded \cup {dest} |-> IF a = dest THEN NextByte ELSE loaded[a]]
  PROVE  HasLoaded(f, n + 1)'
PROOF
  <1> DEFINE b == f.address
  <1>1. /\ DOMAIN loaded = { b + i - 1 : i \in 1 .. n }
        /\ \A i \in 1 .. n : loaded[b + i - 1] = f.bytes[i]
    BY DEF HasLoaded
  <1>2. b \in Nat /\ dest = b + n
    OBVIOUS
  <1>. HIDE DEF b
  <1>3. DOMAIN loaded' = DOMAIN loaded \cup {dest}
    OBVIOUS
  <1>4. DOMAIN loaded' = { b + i - 1 : i \in 1 .. n + 1 }
    <2>1. \A i \in 1 .. n + 1 : i \in 1 .. n \/ i = n + 1
      OBVIOUS
    <2>2. b + (n + 1) - 1 = dest /\ n + 1 \in 1 .. n + 1 /\ \A i \in 1 .. n : i \in 1 .. n + 1
      BY <1>2
    <2>3. { b + i - 1 : i \in 1 .. n + 1 } = { b + i - 1 : i \in 1 .. n } \cup {dest}
      BY <2>1, <2>2
    <2>. QED
      BY <1>1, <1>3, <2>3
  <1>5. ASSUME NEW i \in 1 .. n + 1 PROVE loaded'[b + i - 1] = f.bytes[i]
    <2>1. CASE i = n + 1
      <3>1. b + i - 1 = dest
        BY <1>2, <2>1
      <3>2. loaded'[dest] = NextByte
        OBVIOUS
      <3>. QED
        BY <2>1, <3>1, <3>2
    <2>2. CASE i \in 1 .. n
      <3>1. b + i - 1 # dest /\ b + i - 1 \in DOMAIN loaded
        BY <1>1, <1>2, <2>2
      <3>2. loaded'[b + i - 1] = loaded[b + i - 1]
        BY <3>1
      <3>. QED
        BY <1>1, <2>2, <3>2
    <2>3. i = n + 1 \/ i \in 1 .. n
      OBVIOUS
    <2>. QED
      BY <2>1, <2>2, <2>3
  <1>. QED
    BY <1>4, <1>5 DEF HasLoaded, b

\* A count is taken down by one.
LEMMA CountFacts ==
  ASSUME NEW c \in 1 .. 255
  PROVE  (c - 1) % 256 = c - 1
PROOF
  OBVIOUS

\* An address below the last has a next one.
LEMMA AddressFacts ==
  ASSUME NEW d \in Nat, NEW s \in Nat, s > 0
  PROVE  /\ (d + 1) % s \in Nat
         /\ d + 1 < s => (d + 1) % s = d + 1
PROOF
  <1> DEFINE q == (d + 1) \div s
             r == (d + 1) % s
  <1>1. q \in Nat /\ r \in 0 .. s - 1 /\ d + 1 = s * q + r
    BY DivisionFacts
  <1>. HIDE DEF q, r
  <1>2. ASSUME d + 1 < s PROVE r = d + 1
    <2>1. s * q + r = s * 0 + (d + 1)
      BY <1>1
    <2>2. d + 1 \in 0 .. s - 1
      BY <1>2
    <2>. QED
      BY <1>1, <2>1, <2>2, DivisionUnique
  <1>. QED
    BY <1>1, <1>2 DEF r

\* COPY.
LEMMA CopyStep ==
  ASSUME NEW f \in Files, NEW p \in Nat, ReaderAt(f, p), dest \in Nat,
         NextByte = Records(f)[p + 1], CopiesByte
  PROVE  ReaderStepsOn(f, p)
PROOF
  <1>1. /\ reader = "copy"
        /\ loaded' = [a \in DOMAIN loaded \cup {dest} |-> IF a = dest THEN NextByte ELSE loaded[a]]
        /\ dest' = (dest + 1) % MemorySize
        /\ count' = (count - 1) % 256
        /\ reader' = IF count' = 0 THEN "type" ELSE "copy"
    BY DEF CopiesByte
  <1>2. PICK k \in 1 .. RecordCount(f) : \E i \in 0 .. RecordBytes(f, k) - 1 : InBytes(f, p, k, i)
    BY <1>1 DEF ReaderAt, BetweenRecords, InHead, InTransfer
  <1>3. PICK i \in 0 .. RecordBytes(f, k) - 1 : InBytes(f, p, k, i)
    BY <1>2
  <1> DEFINE w == RecordAddress(f, k)
             a == After(f, k - 1)
             l == RecordBytes(f, k)
             o == (k - 1) * RecordMax
  <1>4. p = a + 4 + i /\ dest = w + i /\ count = l - i /\ HasLoaded(f, o + i)
    BY <1>3 DEF InBytes
  <1>5. /\ a \in Nat /\ l \in 1 .. 255 /\ o \in Nat /\ w \in 0 .. MemorySize - 1
        /\ w + l <= MemorySize /\ After(f, k) = a + 4 + l
        /\ PieceEnd(k, Len(f.bytes), RecordMax) = o + l
    BY RecordInStream
  <1>6. \A j \in 1 .. l : Records(f)[a + (4 + j)] = f.bytes[o + j]
    BY RecordInStream
  <1>7. f.address \in Nat /\ w = f.address + o /\ MemorySize \in Nat /\ MemorySize > 0
    <2>1. f.address \in 0 .. MemorySize - 1
      BY FileFacts
    <2>2. MemorySize \in Nat /\ MemorySize > 0
      BY MemorySizeFacts
    <2>3. w = f.address + o
      BY DEF RecordAddress
    <2>. QED
      BY <2>1, <2>2, <2>3
  <1>8. i \in 0 .. l - 1
    OBVIOUS
  <1>. HIDE DEF w, a, l, o
  <1>9. i \in Nat /\ i < l
    BY <1>5, <1>8
  <1>10. i + 1 \in 1 .. l /\ p + 1 = a + (4 + (i + 1)) /\ 4 + (i + 1) \in 0 .. 4 + l
    BY <1>4, <1>5, <1>9
  <1>11. NextByte = f.bytes[(o + i) + 1]
    <2>1. o + (i + 1) = (o + i) + 1
      BY <1>5, <1>9
    <2>2. Records(f)[a + (4 + (i + 1))] = f.bytes[o + (i + 1)]
      BY <1>6, <1>10
    <2>. QED
      BY <1>10, <2>1, <2>2
  <1>12. HasLoaded(f, o + i + 1)'
    <2>1. f.address \in Nat /\ o \in Nat /\ i \in Nat
      BY <1>5, <1>7, <1>9
    <2>2. dest = f.address + (o + i) /\ o + i \in Nat
      BY <1>4, <1>7, <2>1
    <2>. QED
      BY <1>1, <1>4, <1>7, <1>11, <2>2, OneByteMore
  <1>13. count \in 1 .. 255 /\ count' = l - (i + 1)
    <2>1. count \in 1 .. 255 /\ count - 1 = l - (i + 1)
      BY <1>4, <1>5, <1>9
    <2>. QED
      BY <1>1, <2>1, CountFacts
  <1>14. dest' \in Nat
    BY <1>1, <1>7, AddressFacts
  <1>15. p + 1 < Len(Records(f))
    BY <1>10, RecordInside DEF a, l
  <1>16. CASE i + 1 = l
    <2>1. reader' = "type"
      BY <1>1, <1>5, <1>9, <1>13, <1>16
    <2>2. p + 1 = After(f, k)
      BY <1>5, <1>10, <1>16
    <2>3. HasLoaded(f, PieceEnd(k, Len(f.bytes), RecordMax))'
      BY <1>5, <1>9, <1>12, <1>16, o + i + 1 = o + (i + 1)
    <2>4. BetweenRecords(f, p + 1, k)'
      BY <2>1, <2>2, <2>3 DEF BetweenRecords
    <2>5. k \in 0 .. RecordCount(f)
      BY AfterFacts
    <2>. QED
      BY <1>14, <1>15, <2>4, <2>5 DEF ReaderStepsOn, ReaderAt
  <1>17. CASE i + 1 < l
    <2>1. reader' = "copy"
      <3>1. count' # 0
        BY <1>5, <1>9, <1>13, <1>17
      <3>. QED
        BY <1>1, <3>1
    <2>2. dest' = w + (i + 1)
      <3>1. w \in Nat /\ w + l <= MemorySize
        BY <1>5, <1>7
      <3>2. dest + 1 = w + (i + 1)
        BY <1>4, <1>9, <3>1
      <3>3. dest + 1 < MemorySize
        <4>1. l \in Nat /\ MemorySize \in Nat /\ i \in Nat /\ i + 1 < l
          BY <1>5, <1>7, <1>9, <1>17
        <4>. QED
          BY <3>1, <3>2, <4>1
      <3>. QED
        BY <1>1, <1>7, <3>2, <3>3, AddressFacts
    <2>3. i + 1 \in 0 .. l - 1
      BY <1>5, <1>9, <1>17
    <2>4. p + 1 = a + 4 + (i + 1) /\ o + i + 1 = o + (i + 1)
      BY <1>5, <1>9, <1>10
    <2>5. InBytes(f, p + 1, k, i + 1)'
      BY <1>12, <1>13, <2>1, <2>2, <2>4 DEF InBytes, a, w, l, o
    <2>. QED
      BY <1>14, <1>15, <2>3, <2>5 DEF ReaderStepsOn, ReaderAt, l
  <1>. QED
    BY <1>5, <1>9, <1>16, <1>17

-----------------------------------------------------------------------------
(* The theorem.                                                            *)

\* The reader starts in front of the first byte.
LEMMA BootInitially == BootInit => BootInv
PROOF
  <1>1. SUFFICES ASSUME BootInit, packed # {} PROVE BootInv
    BY DEF BootInv
  <1>2. PICK f \in Files : packed = {f} /\ chain = Packed(f)
    BY <1>1 DEF BootInit
  <1>3. /\ link = Place(0) /\ remain = 0 /\ reader = "type" /\ dest = 0 /\ loaded = <<>>
    BY <1>1, <1>2, PackedFacts DEF BootInit
  <1>4. 0 < Len(Records(f)) /\ 0 < SectorCount(f)
    <2>1. 0 < Len(Records(f))
      BY StreamFacts
    <2>2. 0 * SectorData = 0
      BY SizeFacts
    <2>. QED
      BY <2>1, <2>2, PackedFacts
  <1>5. SectorAt(f, 0)
    <2>1. 0 \in 0 .. SectorCount(f) /\ 0 \in 0 .. SectorData - 1
      BY PackedFacts, SizeFacts
    <2>2. 0 + remain = 0 * SectorData
      BY <1>3, SizeFacts
    <2>. QED
      BY <1>3, <1>4, <2>1, <2>2 DEF SectorAt
  <1>6. ReaderAt(f, 0)
    <2>1. PieceEnd(0, Len(f.bytes), RecordMax) = 0
      <3>1. Len(f.bytes) \in Nat /\ 0 * RecordMax = 0
        BY FileFacts, SizeFacts
      <3>. QED
        BY <3>1 DEF PieceEnd
    <2>2. HasLoaded(f, 0)
      BY <1>3 DEF HasLoaded
    <2>3. 0 \in 0 .. RecordCount(f) /\ After(f, 0) = 0
      BY AfterFacts
    <2>4. BetweenRecords(f, 0, 0)
      BY <1>3, <2>1, <2>2, <2>3 DEF BetweenRecords
    <2>. QED
      BY <2>3, <2>4 DEF ReaderAt
  <1>. QED
    BY <1>2, <1>3, <1>4, <1>5, <1>6 DEF BootInv, Reading

\* Every step of the boot sector keeps it.
LEMMA BootStepKeepsInv == BootInv /\ [BootNext]_boot => BootInv'
PROOF
  <1>1. SUFFICES ASSUME BootInv, [BootNext]_boot, packed' # {} PROVE BootInv'
    BY DEF BootInv
  <1>2. packed' = packed /\ chain' = chain
    BY <1>1 DEF BootNext, BootStep, BootFails, boot
  <1>3. PICK f \in Files :
          packed = {f} /\ chain = Packed(f) /\ dest \in Nat /\ (Reading(f) \/ Done(f))
    BY <1>1, <1>2 DEF BootInv
  <1>4. CASE UNCHANGED boot
    <2>1. /\ link' = link /\ current' = current /\ remain' = remain /\ reader' = reader
          /\ dest' = dest /\ count' = count /\ loaded' = loaded
      BY <1>4 DEF boot
    <2>2. \A n : HasLoaded(f, n)' <=> HasLoaded(f, n)
      BY <2>1 DEF HasLoaded
    <2>3. \A w : HighRead(w)' <=> HighRead(w)
      BY <2>1 DEF HighRead
    <2>4. ASSUME NEW p, ReaderAt(f, p) PROVE ReaderAt(f, p)'
      <3>1. CASE \E k \in 0 .. RecordCount(f) : BetweenRecords(f, p, k)
        BY <2>1, <2>2, <3>1 DEF ReaderAt, BetweenRecords
      <3>2. CASE \E k \in 1 .. RecordCount(f) : InHead(f, p, k)
        BY <2>1, <2>2, <2>3, <3>2 DEF ReaderAt, InHead
      <3>3. CASE \E k \in 1 .. RecordCount(f) :
                   \E i \in 0 .. RecordBytes(f, k) - 1 : InBytes(f, p, k, i)
        BY <2>1, <2>2, <3>3 DEF ReaderAt, InBytes
      <3>4. CASE InTransfer(f, p)
        BY <2>1, <2>2, <2>3, <3>4 DEF ReaderAt, InTransfer
      <3>. QED
        BY <2>4, <3>1, <3>2, <3>3, <3>4 DEF ReaderAt
    <2>5. ASSUME NEW p, SectorAt(f, p) PROVE SectorAt(f, p)'
      BY <2>1, <2>5 DEF SectorAt
    <2>6. Reading(f) => Reading(f)'
      BY <2>4, <2>5 DEF Reading
    <2>7. Done(f) => Done(f)'
      BY <2>1, <2>2 DEF Done
    <2>. QED
      BY <1>2, <1>3, <2>1, <2>6, <2>7 DEF BootInv
  <1>5. CASE BootNext
    <2>1. ~Done(f)
      BY <1>5 DEF Done, BootNext, BootStep, BootFails, Running
    <2>2. PICK p \in Nat : p < Len(Records(f)) /\ SectorAt(f, p) /\ ReaderAt(f, p)
      BY <1>3, <2>1 DEF Reading
    <2>3. /\ remain = 0 => link \in Addresses
          /\ NextByte = Records(f)[p + 1]
          /\ TakesByte /\ chain' = chain => SectorAt(f, p + 1)'
      BY <1>3, <2>2, NextByteIs
    <2>4. ~BootFails
      BY <2>3 DEF BootFails
    <2>5. /\ TakesByte
          /\ ReadsType \/ ReadsHigh \/ ReadsLow \/ ReadsCount \/ CopiesByte
      BY <1>5, <2>4 DEF BootNext, BootStep
    <2>6. ReaderStepsOn(f, p)
      BY <1>3, <2>2, <2>3, <2>5, TypeStep, HighStep, LowStep, CountStep, CopyStep
    <2>7. SectorAt(f, p + 1)'
      BY <1>2, <2>3, <2>5
    <2>8. Reading(f)' \/ Done(f)'
      BY <2>2, <2>6, <2>7, p + 1 \in Nat DEF ReaderStepsOn, Reading
    <2>9. dest' \in Nat
      BY <2>6 DEF ReaderStepsOn
    <2>. QED
      BY <1>2, <1>3, <2>8, <2>9 DEF BootInv
  <1>. QED
    BY <1>1, <1>4, <1>5

\* A file that mkimage.py packed is loaded byte for byte at its address, nothing else
\* is written, and its entry is jumped to.
THEOREM PackedFileIsLoaded == BootSpec => []LoadsWhatWasPacked
PROOF
  <1>1. BootInit => BootInv
    BY BootInitially
  <1>2. BootInv /\ [BootNext]_boot => BootInv'
    BY BootStepKeepsInv
  <1>3. BootInv => LoadsWhatWasPacked
    <2>1. SUFFICES ASSUME BootInv, reader = "jumped", NEW f \in packed
                   PROVE  /\ dest = f.entry
                          /\ DOMAIN loaded = { f.address + i - 1 : i \in DOMAIN f.bytes }
                          /\ \A i \in DOMAIN f.bytes : loaded[f.address + i - 1] = f.bytes[i]
      BY DEF LoadsWhatWasPacked
    <2>2. f \in Files /\ (Reading(f) \/ Done(f))
      BY <2>1 DEF BootInv
    <2>3. ~Reading(f)
      BY <2>1 DEF Reading, ReaderAt, BetweenRecords, InHead, InBytes, InTransfer
    <2>4. DOMAIN f.bytes = 1 .. Len(f.bytes)
      BY <2>2, FileFacts
    <2>. QED
      BY <2>2, <2>3, <2>4 DEF Done, HasLoaded
  <1>. QED
    BY <1>1, <1>2, <1>3, PTL DEF BootSpec

\* A packed file never ends in BOOTERROR.
PackedNeverFails == packed # {} => reader # "error"

THEOREM PackedFileNeverFails == BootSpec => []PackedNeverFails
PROOF
  <1>1. BootInit => BootInv
    BY BootInitially
  <1>2. BootInv /\ [BootNext]_boot => BootInv'
    BY BootStepKeepsInv
  <1>3. BootInv => PackedNeverFails
    BY DEF BootInv, PackedNeverFails, Reading, Done, ReaderAt, BetweenRecords, InHead,
       InBytes, InTransfer
  <1>. QED
    BY <1>1, <1>2, <1>3, PTL DEF BootSpec

=============================================================================
