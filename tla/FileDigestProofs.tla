-------------------------- MODULE FileDigestProofs --------------------------
(***************************************************************************)
(* For files of any size read in chunks of any size: unless the file is    *)
(* written in place meanwhile, the digest is of all that it holds at the   *)
(* moment when the reader meets its end.                                   *)
(***************************************************************************)
EXTENDS FileDigest, SequenceTheorems, TLAPS

File == inode[opened]

\* What has been hashed is what the file begins with, and lies within it.
DInv ==
  /\ inode \in Seq(Seq(Bytes))
  /\ name \in 1 .. Len(inode)
  /\ phase = "open" => opened \in 1 .. Len(inode)
  /\ phase = "open" /\ appended =>
       /\ position \in 0 .. Len(File)
       /\ h = SubSeq(File, 1, position)

LEMMA ContentsAreSequences == Contents \subseteq Seq(Bytes)
  BY DigestAssumption, SeqDef DEF Contents

\* One chunk after another makes the beginning of the file (hashing.py 42).
LEMMA ChunkExtends ==
  ASSUME NEW file \in Seq(Bytes), NEW p \in 0 .. Len(file)
  PROVE  /\ Len(Read(file, p)) \in Nat
         /\ p + Len(Read(file, p)) \in 0 .. Len(file)
         /\ SubSeq(file, 1, p) \o Read(file, p) =
              SubSeq(file, 1, p + Len(Read(file, p)))
<1> DEFINE q == Min2(p + CHUNK, Len(file))
<1>1. Len(file) \in Nat
  OBVIOUS
<1>2. q \in p .. Len(file)
  BY <1>1, DigestAssumption DEF Min2
<1> HIDE DEF q
<1>3. \A i \in p + 1 .. q : file[i] \in Bytes
  BY <1>1, <1>2, ElementOfSeq
<1>4. Len(SubSeq(file, p + 1, q)) = IF p + 1 <= q THEN q - (p + 1) + 1 ELSE 0
  BY <1>1, <1>2, <1>3, SubSeqProperties
<1>5. Len(SubSeq(file, p + 1, q)) = q - p
  BY <1>1, <1>2, <1>4
<1>6. SubSeq(file, 1, p) \o SubSeq(file, p + 1, q) = SubSeq(file, 1, q)
  <2>1. 1 \in 1 .. Len(file) + 1 /\ p \in 1 - 1 .. Len(file)
    BY <1>1
  <2> QED
    BY <1>1, <1>2, <2>1, ConcatAdjacentSubSeq
<1>7. Read(file, p) = SubSeq(file, p + 1, q)
  BY DEF Read, q
<1> QED
  BY <1>1, <1>2, <1>5, <1>6, <1>7

\* An empty chunk is read only at the end (hashing.py 42).
LEMMA EmptyChunkAtTheEnd ==
  ASSUME NEW file \in Seq(Bytes), NEW p \in 0 .. Len(file), Read(file, p) = <<>>
  PROVE  p = Len(file)
<1> DEFINE q == Min2(p + CHUNK, Len(file))
<1>1. Len(file) \in Nat
  OBVIOUS
<1>2. q \in p .. Len(file) /\ (p < Len(file) => p < q)
  BY <1>1, DigestAssumption DEF Min2
<1> HIDE DEF q
<1>3. \A i \in p + 1 .. q : file[i] \in Bytes
  BY <1>1, <1>2, ElementOfSeq
<1>4. Len(SubSeq(file, p + 1, q)) = IF p + 1 <= q THEN q - (p + 1) + 1 ELSE 0
  BY <1>1, <1>2, <1>3, SubSeqProperties
<1>5. SubSeq(file, p + 1, q) = <<>>
  BY DEF Read, q
<1> QED
  BY <1>1, <1>2, <1>4, <1>5

\* What a file begins with, it begins with when a byte has been appended.
LEMMA AppendKeeps ==
  ASSUME NEW file \in Seq(Bytes), NEW b \in Bytes, NEW p \in 0 .. Len(file)
  PROVE  /\ Append(file, b) \in Seq(Bytes)
         /\ p \in 0 .. Len(Append(file, b))
         /\ SubSeq(Append(file, b), 1, p) = SubSeq(file, 1, p)
<1>1. /\ Append(file, b) \in Seq(Bytes)
      /\ Len(Append(file, b)) = Len(file) + 1
      /\ \A i \in 1 .. p : Append(file, b)[i] = file[i]
  OBVIOUS
<1>2. Len(file) \in Nat
  OBVIOUS
<1>3. /\ \A i \in 1 .. p : file[i] \in Bytes
      /\ \A i \in 1 .. p : Append(file, b)[i] \in Bytes
  BY <1>1, <1>2, ElementOfSeq
<1> DEFINE s == SubSeq(file, 1, p)
           t == SubSeq(Append(file, b), 1, p)
<1>4. /\ s \in Seq(Bytes) /\ Len(s) = p
      /\ \A i \in 1 .. p : s[i] = file[i]
  <2>1. /\ s \in Seq(Bytes)
        /\ Len(s) = IF 1 <= p THEN p - 1 + 1 ELSE 0
        /\ \A i \in 1 .. p - 1 + 1 : s[i] = file[1 + i - 1]
    BY <1>2, <1>3, SubSeqProperties
  <2> QED
    BY <1>2, <2>1
<1>5. /\ t \in Seq(Bytes) /\ Len(t) = p
      /\ \A i \in 1 .. p : t[i] = Append(file, b)[i]
  <2>1. /\ t \in Seq(Bytes)
        /\ Len(t) = IF 1 <= p THEN p - 1 + 1 ELSE 0
        /\ \A i \in 1 .. p - 1 + 1 : t[i] = Append(file, b)[1 + i - 1]
    BY <1>2, <1>3, SubSeqProperties
  <2> QED
    BY <1>2, <2>1
<1> HIDE DEF s, t
<1>6. s = t
  BY <1>1, <1>4, <1>5, SeqEqual
<1> QED
  BY <1>1, <1>2, <1>6 DEF s, t

-----------------------------------------------------------------------------
(* The steps.                                                              *)

LEMMA DInit == Init => DInv
<1> SUFFICES ASSUME Init PROVE DInv
  OBVIOUS
<1>1. PICK c \in Contents : inode = <<c>>
  BY DEF Init
<1>2. inode \in Seq(Seq(Bytes)) /\ Len(inode) = 1
  BY <1>1, ContentsAreSequences
<1> QED
  BY <1>2 DEF Init, DInv

LEMMA OpenStep == DInv /\ Open => DInv'
<1> SUFFICES ASSUME DInv, Open PROVE DInv'
  OBVIOUS
<1>1. inode[name] \in Seq(Bytes)
  BY ElementOfSeq DEF DInv
<1>2. SubSeq(inode[name], 1, 0) = <<>>
  BY SubSeqEmpty
<1> QED
  BY <1>1, <1>2 DEF DInv, Open, File

LEMMA UpdateStep == DInv /\ Update => DInv'
<1> SUFFICES ASSUME DInv, Update PROVE DInv'
  OBVIOUS
<1>1. File \in Seq(Bytes)
  BY ElementOfSeq DEF DInv, Update, File
<1>2. File' = File
  BY DEF Update, File
<1>3. ASSUME appended
      PROVE  /\ position' \in 0 .. Len(File)
             /\ h' = SubSeq(File, 1, position')
  BY <1>1, <1>3, ChunkExtends DEF DInv, Update, chunk, File
<1>4. UNCHANGED <<inode, name, opened, phase, appended>>
  BY DEF Update
<1> QED
  BY <1>3, <1>4 DEF DInv, File

LEMMA AppendStep == DInv /\ AppendTo => DInv'
<1> SUFFICES ASSUME DInv, NEW k \in DOMAIN inode, NEW b \in Bytes,
                    Written(k, Append(inode[k], b)), UNCHANGED appended
             PROVE  DInv'
  BY DEF AppendTo
<1>1. DOMAIN inode = 1 .. Len(inode)
  BY DEF DInv
<1>2. inode[k] \in Seq(Bytes)
  BY <1>1, ElementOfSeq DEF DInv
<1>3. Append(inode[k], b) \in Seq(Bytes)
  BY <1>2
<1>4. /\ inode' \in Seq(Seq(Bytes))
      /\ Len(inode') = Len(inode)
      /\ \A j \in 1 .. Len(inode) :
           inode'[j] = IF j = k THEN Append(inode[k], b) ELSE inode[j]
  BY <1>1, <1>3, ExceptSeq DEF DInv, Written
<1>5. ASSUME phase = "open", appended
      PROVE  /\ position \in 0 .. Len(inode'[opened])
             /\ h = SubSeq(inode'[opened], 1, position)
  <2>1. /\ opened \in 1 .. Len(inode)
        /\ position \in 0 .. Len(inode[opened])
        /\ h = SubSeq(inode[opened], 1, position)
    BY <1>5 DEF DInv, File
  <2>2. CASE opened = k
    <3>1. inode'[opened] = Append(inode[k], b)
      BY <1>4, <2>1, <2>2
    <3> QED
      BY <1>2, <2>1, <2>2, <3>1, AppendKeeps
  <2>3. CASE opened # k
    BY <1>4, <2>1, <2>3
  <2> QED
    BY <2>2, <2>3
<1>6. UNCHANGED <<name, opened, position, h, phase, appended>>
  BY DEF Written
<1> QED
  BY <1>4, <1>5, <1>6 DEF DInv, File

LEMMA OverwriteStep == DInv /\ Overwrite => DInv'
<1> SUFFICES ASSUME DInv, NEW k \in DOMAIN inode, NEW c \in Contents,
                    Written(k, c), appended' = (appended /\ k # opened)
             PROVE  DInv'
  BY DEF Overwrite
<1>1. DOMAIN inode = 1 .. Len(inode)
  BY DEF DInv
<1>2. /\ inode' \in Seq(Seq(Bytes))
      /\ Len(inode') = Len(inode)
      /\ \A j \in 1 .. Len(inode) : inode'[j] = IF j = k THEN c ELSE inode[j]
  BY <1>1, ExceptSeq, ContentsAreSequences DEF DInv, Written
<1> QED
  BY <1>2 DEF DInv, Written, File

LEMMA ReplaceStep == DInv /\ Replace => DInv'
<1> SUFFICES ASSUME DInv, NEW c \in Contents, inode' = Append(inode, c),
                    name' = Len(inode'), UNCHANGED <<opened, position, h, phase, appended>>
             PROVE  DInv'
  BY DEF Replace
<1>1. /\ inode' \in Seq(Seq(Bytes))
      /\ Len(inode') = Len(inode) + 1
      /\ Len(inode) \in Nat
      /\ \A j \in 1 .. Len(inode) : inode'[j] = inode[j]
  BY ContentsAreSequences DEF DInv
<1> QED
  BY <1>1 DEF DInv, File

LEMMA DStep == DInv /\ [Next]_vars => DInv'
<1> SUFFICES ASSUME DInv, [Next]_vars PROVE DInv'
  OBVIOUS
<1>1. CASE UNCHANGED vars
  BY <1>1 DEF DInv, File, vars
<1>2. CASE Return
  BY <1>2 DEF DInv, File, Return
<1> QED
  BY <1>1, <1>2, OpenStep, UpdateStep, AppendStep, OverwriteStep, ReplaceStep DEF Next

LEMMA DAlways == Spec => []DInv
  BY DInit, DStep, PTL DEF Spec

\* Whoever appends to the file or replaces it meanwhile, what has been hashed
\* is what the file begins with (hashing.py 41-43).
THEOREM AlwaysHashesAPrefix == Spec => []HashesAPrefix
<1>1. DInv => HashesAPrefix
  BY DEF DInv, HashesAPrefix, File
<1> QED
  BY <1>1, DAlways, PTL

\* The step that returns a digest returns that of the whole of the file.
LEMMA ReturnsTheWhole ==
  ASSUME DInv, [Next]_vars, phase = "open", phase' = "returned", appended
  PROVE  digest' = sha256_bytes(inode[opened])
<1>1. Return
  BY DEF Next, vars, Open, Update, AppendTo, Overwrite, Written, Replace
<1>2. File \in Seq(Bytes)
  BY ElementOfSeq DEF DInv, File
<1>3. position = Len(File)
  BY <1>1, <1>2, EmptyChunkAtTheEnd DEF DInv, Return, chunk, File
<1>4. h = File
  BY <1>2, <1>3, SubSeqFull DEF DInv
<1> QED
  BY <1>1, <1>4 DEF Return, File

\* For every size of chunk and of file (hashing.py 38-44).
THEOREM AlwaysDigestsTheWholeFile == Spec => DigestsTheWholeFile
<1>1. DInv /\ [Next]_vars =>
        [phase = "open" /\ phase' = "returned" /\ appended =>
           digest' = sha256_bytes(inode[opened])]_vars
  BY ReturnsTheWhole
<1> QED
  BY <1>1, DAlways, PTL DEF Spec, DigestsTheWholeFile

-----------------------------------------------------------------------------
(* The types.                                                              *)

\* The types, that the bytes hashed are a sequence, and that it takes a write
\* to make a version.
TInv == TypeOK /\ h \in Seq(Bytes) /\ Len(inode) <= writes + 1

LEMMA ContentsAppend ==
  ASSUME NEW c \in Contents, NEW b \in Bytes, Len(c) < MaxSize
  PROVE  Append(c, b) \in Contents
<1>1. PICK n \in 0 .. MaxSize : c \in [1 .. n -> Bytes]
  BY DEF Contents
<1>2. n \in Nat /\ MaxSize \in Nat
  BY <1>1, DigestAssumption
<1>3. c \in Seq(Bytes) /\ Len(c) = n
  <2>1. c \in Seq(Bytes)
    BY <1>1, <1>2, SeqDef
  <2>2. 1 .. Len(c) = 1 .. n /\ Len(c) \in Nat
    BY <1>1, <2>1, LenProperties
  <2> QED
    BY <1>2, <2>1, <2>2
<1>4. /\ Append(c, b) \in Seq(Bytes) /\ Len(Append(c, b)) = n + 1
  BY <1>3
<1>5. Append(c, b) \in [1 .. n + 1 -> Bytes]
  BY <1>2, <1>4, LenProperties, ElementOfSeq
<1>6. n + 1 \in 0 .. MaxSize
  BY <1>2, <1>3
<1> QED
  BY <1>5, <1>6 DEF Contents

LEMMA ChunkIsBytes ==
  ASSUME TInv, phase = "open"
  PROVE  chunk \in Seq(Bytes) /\ Len(chunk) \in Nat
<1>1. opened \in 1 .. Len(inode) /\ inode \in Seq(Contents)
  BY DEF TInv, TypeOK
<1>2. inode[opened] \in Seq(Bytes)
  BY <1>1, ElementOfSeq, ContentsAreSequences
<1> DEFINE file == inode[opened]
<1> HIDE DEF file
<1>3. file \in Seq(Bytes) /\ Len(file) \in Nat
  BY <1>2 DEF file
<1>4. \A i \in position + 1 .. Min2(position + CHUNK, Len(file)) : file[i] \in Bytes
  <2>1. position \in Nat
    BY DEF TInv, TypeOK
  <2> QED
    BY <1>3, <2>1, DigestAssumption, ElementOfSeq DEF Min2
<1>5. SubSeq(file, position + 1, Min2(position + CHUNK, Len(file))) \in Seq(Bytes)
  <2>1. position \in Nat /\ Min2(position + CHUNK, Len(file)) \in Nat
    BY <1>3, DigestAssumption DEF TInv, TypeOK, Min2
  <2> QED
    BY <1>4, <2>1, SubSeqProperties
<1> QED
  BY <1>5 DEF chunk, Read, file

LEMMA TInit == Init => TInv
<1> SUFFICES ASSUME Init PROVE TInv
  OBVIOUS
<1>1. PICK c \in Contents : inode = <<c>>
  BY DEF Init
<1>2. inode \in Seq(Contents) /\ Len(inode) = 1 /\ DOMAIN inode = 1 .. 1
  BY <1>1
<1>3. h \in Seq(Bytes) /\ Len(h) = 0
  BY DEF Init
<1>4. MaxWrites + 1 \in Nat /\ 1 \in 1 .. MaxWrites + 1 /\ 0 \in 0 .. MaxWrites
  BY DigestAssumption
<1> QED
  BY <1>2, <1>3, <1>4 DEF Init, TInv, TypeOK

LEMMA TUpdate == TInv /\ Update => TInv'
<1> SUFFICES ASSUME TInv, Update PROVE TInv'
  OBVIOUS
<1>1. chunk \in Seq(Bytes) /\ Len(chunk) \in Nat /\ h \in Seq(Bytes)
  BY ChunkIsBytes DEF Update, TInv
<1>2. h' = h \o chunk /\ position' = position + Len(chunk) /\ position = Len(h)
  BY DEF Update, TInv, TypeOK
<1> DEFINE c == chunk
<1> HIDE DEF c
<1>3. h \o c \in Seq(Bytes) /\ Len(h \o c) = Len(h) + Len(c)
  BY <1>1, ConcatProperties DEF c
<1>4. h' \in Seq(Bytes) /\ position' = Len(h')
  BY <1>2, <1>3, Zenon DEF c
<1> QED
  BY <1>4 DEF Update, TInv, TypeOK

LEMMA TWritten ==
  ASSUME TInv, NEW k \in DOMAIN inode, NEW c \in Contents, Written(k, c),
         appended' \in BOOLEAN
  PROVE  TInv'
<1>1. DOMAIN inode = 1 .. Len(inode) /\ inode \in Seq(Contents)
  BY DEF TInv, TypeOK
<1>2. inode' \in Seq(Contents) /\ Len(inode') = Len(inode)
  BY <1>1, ExceptSeq DEF Written
<1>3. DOMAIN inode' = DOMAIN inode
  BY DEF Written
<1>4. writes' \in 0 .. MaxWrites
  BY DigestAssumption DEF TInv, TypeOK, Written
<1> QED
  BY <1>2, <1>3, <1>4, DigestAssumption DEF TInv, TypeOK, Written

LEMMA TReplace == TInv /\ Replace => TInv'
<1> SUFFICES ASSUME TInv, Replace PROVE TInv'
  OBVIOUS
<1>1. PICK c \in Contents : inode' = Append(inode, c)
  BY DEF Replace
<1>2. /\ inode \in Seq(Contents) /\ Len(inode) \in 1 .. MaxWrites + 1
      /\ writes \in 0 .. MaxWrites
  BY DEF TInv, TypeOK
<1>3. inode' \in Seq(Contents) /\ Len(inode') = Len(inode) + 1
      /\ DOMAIN inode = 1 .. Len(inode) /\ DOMAIN inode' = 1 .. Len(inode')
  BY <1>1, <1>2, LenProperties
<1>4. Len(inode') \in 1 .. MaxWrites + 1 /\ Len(inode') <= writes' + 1
      /\ writes' \in 0 .. MaxWrites
  BY <1>2, <1>3, DigestAssumption DEF Replace, TInv
<1>5. name' \in DOMAIN inode' /\ DOMAIN inode \subseteq DOMAIN inode'
  BY <1>2, <1>3, <1>4, DigestAssumption DEF Replace
<1> QED
  BY <1>3, <1>4, <1>5 DEF Replace, TInv, TypeOK

LEMMA TStep == TInv /\ [Next]_vars => TInv'
<1> SUFFICES ASSUME TInv, [Next]_vars PROVE TInv'
  OBVIOUS
<1>1. CASE UNCHANGED vars
  BY <1>1 DEF vars, TInv, TypeOK
<1>2. CASE Open
  <2>1. h' \in Seq(Bytes) /\ Len(h') = 0 /\ position' = 0
    BY <1>2 DEF Open
  <2>2. opened' # 0 /\ opened' \in DOMAIN inode
    <3>1. DOMAIN inode = 1 .. Len(inode)
      BY DEF TInv, TypeOK
    <3> QED
      BY <1>2, <3>1 DEF Open, TInv, TypeOK
  <2> QED
    BY <1>2, <2>1, <2>2 DEF Open, TInv, TypeOK
<1>3. CASE Return
  BY <1>3 DEF Return, TInv, TypeOK
<1>4. CASE AppendTo
  <2>1. PICK k \in DOMAIN inode, b \in Bytes :
          Len(inode[k]) < MaxSize /\ Written(k, Append(inode[k], b)) /\ UNCHANGED appended
    BY <1>4 DEF AppendTo
  <2>2. inode[k] \in Contents
    BY ElementOfSeq DEF TInv, TypeOK
  <2>3. Append(inode[k], b) \in Contents /\ appended' \in BOOLEAN
    BY <2>1, <2>2, ContentsAppend DEF TInv, TypeOK
  <2> QED
    BY <2>1, <2>3, TWritten
<1>5. CASE Overwrite
  BY <1>5, TWritten DEF Overwrite, TInv, TypeOK
<1> QED
  BY <1>1, <1>2, <1>3, <1>4, <1>5, TUpdate, TReplace DEF Next

\* The types hold; the position is that of the bytes hashed so far.
THEOREM TypeCorrect == Spec => []TypeOK
<1>1. TInv => TypeOK
  BY DEF TInv
<1> QED
  BY <1>1, TInit, TStep, PTL DEF Spec
=============================================================================
