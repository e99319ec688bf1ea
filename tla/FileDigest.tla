----------------------------- MODULE FileDigest -----------------------------
(***************************************************************************)
(* common/hashing.py: sha256_file reads a file chunk by chunk while others *)
(* append to it, save a new version of it over its name, or write into it. *)
(* A file is a sequence of bytes; a name leads to an inode, and whoever    *)
(* has opened the file stays with the inode the name led to then.          *)
(***************************************************************************)
EXTENDS Naturals, Sequences

CONSTANTS
  Bytes,      \* the values of a byte
  CHUNK,      \* how many are read at a time; 8192 in the code
  MaxSize,    \* the longest file
  MaxWrites   \* how many times it is written

ASSUME DigestAssumption ==
  Bytes # {} /\ CHUNK \in Nat \ {0} /\ MaxSize \in Nat /\ MaxWrites \in Nat

Contents == UNION {[1 .. n -> Bytes] : n \in 0 .. MaxSize}

VARIABLES
  inode,     \* inode[k]: what the k-th version of the file holds
  name,      \* the inode that the name leads to
  opened,    \* the inode that is being read; 0 if none is
  position,  \* how far it has been read
  h,         \* the bytes that have been hashed
  digest,    \* the bytes of which a digest was returned; <<>> until then
  phase,     \* "closed", "open", "returned"
  appended,  \* since it was opened it has only been appended to
  writes     \* how many times files have been written

vars == <<inode, name, opened, position, h, digest, phase, appended, writes>>

-----------------------------------------------------------------------------
(* The reader.  A digest is abstracted by the bytes it is the digest of.   *)

sha256_bytes(data) == data

Min2(a, b) == IF a < b THEN a ELSE b

\* What a read of CHUNK bytes at a position of a file returns.
Read(file, at) == SubSeq(file, at + 1, Min2(at + CHUNK, Len(file)))

Init == /\ inode \in {<<c>> : c \in Contents}
        /\ name = 1
        /\ opened = 0 /\ position = 0 /\ h = <<>> /\ digest = <<>>
        /\ phase = "closed"
        /\ appended = TRUE /\ writes = 0

Open == /\ phase = "closed"
        /\ phase' = "open"
        /\ opened' = name
        /\ position' = 0
        /\ h' = <<>>
        /\ appended' = TRUE
        /\ UNCHANGED <<inode, name, digest, writes>>

\* Defect: the file is opened anew for each chunk.
chunk_by_name == Read(inode[name], position)

chunk == Read(inode[opened], position)

\* Defect: the position advances by a whole chunk.
UpdateByChunk == /\ phase = "open"
                 /\ chunk # <<>>
                 /\ h' = h \o chunk
                 /\ position' = position + CHUNK
                 /\ UNCHANGED <<inode, name, opened, digest, phase, appended, writes>>

Update == /\ phase = "open"
          /\ chunk # <<>>
          /\ h' = h \o chunk
          /\ position' = position + Len(chunk)
          /\ UNCHANGED <<inode, name, opened, digest, phase, appended, writes>>

\* Defect: a chunk that is not full ends the file, and is not hashed.
ReturnAtShortChunk == /\ phase = "open"
                      /\ Len(chunk) < CHUNK
                      /\ digest' = sha256_bytes(h)
                      /\ phase' = "returned"
                      /\ UNCHANGED <<inode, name, opened, position, h, appended, writes>>

Return == /\ phase = "open"
          /\ chunk = <<>>
          /\ digest' = sha256_bytes(h)
          /\ phase' = "returned"
          /\ UNCHANGED <<inode, name, opened, position, h, appended, writes>>

-----------------------------------------------------------------------------
(* The writers.                                                            *)

Written(k, c) == /\ writes < MaxWrites
                 /\ writes' = writes + 1
                 /\ inode' = [inode EXCEPT ![k] = c]
                 /\ UNCHANGED <<name, opened, position, h, digest, phase>>

\* Somebody who has opened a version writes a byte at its end.
AppendTo == \E k \in DOMAIN inode, b \in Bytes :
  /\ Len(inode[k]) < MaxSize
  /\ Written(k, Append(inode[k], b))
  /\ UNCHANGED appended

\* Somebody who has opened a version writes into it, or truncates it.
Overwrite == \E k \in DOMAIN inode, c \in Contents :
  /\ Written(k, c)
  /\ appended' = (appended /\ k # opened)

\* A new version is written apart and renamed over the file.
Replace == \E c \in Contents :
  /\ writes < MaxWrites
  /\ writes' = writes + 1
  /\ inode' = Append(inode, c)
  /\ name' = Len(inode')
  /\ UNCHANGED <<opened, position, h, digest, phase, appended>>

Next == Open \/ Update \/ Return \/ AppendTo \/ Overwrite \/ Replace

Spec == Init /\ [][Next]_vars

-----------------------------------------------------------------------------
(* Properties.                                                             *)

\* The types; the position is that of the bytes hashed so far (42-43).
TypeOK == /\ inode \in Seq(Contents) /\ Len(inode) \in 1 .. MaxWrites + 1
          /\ name \in DOMAIN inode
          /\ opened \in {0} \cup DOMAIN inode
          /\ phase \in {"closed", "open", "returned"}
          /\ phase = "closed" <=> opened = 0
          /\ position = Len(h)
          /\ appended \in BOOLEAN
          /\ writes \in 0 .. MaxWrites

\* Unless the file is written in place while it is read, what has been
\* hashed is what the file begins with, also when it grows meanwhile or is
\* replaced by name (hashing.py 41-43).
HashesAPrefix ==
  phase = "open" /\ appended =>
    /\ position <= Len(inode[opened])
    /\ h = SubSeq(inode[opened], 1, position)

\* And the digest that is returned is of the whole of the file at that very
\* moment: neither the end of a file whose size is no multiple of the chunk
\* nor what was appended meanwhile is missing (hashing.py 40-44).
DigestsTheWholeFile ==
  [][phase = "open" /\ phase' = "returned" /\ appended =>
       digest' = sha256_bytes(inode[opened])]_vars
=============================================================================
