-------------------------- MODULE IntegrityProofs ---------------------------
(***************************************************************************)
(* Inv is an inductive invariant of the database, for every set of rows,   *)
(* every number of connections and every bound on transactions; and what   *)
(* the training system relies on follows from it.                          *)
(***************************************************************************)
EXTENDS Integrity, TLAPS

\* The key names the table, and the entry in the primary key's index is an
\* entry, so rows of the same key clash.
LEMMA SameKeyClashes ==
  ASSUME NEW r, NEW s, Key(r) = Key(s)
  PROVE  Clash(r, s)
<1>1. r.table = s.table
  BY DEF Key
<1>2. Key(r) \in Entries(r) \cap Entries(s)
  BY DEF Entries
<1> QED
  BY <1>1, <1>2 DEF Clash

\* A clash is mutual.
LEMMA ClashSymmetric ==
  ASSUME NEW r, NEW s
  PROVE  Clash(r, s) <=> Clash(s, r)
BY DEF Clash

-----------------------------------------------------------------------------

\* The empty database satisfies the invariant.
LEMMA InitInv == Init => Inv
<1> SUFFICES ASSUME Init PROVE Inv
  OBVIOUS
<1>1. TypeOK
  BY DEF Init, TypeOK
<1>2. Consistent(committed)
  BY DEF Init, Consistent
<1>3. NoLostUpdate
  BY DEF Init, NoLostUpdate, Others
<1>4. WritesUnique
  BY DEF Init, WritesUnique
<1>5. ViewsResolved
  BY DEF Init, ViewsResolved, View
<1>6. ParentsLocked
  BY DEF Init, ParentsLocked
<1> QED
  BY <1>1, <1>2, <1>3, <1>4, <1>5, <1>6 DEF Inv

\* Dropping the writes and locks of a transaction keeps the invariant.
LEMMA UndoInv ==
  ASSUME NEW x \in Txns, Inv, Undo(x)
  PROVE  Inv'
<1> USE DEF Inv
<1>1. /\ added'[x] = {} /\ removed'[x] = {} /\ share'[x] = {}
      /\ \A y \in Others(x) : /\ added'[y] = added[y]
                              /\ removed'[y] = removed[y]
                              /\ share'[y] = share[y]
      /\ committed' = committed
  BY DEF Undo, TypeOK, Others
<1>2. TypeOK'
  BY DEF Undo, TypeOK
<1>3. Consistent(committed)'
  BY <1>1 DEF Consistent
<1>4. NoLostUpdate'
  BY <1>1 DEF NoLostUpdate, Others
<1>5. WritesUnique'
  BY <1>1 DEF WritesUnique, Others, Untouched
<1>6. ViewsResolved'
  <2> SUFFICES ASSUME NEW y \in Txns
               PROVE  /\ \A r \in View(y)' : \A e \in Refs(r) :
                           \E p \in View(y)' : Key(p) = e
                      /\ \A r \in added'[y] : ~ParentHeld(y, Refs(r))'
    BY DEF ViewsResolved
  <2>1. CASE y = x
    BY <2>1, <1>1 DEF View, Consistent
  <2>2. CASE y # x
    <3>1. View(y)' = View(y)
      BY <2>2, <1>1 DEF View, Others
    <3>2. \A z \in Txns : Deleted(z)' \subseteq Deleted(z)
      BY <1>1 DEF Deleted, Others
    <3> QED
      BY <2>2, <1>1, <3>1, <3>2 DEF ViewsResolved, ParentHeld, Others
  <2> QED
    BY <2>1, <2>2
<1>7. ParentsLocked'
  BY <1>1 DEF ParentsLocked, Others
<1> QED
  BY <1>2, <1>3, <1>4, <1>5, <1>6, <1>7

\* A row that fits, and whose parents are there to stay, may be written.
LEMMA InsertInv ==
  ASSUME NEW x \in Txns, NEW r \in Rows, Inv, Insert(x, r)
  PROVE  Inv'
<1> USE DEF Inv
<1>1. /\ added'[x] = added[x] \cup {r}
      /\ share'[x] = share[x] \cup Refs(r)
      /\ \A y \in Others(x) : added'[y] = added[y] /\ share'[y] = share[y]
      /\ removed' = removed /\ committed' = committed
  BY DEF Insert, TypeOK, Others
<1>2. /\ Valid(r)
      /\ \A s \in View(x) : ~Clash(r, s)
      /\ \A y \in Others(x) : \A s \in added[y] \cup removed[y] : ~Clash(r, s)
      /\ \A y \in Others(x) : Refs(r) \cap Deleted(y) = {}
      /\ \A e \in Refs(r) : \E p \in View(x) \cup {r} : Key(p) = e
  BY DEF Insert, EntryHeld, EntryTaken, ParentHeld, ParentMissing
<1>3. View(x)' = View(x) \cup {r} /\ \A y \in Others(x) : View(y)' = View(y)
  BY <1>1 DEF View, Others
<1>4. \A y \in Txns : Deleted(y)' \subseteq Deleted(y)
  BY <1>1 DEF Deleted, Others
<1>5. TypeOK'
  <2>1. added' \in [Txns -> SUBSET Rows]
    BY DEF TypeOK, Insert
  <2>2. share' \in [Txns -> SUBSET UNION {Refs(s) : s \in Rows}]
    <3>1. Refs(r) \subseteq UNION {Refs(s) : s \in Rows}
      OBVIOUS
    <3> QED
      BY <3>1 DEF TypeOK, Insert
  <2> QED
    BY <2>1, <2>2, <1>1 DEF TypeOK
<1>6. Consistent(committed)'
  BY <1>1 DEF Consistent
<1>7. NoLostUpdate'
  BY <1>1 DEF NoLostUpdate, Others
<1>8. WritesUnique'
  <2> SUFFICES ASSUME NEW y \in Txns, NEW s \in added'[y]
               PROVE  /\ Valid(s)
                      /\ \A q \in Untouched(y)' \cup (added'[y] \ {s}) : ~Clash(s, q)
                      /\ \A z \in Others(y) : \A q \in added'[z] : ~Clash(s, q)
    BY DEF WritesUnique
  <2>1. Valid(s)
    BY <1>1, <1>2 DEF WritesUnique, Others
  <2>2. ASSUME NEW q \in Untouched(y)' \cup (added'[y] \ {s})
        PROVE  ~Clash(s, q)
    <3>1. CASE y # x
      BY <3>1, <2>2, <1>1 DEF WritesUnique, Untouched, Others
    <3>2. CASE y = x /\ s = r
      BY <3>2, <2>2, <1>1, <1>2 DEF Untouched, View
    <3>3. CASE y = x /\ s # r /\ q = r
      BY <3>3, <1>1, <1>2, ClashSymmetric DEF View
    <3>4. CASE y = x /\ s # r /\ q # r
      BY <3>4, <2>2, <1>1 DEF WritesUnique, Untouched
    <3> QED
      BY <3>1, <3>2, <3>3, <3>4
  <2>3. ASSUME NEW z \in Others(y), NEW q \in added'[z]
        PROVE  ~Clash(s, q)
    <3>1. CASE y = x /\ s = r
      BY <3>1, <2>3, <1>1, <1>2 DEF Others
    <3>2. CASE z = x /\ q = r
      BY <3>2, <2>3, <1>1, <1>2, ClashSymmetric DEF Others
    <3>3. CASE ~(y = x /\ s = r) /\ ~(z = x /\ q = r)
      BY <3>3, <2>3, <1>1 DEF WritesUnique, Others
    <3> QED
      BY <3>1, <3>2, <3>3
  <2> QED
    BY <2>1, <2>2, <2>3
<1>9. ViewsResolved'
  <2> SUFFICES ASSUME NEW y \in Txns
               PROVE  /\ \A s \in View(y)' : \A e \in Refs(s) :
                           \E p \in View(y)' : Key(p) = e
                      /\ \A s \in added'[y] : ~ParentHeld(y, Refs(s))'
    BY DEF ViewsResolved
  <2>1. \A s \in View(y)' : \A e \in Refs(s) : \E p \in View(y)' : Key(p) = e
    <3>1. CASE y = x
      BY <3>1, <1>2, <1>3 DEF ViewsResolved
    <3>2. CASE y # x
      BY <3>2, <1>3 DEF ViewsResolved, Others
    <3> QED
      BY <3>1, <3>2
  <2>2. ASSUME NEW s \in added'[y], NEW z \in Others(y)
        PROVE  Refs(s) \cap Deleted(z)' = {}
    <3>1. CASE s \in added[y]
      BY <3>1, <2>2, <1>4 DEF ViewsResolved, ParentHeld, Others
    <3>2. CASE s \notin added[y]
      BY <3>2, <2>2, <1>1, <1>2, <1>4 DEF Others
    <3> QED
      BY <3>1, <3>2
  <2> QED
    BY <2>1, <2>2 DEF ParentHeld, Others
<1>10. ParentsLocked'
  BY <1>1 DEF ParentsLocked, Others
<1> QED
  BY <1>5, <1>6, <1>7, <1>8, <1>9, <1>10

\* A row nobody refers to, and nobody has locked, may be deleted.
LEMMA DeleteInv ==
  ASSUME NEW x \in Txns, NEW p \in Rows, Inv, Delete(x, p)
  PROVE  Inv'
<1> USE DEF Inv
<1>1. /\ added'[x] = added[x] \ {p}
      /\ removed'[x] = removed[x] \cup ({p} \ added[x])
      /\ \A y \in Others(x) : added'[y] = added[y] /\ removed'[y] = removed[y]
      /\ share' = share /\ committed' = committed
  BY DEF Delete, TypeOK, Others
<1>2. /\ p \in View(x)
      /\ \A y \in Others(x) : p \notin removed[y] /\ Key(p) \notin share[y]
      /\ \A r \in View(x) \ {p} : Key(p) \notin Refs(r)
  BY DEF Delete, RowHeld, KeyLocked, Children
<1>3. p \in added[x] => p \notin Untouched(x)
  BY SameKeyClashes DEF WritesUnique
<1>4. /\ View(x)' = View(x) \ {p}
      /\ Untouched(x)' \subseteq Untouched(x)
      /\ \A y \in Others(x) : View(y)' = View(y) /\ Untouched(y)' = Untouched(y)
  <2>1. \A y \in Others(x) : View(y)' = View(y) /\ Untouched(y)' = Untouched(y)
    BY <1>1 DEF View, Untouched, Others
  <2>2. Untouched(x)' \subseteq Untouched(x)
    BY <1>1 DEF Untouched
  <2>3. View(x)' = View(x) \ {p}
    BY <1>1, <1>2, <1>3 DEF View, Untouched
  <2> QED
    BY <2>1, <2>2, <2>3
<1>5. /\ Deleted(x)' \subseteq Deleted(x) \cup {Key(p)}
      /\ \A y \in Others(x) : Deleted(y)' = Deleted(y)
  BY <1>1 DEF Deleted, Others
<1>6. TypeOK'
  BY DEF TypeOK, Delete
<1>7. Consistent(committed)'
  BY <1>1 DEF Consistent
<1>8. NoLostUpdate'
  BY <1>1, <1>2 DEF NoLostUpdate, Others, View
<1>9. WritesUnique'
  BY <1>1, <1>4 DEF WritesUnique, Others
<1>10. ViewsResolved'
  <2> SUFFICES ASSUME NEW y \in Txns
               PROVE  /\ \A s \in View(y)' : \A e \in Refs(s) :
                           \E q \in View(y)' : Key(q) = e
                      /\ \A s \in added'[y] : ~ParentHeld(y, Refs(s))'
    BY DEF ViewsResolved
  <2>1. \A s \in View(y)' : \A e \in Refs(s) : \E q \in View(y)' : Key(q) = e
    <3>1. CASE y = x
      BY <3>1, <1>2, <1>4 DEF ViewsResolved
    <3>2. CASE y # x
      BY <3>2, <1>4 DEF ViewsResolved, Others
    <3> QED
      BY <3>1, <3>2
  <2>2. ASSUME NEW s \in added'[y], NEW z \in Others(y)
        PROVE  Refs(s) \cap Deleted(z)' = {}
    <3>1. s \in added[y]
      BY <2>2, <1>1 DEF Others
    <3>2. Refs(s) \cap Deleted(z) = {}
      BY <3>1, <2>2 DEF ViewsResolved, ParentHeld
    <3>3. CASE z # x
      BY <3>2, <3>3, <1>5, <2>2 DEF Others
    <3>4. CASE z = x
      \* A new row of y that refers to p either holds a lock on p or replaces
      \* a row that refers to p, which x would see.
      <4>1. y \in Others(x)
        BY <3>4, <2>2 DEF Others
      <4>2. ASSUME Key(p) \in Refs(s) PROVE FALSE
        <5>1. Key(p) \notin share[y]
          BY <1>2, <4>1
        <5>2. PICK o \in removed[y] : Key(p) \in Refs(o)
          BY <5>1, <4>2, <3>1 DEF ParentsLocked
        <5>3. o \in View(x) \ {p}
          BY <5>2, <4>1, <1>2 DEF NoLostUpdate, View, Others
        <5> QED
          BY <5>2, <5>3, <1>2
      <4> QED
        BY <3>2, <3>4, <4>2, <1>5
    <3> QED
      BY <3>3, <3>4
  <2> QED
    BY <2>1, <2>2 DEF ParentHeld, Others
<1>11. ParentsLocked'
  BY <1>1 DEF ParentsLocked, Others
<1> QED
  BY <1>6, <1>7, <1>8, <1>9, <1>10, <1>11

\* A row may be replaced by one of the same key that fits in its place.
LEMMA UpdateInv ==
  ASSUME NEW x \in Txns, NEW o \in Rows, NEW n \in Rows, Inv, Update(x, o, n)
  PROVE  Inv'
<1> USE DEF Inv
<1>1. /\ added'[x] = (added[x] \ {o}) \cup {n}
      /\ removed'[x] = removed[x] \cup ({o} \ added[x])
      /\ share'[x] = share[x] \cup (Refs(n) \ Refs(o))
      /\ \A y \in Others(x) : /\ added'[y] = added[y]
                              /\ removed'[y] = removed[y]
                              /\ share'[y] = share[y]
      /\ committed' = committed
  BY DEF Update, TypeOK, Others, NewRefs
<1>2. /\ o \in View(x) /\ n # o /\ Key(n) = Key(o) /\ Valid(n)
      /\ \A y \in Others(x) : o \notin removed[y]
      /\ \A s \in View(x) \ {o} : ~Clash(n, s)
      /\ \A y \in Others(x) : \A s \in added[y] \cup removed[y] : ~Clash(n, s)
      /\ \A y \in Others(x) : (Refs(n) \ Refs(o)) \cap Deleted(y) = {}
      /\ \A e \in Refs(n) \ Refs(o) :
           \E p \in (View(x) \ {o}) \cup {n} : Key(p) = e
  BY DEF Update, Replaces, RowHeld, EntryHeld, EntryTaken, ParentHeld,
         ParentMissing, NewRefs, NewView
<1>3. o \in added[x] => o \notin Untouched(x)
  BY SameKeyClashes DEF WritesUnique
<1>4. /\ View(x)' = (View(x) \ {o}) \cup {n}
      /\ Untouched(x)' \subseteq Untouched(x) \ {o}
      /\ \A y \in Others(x) : View(y)' = View(y) /\ Untouched(y)' = Untouched(y)
  <2>1. \A y \in Others(x) : View(y)' = View(y) /\ Untouched(y)' = Untouched(y)
    BY <1>1 DEF View, Untouched, Others
  <2>2. Untouched(x)' \subseteq Untouched(x) \ {o}
    BY <1>1, <1>3 DEF Untouched
  <2>3. View(x)' = (View(x) \ {o}) \cup {n}
    BY <1>1, <1>2, <1>3 DEF View, Untouched
  <2> QED
    BY <2>1, <2>2, <2>3
<1>5. \A y \in Txns : Deleted(y)' \subseteq Deleted(y)
  <2>1. Deleted(x)' \subseteq Deleted(x)
    BY <1>1, <1>2 DEF Deleted
  <2> QED
    BY <2>1, <1>1 DEF Deleted, Others
<1>6. TypeOK'
  <2>1. added' \in [Txns -> SUBSET Rows] /\ removed' \in [Txns -> SUBSET Rows]
    BY DEF TypeOK, Update
  <2>2. share' \in [Txns -> SUBSET UNION {Refs(s) : s \in Rows}]
    <3>1. Refs(n) \subseteq UNION {Refs(s) : s \in Rows}
      OBVIOUS
    <3> QED
      BY <3>1 DEF TypeOK, Update, NewRefs
  <2> QED
    BY <2>1, <2>2, <1>1 DEF TypeOK
<1>7. Consistent(committed)'
  BY <1>1 DEF Consistent
<1>8. NoLostUpdate'
  BY <1>1, <1>2 DEF NoLostUpdate, Others, View
<1>9. WritesUnique'
  <2> SUFFICES ASSUME NEW y \in Txns, NEW s \in added'[y]
               PROVE  /\ Valid(s)
                      /\ \A q \in Untouched(y)' \cup (added'[y] \ {s}) : ~Clash(s, q)
                      /\ \A z \in Others(y) : \A q \in added'[z] : ~Clash(s, q)
    BY DEF WritesUnique
  <2>1. Valid(s)
    BY <1>1, <1>2 DEF WritesUnique, Others
  <2>2. ASSUME NEW q \in Untouched(y)' \cup (added'[y] \ {s})
        PROVE  ~Clash(s, q)
    <3>1. CASE y # x
      BY <3>1, <2>2, <1>1, <1>4 DEF WritesUnique, Others
    <3>2. CASE y = x /\ s = n
      BY <3>2, <2>2, <1>1, <1>2, <1>4 DEF Untouched, View
    <3>3. CASE y = x /\ s # n /\ q = n
      BY <3>3, <1>1, <1>2, ClashSymmetric DEF View
    <3>4. CASE y = x /\ s # n /\ q # n
      BY <3>4, <2>2, <1>1, <1>4 DEF WritesUnique
    <3> QED
      BY <3>1, <3>2, <3>3, <3>4
  <2>3. ASSUME NEW z \in Others(y), NEW q \in added'[z]
        PROVE  ~Clash(s, q)
    <3>1. CASE y = x /\ s = n
      BY <3>1, <2>3, <1>1, <1>2 DEF Others
    <3>2. CASE z = x /\ q = n
      BY <3>2, <2>3, <1>1, <1>2, ClashSymmetric DEF Others
    <3>3. CASE ~(y = x /\ s = n) /\ ~(z = x /\ q = n)
      BY <3>3, <2>3, <1>1 DEF WritesUnique, Others
    <3> QED
      BY <3>1, <3>2, <3>3
  <2> QED
    BY <2>1, <2>2, <2>3
<1>10. ViewsResolved'
  <2> SUFFICES ASSUME NEW y \in Txns
               PROVE  /\ \A s \in View(y)' : \A e \in Refs(s) :
                           \E p \in View(y)' : Key(p) = e
                      /\ \A s \in added'[y] : ~ParentHeld(y, Refs(s))'
    BY DEF ViewsResolved
  <2>1. \A s \in View(y)' : \A e \in Refs(s) : \E p \in View(y)' : Key(p) = e
    <3>1. CASE y = x
      \* n stands in for o wherever o is referred to.
      <4> SUFFICES ASSUME NEW s \in View(x)', NEW e \in Refs(s)
                   PROVE  \E p \in View(x)' : Key(p) = e
        BY <3>1
      <4>1. CASE s = n /\ e \notin Refs(o)
        BY <4>1, <1>2, <1>4
      <4>2. CASE s # n \/ e \in Refs(o)
        <5>1. PICK p \in View(x) : Key(p) = e
          BY <4>2, <1>2, <1>4 DEF ViewsResolved
        <5> QED
          BY <5>1, <1>2, <1>4
      <4> QED
        BY <4>1, <4>2
    <3>2. CASE y # x
      BY <3>2, <1>4 DEF ViewsResolved, Others
    <3> QED
      BY <3>1, <3>2
  <2>2. ASSUME NEW s \in added'[y], NEW z \in Others(y)
        PROVE  Refs(s) \cap Deleted(z)' = {}
    <3>1. CASE s \in added[y]
      BY <3>1, <2>2, <1>5 DEF ViewsResolved, ParentHeld, Others
    <3>2. CASE s \notin added[y]
      <4>1. y = x /\ s = n /\ z \in Others(x)
        BY <3>2, <2>2, <1>1 DEF Others
      <4>2. ASSUME NEW e \in Refs(n), e \in Refs(o), e \in Deleted(z)
            PROVE  FALSE
        \* o was there before, so z cannot have deleted what it refers to.
        <5>1. CASE o \in added[x]
          BY <5>1, <4>1, <4>2 DEF ViewsResolved, ParentHeld
        <5>2. CASE o \notin added[x]
          <6>1. o \in View(z)
            BY <5>2, <4>1, <1>2 DEF View
          <6>2. PICK q \in View(z) : Key(q) = e
            BY <6>1, <4>1, <4>2 DEF ViewsResolved, Others
          <6>3. q \in committed /\ q \notin removed[z]
            BY <6>2, <4>2 DEF View, Deleted
          <6>4. PICK p \in removed[z] : Key(p) = e
            BY <4>2 DEF Deleted
          <6>5. p \in committed
            BY <6>4, <4>1 DEF NoLostUpdate, Others
          <6> QED
            BY <6>2, <6>3, <6>4, <6>5, SameKeyClashes DEF Consistent
        <5> QED
          BY <5>1, <5>2
      <4> QED
        BY <4>1, <4>2, <1>2, <1>5 DEF Others
    <3> QED
      BY <3>1, <3>2
  <2> QED
    BY <2>1, <2>2 DEF ParentHeld, Others
<1>11. ParentsLocked'
  <2> SUFFICES ASSUME NEW y \in Txns, NEW s \in added'[y], NEW e \in Refs(s)
               PROVE  e \in share'[y] \/ \E q \in removed'[y] : e \in Refs(q)
    BY DEF ParentsLocked
  <2>1. CASE s \in added[y]
    BY <2>1, <1>1 DEF ParentsLocked, Others
  <2>2. CASE s \notin added[y]
    <3>1. y = x /\ s = n
      BY <2>2, <1>1 DEF Others
    <3>2. CASE e \in Refs(o) /\ o \in added[x]
      BY <3>1, <3>2, <1>1 DEF ParentsLocked
    <3>3. CASE e \in Refs(o) /\ o \notin added[x]
      BY <3>1, <3>3, <1>1
    <3>4. CASE e \notin Refs(o)
      BY <3>1, <3>4, <1>1
    <3> QED
      BY <3>2, <3>3, <3>4
  <2> QED
    BY <2>1, <2>2
<1> QED
  BY <1>6, <1>7, <1>8, <1>9, <1>10, <1>11

\* A transaction may commit whatever the others are doing.
LEMMA CommitInv ==
  ASSUME NEW x \in Txns, Inv, Commit(x)
  PROVE  Inv'
<1> USE DEF Inv
<1>1. /\ added'[x] = {} /\ removed'[x] = {} /\ share'[x] = {}
      /\ \A y \in Others(x) : /\ added'[y] = added[y]
                              /\ removed'[y] = removed[y]
                              /\ share'[y] = share[y]
      /\ committed' = (committed \ removed[x]) \cup added[x]
  BY DEF Commit, TypeOK, Others, View
<1>2. committed' = View(x)
  BY DEF Commit
<1>3. \A y \in Txns : Deleted(y)' \subseteq Deleted(y)
  BY <1>1 DEF Deleted, Others
<1>4. TypeOK'
  BY <1>1 DEF TypeOK, Commit
\* The rows x has written are none of those the others have removed.
<1>5. \A y \in Others(x) : added[x] \cap removed[y] = {}
  <2> SUFFICES ASSUME NEW y \in Others(x), NEW r \in added[x], r \in removed[y]
               PROVE  FALSE
    OBVIOUS
  <2>1. r \in Untouched(x)
    BY DEF NoLostUpdate, Untouched, Others
  <2> QED
    BY <2>1, SameKeyClashes DEF WritesUnique
<1>6. Consistent(committed)'
  <2>1. \A r \in View(x) : Valid(r)
    BY DEF View, Consistent, WritesUnique
  <2>2. \A r, s \in View(x) : r # s => ~Clash(r, s)
    <3> SUFFICES ASSUME NEW r \in View(x), NEW s \in View(x), r # s
                 PROVE  ~Clash(r, s)
      OBVIOUS
    <3>1. CASE r \in added[x]
      BY <3>1 DEF View, Untouched, WritesUnique
    <3>2. CASE s \in added[x]
      BY <3>2, ClashSymmetric DEF View, Untouched, WritesUnique
    <3>3. CASE r \notin added[x] /\ s \notin added[x]
      BY <3>3 DEF View, Consistent
    <3> QED
      BY <3>1, <3>2, <3>3
  <2>3. \A r \in View(x) : \A e \in Refs(r) : \E p \in View(x) : Key(p) = e
    BY DEF ViewsResolved
  <2> QED
    BY <1>2, <2>1, <2>2, <2>3 DEF Consistent
<1>7. NoLostUpdate'
  BY <1>1 DEF NoLostUpdate, Others
<1>8. WritesUnique'
  <2> SUFFICES ASSUME NEW y \in Others(x), NEW r \in added[y]
               PROVE  /\ Valid(r)
                      /\ \A s \in Untouched(y)' \cup (added[y] \ {r}) : ~Clash(r, s)
                      /\ \A z \in Others(y) : \A s \in added'[z] : ~Clash(r, s)
    BY <1>1 DEF WritesUnique, Others
  <2>1. Valid(r) /\ \A s \in added[y] \ {r} : ~Clash(r, s)
    BY DEF WritesUnique, Others
  <2>2. \A s \in Untouched(y)' : s \in Untouched(y) \/ s \in added[x]
    BY <1>1 DEF Untouched, Others
  <2>3. \A s \in Untouched(y)' : ~Clash(r, s)
    BY <2>2 DEF WritesUnique, Others
  <2>4. \A z \in Others(y) : \A s \in added'[z] : ~Clash(r, s)
    BY <1>1 DEF WritesUnique, Others
  <2> QED
    BY <2>1, <2>3, <2>4
<1>9. ViewsResolved'
  <2>1. View(x)' = View(x)
    BY <1>1, <1>2 DEF View
  <2>2. ASSUME NEW y \in Others(x), NEW r \in View(y)', NEW e \in Refs(r)
        PROVE  \E p \in View(y)' : Key(p) = e
    <3>1. y \in Txns /\ x \in Others(y)
      BY DEF Others
    <3>2. View(y)' = (((committed \ removed[x]) \cup added[x]) \ removed[y]) \cup added[y]
      BY <1>1 DEF View
    <3>3. added[x] \subseteq View(y)' /\ added[y] \subseteq View(y)'
      BY <3>2, <1>5
    <3>4. CASE r \in added[x]
      \* The parent x sees, unless y has replaced it.
      <4>1. PICK p \in View(x) : Key(p) = e
        BY <3>4 DEF ViewsResolved, View
      <4>2. e \notin Deleted(y)
        BY <3>4 DEF ViewsResolved, ParentHeld
      <4>3. CASE p \in View(y)'
        BY <4>1, <4>3
      <4>4. CASE p \notin View(y)'
        <5>1. p \in removed[y]
          BY <4>1, <4>4, <3>2, <3>3 DEF View
        <5> QED
          BY <5>1, <4>1, <4>2, <3>3 DEF Deleted
      <4> QED
        BY <4>3, <4>4
    <3>5. CASE r \notin added[x]
      \* The parent y sees, unless x has replaced it.
      <4>1. r \in View(y)
        BY <3>5, <3>2 DEF View
      <4>2. PICK p \in View(y) : Key(p) = e
        BY <4>1, <3>1 DEF ViewsResolved
      <4>3. CASE p \in View(y)'
        BY <4>2, <4>3
      <4>4. CASE p \notin View(y)'
        <5>1. p \in committed /\ p \in removed[x]
          BY <4>2, <4>4, <3>2 DEF View
        <5>2. CASE r \in added[y]
          <6>1. e \notin Deleted(x)
            BY <5>2, <3>1 DEF ViewsResolved, ParentHeld
          <6> QED
            BY <6>1, <5>1, <4>2, <3>3 DEF Deleted
        <5>3. CASE r \notin added[y]
          <6>1. r \in View(x)
            BY <5>3, <3>5, <3>2 DEF View
          <6>2. PICK q \in View(x) : Key(q) = e
            BY <6>1 DEF ViewsResolved
          <6>3. q \in added[x]
            BY <6>2, <5>1, <4>2, SameKeyClashes DEF View, Consistent
          <6> QED
            BY <6>2, <6>3, <3>3
        <5> QED
          BY <5>2, <5>3
      <4> QED
        BY <4>3, <4>4
    <3> QED
      BY <3>4, <3>5
  <2>3. ASSUME NEW y \in Txns, NEW r \in View(y)', NEW e \in Refs(r)
        PROVE  \E p \in View(y)' : Key(p) = e
    <3>1. CASE y = x
      BY <3>1, <2>1, <2>3 DEF ViewsResolved
    <3> QED
      BY <3>1, <2>2, <2>3 DEF Others
  <2>4. ASSUME NEW y \in Txns, NEW r \in added'[y]
        PROVE  ~ParentHeld(y, Refs(r))'
    BY <2>4, <1>1, <1>3 DEF ViewsResolved, ParentHeld, Others
  <2> QED
    BY <2>3, <2>4 DEF ViewsResolved
<1>10. ParentsLocked'
  BY <1>1 DEF ParentsLocked, Others
<1> QED
  BY <1>4, <1>6, <1>7, <1>8, <1>9, <1>10

\* Every step preserves the invariant.
LEMMA NextInv == Inv /\ [Next]_vars => Inv'
<1> SUFFICES ASSUME Inv, [Next]_vars PROVE Inv'
  OBVIOUS
<1>1. CASE UNCHANGED vars
  BY <1>1 DEF vars, Inv, TypeOK, Consistent, NoLostUpdate, WritesUnique,
     ViewsResolved, ParentsLocked, Untouched, View, ParentHeld, Deleted, Others
<1>2. ASSUME NEW x \in Txns, NEW r \in Rows, Insert(x, r) PROVE Inv'
  BY <1>2, InsertInv
<1>3. ASSUME NEW x \in Txns, NEW o \in Rows, NEW n \in Rows, Update(x, o, n)
      PROVE  Inv'
  BY <1>3, UpdateInv
<1>4. ASSUME NEW x \in Txns, NEW p \in Rows, Delete(x, p) PROVE Inv'
  BY <1>4, DeleteInv
<1>5. ASSUME NEW x \in Txns, Commit(x) PROVE Inv'
  BY <1>5, CommitInv
<1>6. ASSUME NEW x \in Txns, Undo(x) PROVE Inv'
  BY <1>6, UndoInv
<1> QED
  BY <1>1, <1>2, <1>3, <1>4, <1>5, <1>6
     DEF Next, RefuseInsert, RefuseUpdate, RefuseDelete, Rollback

-----------------------------------------------------------------------------

\* The database is always consistent, and so is what every transaction in
\* flight is about to make of it.
THEOREM Invariance == Spec => []Inv
BY InitInv, NextInv, PTL DEF Spec

\* The variables keep their types.
THEOREM TypeCorrect == Spec => []TypeOK
<1>1. Inv => TypeOK
  BY DEF Inv
<1> QED
  BY <1>1, Invariance, PTL

\* Every step of the database is a step of the ledger, or none.
THEOREM Refinement == Spec => ImplementsLedger
<1>1. Init => L!Init
  BY DEF Init, L!Init
<1>2. Inv /\ Inv' /\ [Next]_vars => [L!Next]_committed
  BY DEF Inv, TypeOK, L!Next
<1> QED
  BY <1>1, <1>2, Invariance, PTL DEF Spec, L!Spec, ImplementsLedger

-----------------------------------------------------------------------------
(* What a foreign key with no NULL column means, for each key in use.      *)

\* A row of a consistent database has the row each foreign key names.
LEMMA Parent ==
  ASSUME NEW S, Consistent(S), NEW r \in S, NEW fk \in ForeignKeys(r.table),
         \A i \in DOMAIN fk.columns : r[fk.columns[i]] # NULL
  PROVE  \E p \in S : /\ p.table = fk.to
                      /\ Project(p, Tables[fk.to].primaryKey) = Project(r, fk.columns)
<1>1. <<fk.to, Project(r, fk.columns)>> \in Refs(r)
  BY DEF Refs
<1>2. PICK p \in S : Key(p) = <<fk.to, Project(r, fk.columns)>>
  BY <1>1 DEF Consistent
<1> QED
  BY <1>2 DEF Key

\* A foreign key of one column, to a table whose primary key is one column.
LEMMA ParentByColumn ==
  ASSUME NEW S, Consistent(S), NEW r \in S, NEW c, NEW t, NEW k,
         ForeignKey(<<c>>, t) \in ForeignKeys(r.table), r[c] # NULL,
         Tables[t].primaryKey = <<k>>
  PROVE  \E p \in S : p.table = t /\ p[k] = r[c]
<1> DEFINE fk == ForeignKey(<<c>>, t)
<1>1. fk.columns = <<c>> /\ fk.to = t
  BY DEF ForeignKey
<1>2. \A i \in DOMAIN fk.columns : r[fk.columns[i]] # NULL
  BY <1>1
<1>3. PICK p \in S : /\ p.table = t
                    /\ Project(p, <<k>>) = Project(r, <<c>>)
  BY <1>1, <1>2, Parent
<1>4. Project(p, <<k>>)[1] = p[k] /\ Project(r, <<c>>)[1] = r[c]
  BY DEF Project
<1> QED
  BY <1>3, <1>4

-----------------------------------------------------------------------------
(* What the training system relies on.                                     *)

\* Two attempts under way would share the only key of uq_attempts__one_active.
LEMMA ActiveAttemptsClash ==
  ASSUME NEW a, NEW b, a.table = "attempts", b.table = "attempts",
         Valid(a), Valid(b), a.state \notin Ended, b.state \notin Ended
  PROVE  Clash(a, b)
<1>1. a.state \in AttemptStates /\ b.state \in AttemptStates
  BY DEF Valid, Checks, ck_attempts
<1> QED
  BY <1>1 DEF Clash, Entries, uq_attempts__one_active, AttemptStates, Ended

\* At most one attempt is under way, whatever transactions run.
THEOREM OneActiveAttemptHolds == Spec => []OneActiveAttempt
<1>1. Inv => OneActiveAttempt
  BY ActiveAttemptsClash DEF Inv, Consistent, OneActiveAttempt, Of
<1> QED
  BY <1>1, Invariance, PTL

\* Two live sessions never hold one rank.
THEOREM OneLiveSessionHolds == Spec => []OneLiveSession
<1>1. ASSUME NEW s, NEW t,
             s.table = "worker_sessions", t.table = "worker_sessions",
             s.attempt_id = t.attempt_id, s.worker_id = t.worker_id,
             s.state \notin Lost, t.state \notin Lost
      PROVE  Clash(s, t)
  BY <1>1 DEF Clash, Entries, uq_worker_sessions__active_rank, Lost
<1>2. Inv => OneLiveSession
  BY <1>1 DEF Inv, Consistent, OneLiveSession, Of
<1> QED
  BY <1>2, Invariance, PTL

\* A worker contributes once to a step.
THEOREM ContributesOnceHolds == Spec => []ContributesOnce
<1>1. ASSUME NEW v, NEW w,
             v.table = "worker_steps", w.table = "worker_steps",
             v.attempt_id = w.attempt_id, v.step_id = w.step_id,
             v.worker_id = w.worker_id
      PROVE  Key(v) = Key(w)
  <2> DEFINE pk == <<"attempt_id", "step_id", "worker_id">>
  <2>1. Tables["worker_steps"].primaryKey = pk
    BY DEF Tables, worker_steps
  <2>2. \A i \in DOMAIN pk : v[pk[i]] = w[pk[i]]
    BY <1>1
  <2>3. Project(v, pk) = Project(w, pk)
    BY <2>2 DEF Project
  <2> QED
    BY <1>1, <2>1, <2>3 DEF Key
<1>2. Inv => ContributesOnce
  BY <1>1, SameKeyClashes DEF Inv, Consistent, ContributesOnce, Of
<1> QED
  BY <1>2, Invariance, PTL

\* A numbered event is recorded once.
THEOREM RecordedOnceHolds == Spec => []RecordedOnce
<1>1. ASSUME NEW e, NEW f, e.table = "events", f.table = "events",
             e.attempt_id = f.attempt_id, e.attempt_id # NULL,
             e.runtime_event_seq = f.runtime_event_seq,
             e.runtime_event_seq # NULL
      PROVE  Clash(e, f)
  BY <1>1 DEF Clash, Entries, uq_events__attempt_runtime_seq
<1>2. Inv => RecordedOnce
  BY <1>1 DEF Inv, Consistent, RecordedOnce, Of
<1> QED
  BY <1>2, Invariance, PTL

\* A resumed attempt keeps its checkpoint, its writer and its job.
THEOREM LineageIsKept == Spec => []LineageKept
<1>1. ASSUME Inv, NEW a \in Of("attempts")
      PROVE  /\ \E j \in Of("jobs") : j.job_id = a.job_id
             /\ a.execution_mode = "RESUME" =>
                  \E c \in Of("checkpoints") :
                    /\ c.checkpoint_id = a.resume_from_checkpoint_id
                    /\ \E w \in Of("attempts") : w.attempt_id = c.created_by_attempt_id
             /\ a.execution_mode # "RESUME" => a.resume_from_checkpoint_id = NULL
  <2>1. /\ Consistent(committed) /\ a \in committed /\ a.table = "attempts"
        /\ Valid(a) /\ ck_attempts(a)
    BY <1>1 DEF Inv, Consistent, Of, Valid, Checks
  <2>2. \E j \in Of("jobs") : j.job_id = a.job_id
    <3>1. ForeignKey(<<"job_id">>, "jobs") \in ForeignKeys("attempts")
      BY DEF ForeignKeys, Tables, attempts
    <3>2. a["job_id"] # NULL
      BY <2>1 DEF Valid, Tables, attempts
    <3>3. Tables["jobs"].primaryKey = <<"job_id">>
      BY DEF Tables, jobs
    <3> QED
      BY <2>1, <3>1, <3>2, <3>3, ParentByColumn DEF Of
  <2>3. ASSUME a.execution_mode = "RESUME"
        PROVE  \E c \in Of("checkpoints") :
                 /\ c.checkpoint_id = a.resume_from_checkpoint_id
                 /\ \E w \in Of("attempts") : w.attempt_id = c.created_by_attempt_id
    <3>1. ForeignKey(<<"resume_from_checkpoint_id">>, "checkpoints")
            \in ForeignKeys("attempts")
      BY DEF ForeignKeys, circular_fk
    <3>2. a["resume_from_checkpoint_id"] # NULL
      BY <2>1, <2>3 DEF ck_attempts
    <3>3. Tables["checkpoints"].primaryKey = <<"checkpoint_id">>
      BY DEF Tables, checkpoints
    <3>4. PICK c \in committed :
            /\ c.table = "checkpoints"
            /\ c["checkpoint_id"] = a["resume_from_checkpoint_id"]
      BY <2>1, <3>1, <3>2, <3>3, ParentByColumn
    <3>5. ForeignKey(<<"created_by_attempt_id">>, "attempts")
            \in ForeignKeys("checkpoints")
      BY DEF ForeignKeys, Tables, checkpoints
    <3>6. c["created_by_attempt_id"] # NULL
      BY <2>1, <3>4 DEF Consistent, Valid, Tables, checkpoints, CompleteColumns
    <3>7. Tables["attempts"].primaryKey = <<"attempt_id">>
      BY DEF Tables, attempts
    <3>8. \E w \in committed :
            w.table = "attempts" /\ w["attempt_id"] = c["created_by_attempt_id"]
      BY <2>1, <3>4, <3>5, <3>6, <3>7, ParentByColumn
    <3> QED
      BY <3>4, <3>8 DEF Of
  <2> QED
    BY <2>1, <2>2, <2>3 DEF ck_attempts
<1>2. Inv => LineageKept
  BY <1>1 DEF LineageKept
<1> QED
  BY <1>2, Invariance, PTL

\* A COMPLETE checkpoint keeps its build and the build's dataset.
THEOREM CompleteStaysRestorable == Spec => []CompleteIsRestorable
<1>1. ASSUME Inv, NEW c \in Of("checkpoints"), c.state = "COMPLETE"
      PROVE  /\ \A col \in {"contract_hash", "model_path", "metadata_path",
                            "model_sha256", "metadata_sha256", "completed_at"} :
                  c[col] # NULL
             /\ \E b \in Of("dataset_builds") :
                  /\ b.dataset_build_id = c.dataset_build_id
                  /\ \E d \in Of("datasets") : d.dataset_id = b.dataset_id
  <2>1. /\ Consistent(committed) /\ c \in committed /\ c.table = "checkpoints"
        /\ \A col \in CompleteColumns : c[col] # NULL
    BY <1>1 DEF Inv, Consistent, Of, Valid, Checks, ck_checkpoints
  <2>2. ForeignKey(<<"dataset_build_id">>, "dataset_builds")
          \in ForeignKeys("checkpoints")
    BY DEF ForeignKeys, Tables, checkpoints
  <2>3. Tables["dataset_builds"].primaryKey = <<"dataset_build_id">>
    BY DEF Tables, dataset_builds
  <2>4. PICK b \in committed : /\ b.table = "dataset_builds"
                              /\ b["dataset_build_id"] = c["dataset_build_id"]
    BY <2>1, <2>2, <2>3, ParentByColumn DEF CompleteColumns
  <2>5. ForeignKey(<<"dataset_id">>, "datasets") \in ForeignKeys("dataset_builds")
    BY DEF ForeignKeys, Tables, dataset_builds
  <2>6. b["dataset_id"] # NULL
    BY <2>1, <2>4 DEF Consistent, Valid, Tables, dataset_builds
  <2>7. Tables["datasets"].primaryKey = <<"dataset_id">>
    BY DEF Tables, datasets
  <2>8. \E d \in committed : d.table = "datasets" /\ d["dataset_id"] = b["dataset_id"]
    BY <2>1, <2>4, <2>5, <2>6, <2>7, ParentByColumn
  <2> QED
    BY <2>1, <2>4, <2>8 DEF Of, CompleteColumns
<1>2. Inv => CompleteIsRestorable
  BY <1>1 DEF CompleteIsRestorable
<1> QED
  BY <1>2, Invariance, PTL

\* A contribution has its step and its session in a consistent database.
LEMMA GroundedByInv == Inv => ContributionGrounded
<1>1. ASSUME Inv, NEW w \in Of("worker_steps")
      PROVE  /\ \E s \in Of("steps") :
                  s.attempt_id = w.attempt_id /\ s.step_id = w.step_id
             /\ \E s \in Of("worker_sessions") : s.session_id = w.session_id
  <2>1. /\ Consistent(committed) /\ w \in committed /\ w.table = "worker_steps"
        /\ w["attempt_id"] # NULL /\ w["step_id"] # NULL /\ w["session_id"] # NULL
    <3>1. /\ Consistent(committed) /\ w \in committed /\ w.table = "worker_steps"
          /\ \A c \in Tables["worker_steps"].columns
                   \ Tables["worker_steps"].nullable : w[c] # NULL
      BY <1>1 DEF Inv, Consistent, Of, Valid
    <3>2. /\ Tables["worker_steps"].columns =
               {"attempt_id", "step_id", "worker_id", "session_id"}
          /\ Tables["worker_steps"].nullable = {}
      BY DEF Tables, worker_steps
    <3> QED
      BY <3>1, <3>2
  <2>2. \E s \in Of("worker_sessions") : s.session_id = w.session_id
    <3>1. ForeignKey(<<"session_id">>, "worker_sessions")
            \in ForeignKeys("worker_steps")
      BY DEF ForeignKeys, Tables, worker_steps
    <3>2. Tables["worker_sessions"].primaryKey = <<"session_id">>
      BY DEF Tables, worker_sessions
    <3> QED
      BY <2>1, <3>1, <3>2, ParentByColumn DEF Of
  <2>3. \E s \in Of("steps") :
          s.attempt_id = w.attempt_id /\ s.step_id = w.step_id
    <3> DEFINE cols == <<"attempt_id", "step_id">>
               fk == ForeignKey(cols, "steps")
    <3>1. fk \in ForeignKeys(w.table) /\ fk.columns = cols /\ fk.to = "steps"
      BY <2>1 DEF ForeignKeys, Tables, worker_steps, ForeignKey
    <3>2. \A i \in DOMAIN fk.columns : w[fk.columns[i]] # NULL
      BY <2>1, <3>1
    <3>3. Tables["steps"].primaryKey = cols
      BY DEF Tables, steps
    <3> HIDE DEF fk
    <3>4. PICK s \in committed : /\ s.table = "steps"
                                /\ Project(s, cols) = Project(w, cols)
      BY <2>1, <3>1, <3>2, <3>3, Parent
    <3>5. \A r : Project(r, cols)[1] = r["attempt_id"] /\ Project(r, cols)[2] = r["step_id"]
      BY DEF Project
    <3>6. s["attempt_id"] = w["attempt_id"] /\ s["step_id"] = w["step_id"]
      BY <3>4, <3>5
    <3> QED
      BY <3>4, <3>6 DEF Of
  <2> QED
    BY <2>2, <2>3
<1> QED
  BY <1>1 DEF ContributionGrounded

\* A contribution keeps its step and its session.
THEOREM ContributionStaysGrounded == Spec => []ContributionGrounded
BY GroundedByInv, Invariance, PTL

\* The number of a session, and the one that a contribution names, are always
\* numbers that SessionId accepts.
THEOREM SessionsStayIdentified == Spec => []SessionsAreIdentified
<1>1. ASSUME Inv, NEW s \in Of("worker_sessions")
      PROVE  SessionId(s.session_id)
  <2>1. s.session_id \in Bigint /\ s.session_id > 0
    BY <1>1 DEF Inv, Consistent, Of, Valid, Checks, ck_worker_sessions
  <2> QED
    BY <2>1, BigintAssumption DEF Bigint, SessionId
<1>2. ASSUME Inv, NEW w \in Of("worker_steps")
      PROVE  SessionId(w.session_id)
  BY <1>1, <1>2, GroundedByInv DEF ContributionGrounded
<1>3. Inv => SessionsAreIdentified
  BY <1>1, <1>2 DEF SessionsAreIdentified
<1> QED
  BY <1>3, Invariance, PTL

-----------------------------------------------------------------------------
(* Nothing is refused without a reason.                                    *)

\* The rows a transaction sees are rows of a table of the schema.
LEMMA ViewRows ==
  ASSUME Inv, NEW x \in Txns, NEW s \in View(x)
  PROVE  s \in Rows /\ s.table \in DOMAIN Tables
BY RowsAssumption DEF Inv, TypeOK, View

\* No table bears the name of a partial index.
LEMMA IndexNames ==
  /\ "uq_attempts__one_active" \notin DOMAIN Tables
  /\ "uq_worker_sessions__active_rank" \notin DOMAIN Tables
  /\ "uq_events__attempt_runtime_seq" \notin DOMAIN Tables
BY DEF Tables

\* A clash in a table is over the primary key or over a key of a partial index.
LEMMA ClashCases ==
  ASSUME NEW r, NEW s, Clash(r, s),
         r.table \in DOMAIN Tables, s.table \in DOMAIN Tables
  PROVE  \/ Key(r) = Key(s)
         \/ uq_attempts__one_active(r) \cap uq_attempts__one_active(s) # {}
         \/ uq_worker_sessions__active_rank(r)
              \cap uq_worker_sessions__active_rank(s) # {}
         \/ uq_events__attempt_runtime_seq(r)
              \cap uq_events__attempt_runtime_seq(s) # {}
<1>1. PICK e \in Entries(r) : e \in Entries(s)
  BY DEF Clash
<1>2. Key(r)[1] = r.table /\ Key(s)[1] = s.table
  BY DEF Key
<1>3. \A q : /\ \A u \in uq_attempts__one_active(q) :
                   u[1] = "uq_attempts__one_active"
             /\ \A u \in uq_worker_sessions__active_rank(q) :
                   u[1] = "uq_worker_sessions__active_rank"
             /\ \A u \in uq_events__attempt_runtime_seq(q) :
                   u[1] = "uq_events__attempt_runtime_seq"
  BY DEF uq_attempts__one_active, uq_worker_sessions__active_rank,
         uq_events__attempt_runtime_seq
<1> QED
  BY <1>1, <1>2, <1>3, IndexNames DEF Entries

\* An ended attempt never stands in the way of a new one.
THEOREM EndedFreesTheSlotHolds == Spec => []EndedFreesTheSlot
<1>1. ASSUME Inv, NEW x \in Txns, NEW r \in Rows,
             Obstructed(x, r), r.table = "attempts"
      PROVE  \E a \in View(x) : /\ a.table = "attempts"
                                /\ \/ a.attempt_id = r.attempt_id
                                   \/ r.state \notin Ended /\ a.state \notin Ended
  <2>1. PICK a \in View(x) : Clash(r, a)
    BY <1>1 DEF Obstructed, EntryTaken
  <2>2. /\ uq_worker_sessions__active_rank(r) = {}
        /\ uq_events__attempt_runtime_seq(r) = {}
    BY <1>1 DEF uq_worker_sessions__active_rank, uq_events__attempt_runtime_seq
  <2>3. \/ Key(r) = Key(a)
        \/ uq_attempts__one_active(r) \cap uq_attempts__one_active(a) # {}
    BY <1>1, <2>1, <2>2, ViewRows, RowsAssumption, ClashCases
  <2>4. CASE Key(r) = Key(a)
    <3>1. Tables["attempts"].primaryKey = <<"attempt_id">>
      BY DEF Tables, attempts
    <3>2. a.table = "attempts" /\ Project(a, <<"attempt_id">>) = Project(r, <<"attempt_id">>)
      BY <1>1, <2>4, <3>1 DEF Key
    <3>3. \A q : Project(q, <<"attempt_id">>)[1] = q["attempt_id"]
      BY DEF Project
    <3>4. a["attempt_id"] = r["attempt_id"]
      BY <3>2, <3>3
    <3> QED
      BY <3>2, <3>4
  <2>5. CASE uq_attempts__one_active(r) \cap uq_attempts__one_active(a) # {}
    BY <2>5 DEF uq_attempts__one_active, Ended
  <2> QED
    BY <2>3, <2>4, <2>5
<1>2. Inv => EndedFreesTheSlot
  BY <1>1 DEF EndedFreesTheSlot
<1> QED
  BY <1>2, Invariance, PTL

\* A lost session never keeps its rank.
THEOREM LostFreesTheRankHolds == Spec => []LostFreesTheRank
<1>1. ASSUME Inv, NEW x \in Txns, NEW r \in Rows,
             Obstructed(x, r), r.table = "worker_sessions"
      PROVE  \E s \in View(x) : /\ s.table = "worker_sessions"
                                /\ \/ s.session_id = r.session_id
                                   \/ /\ s.attempt_id = r.attempt_id
                                      /\ s.worker_id = r.worker_id
                                      /\ s.state \notin Lost
  <2>1. PICK s \in View(x) : Clash(r, s)
    BY <1>1 DEF Obstructed, EntryTaken
  <2>2. /\ uq_attempts__one_active(r) = {}
        /\ uq_events__attempt_runtime_seq(r) = {}
    BY <1>1 DEF uq_attempts__one_active, uq_events__attempt_runtime_seq
  <2>3. \/ Key(r) = Key(s)
        \/ uq_worker_sessions__active_rank(r)
             \cap uq_worker_sessions__active_rank(s) # {}
    BY <1>1, <2>1, <2>2, ViewRows, RowsAssumption, ClashCases
  <2>4. CASE Key(r) = Key(s)
    <3>1. Tables["worker_sessions"].primaryKey = <<"session_id">>
      BY DEF Tables, worker_sessions
    <3>2. /\ s.table = "worker_sessions"
          /\ Project(s, <<"session_id">>) = Project(r, <<"session_id">>)
      BY <1>1, <2>4, <3>1 DEF Key
    <3>3. \A q : Project(q, <<"session_id">>)[1] = q["session_id"]
      BY DEF Project
    <3>4. s["session_id"] = r["session_id"]
      BY <3>2, <3>3
    <3> QED
      BY <3>2, <3>4
  <2>5. CASE uq_worker_sessions__active_rank(r)
               \cap uq_worker_sessions__active_rank(s) # {}
    BY <2>5 DEF uq_worker_sessions__active_rank, Lost
  <2> QED
    BY <2>3, <2>4, <2>5
<1>2. Inv => LostFreesTheRank
  BY <1>1 DEF LostFreesTheRank
<1> QED
  BY <1>2, Invariance, PTL

\* No event is taken for a duplicate of one it does not repeat.
THEOREM OnlyDuplicatesAreRefused == Spec => []OnlyDuplicatesRefused
<1>1. ASSUME Inv, NEW x \in Txns, NEW r \in Rows,
             Obstructed(x, r), r.table = "events"
      PROVE  \E e \in View(x) :
               /\ e.table = "events"
               /\ \/ e.event_id = r.event_id
                  \/ /\ r.attempt_id # NULL
                     /\ r.runtime_event_seq # NULL
                     /\ e.attempt_id = r.attempt_id
                     /\ e.runtime_event_seq = r.runtime_event_seq
  <2>1. PICK e \in View(x) : Clash(r, e)
    BY <1>1 DEF Obstructed, EntryTaken
  <2>2. /\ uq_attempts__one_active(r) = {}
        /\ uq_worker_sessions__active_rank(r) = {}
    BY <1>1 DEF uq_attempts__one_active, uq_worker_sessions__active_rank
  <2>3. \/ Key(r) = Key(e)
        \/ uq_events__attempt_runtime_seq(r)
             \cap uq_events__attempt_runtime_seq(e) # {}
    BY <1>1, <2>1, <2>2, ViewRows, RowsAssumption, ClashCases
  <2>4. CASE Key(r) = Key(e)
    <3>1. Tables["events"].primaryKey = <<"event_id">>
      BY DEF Tables, events
    <3>2. e.table = "events" /\ Project(e, <<"event_id">>) = Project(r, <<"event_id">>)
      BY <1>1, <2>4, <3>1 DEF Key
    <3>3. \A q : Project(q, <<"event_id">>)[1] = q["event_id"]
      BY DEF Project
    <3>4. e["event_id"] = r["event_id"]
      BY <3>2, <3>3
    <3> QED
      BY <3>2, <3>4
  <2>5. CASE uq_events__attempt_runtime_seq(r)
               \cap uq_events__attempt_runtime_seq(e) # {}
    BY <2>5 DEF uq_events__attempt_runtime_seq
  <2> QED
    BY <2>3, <2>4, <2>5
<1>2. Inv => OnlyDuplicatesRefused
  BY <1>1 DEF OnlyDuplicatesRefused
<1> QED
  BY <1>2, Invariance, PTL
=============================================================================
