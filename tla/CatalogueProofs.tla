-------------------------- MODULE CatalogueProofs ---------------------------
(***************************************************************************)
(* Proofs about the video catalogue, for every set of files, processes and *)
(* sizes and every number of seed commands, times, secrets and page sizes. *)
(***************************************************************************)
EXTENDS Catalogue, FiniteSetTheorems, WellFoundedInduction, TLAPS

-----------------------------------------------------------------------------
(* The inductive invariant *)

\* The steps of a command that has looked for its object.
Past == {"upload", "upsert", "commit", "remove"}

\* What a command knows at its steps: its file, its key, and whether it has
\* uploaded its output.
Commands ==
    \A s \in Seeders :
        /\ pc[s] # "idle" => file[s] \in Files
        /\ pc[s] \in Past \cup {"stat"} => key[s] \in Keys
        /\ made[s] => pc[s] \in {"upsert", "commit", "remove"}

\* No other command works on the key of a tidy one.
TidyAlone ==
    \A s, o \in Seeders :
        tidy[s] /\ s # o /\ pc[s] \in Past /\ pc[o] \in Past => key[s] # key[o]

\* The steps from which a command may remove what is stored under its key.
MayRemove(s) == pc[s] \in {"upload", "remove"} \/ (pc[s] \in {"upsert", "commit"} /\ made[s])

\* A tidy command removes an object only if no intact row names it, and the
\* object a row is about to name is there, or was torn.
Removals ==
    \A s \in Seeders :
        /\ tidy[s] /\ MayRemove(s) => RowOf(key[s]) = {} \/ key[s] \in torn
        /\ pc[s] \in {"upsert", "commit"} => key[s] \in objects \cup torn

\* The identifiers of the committed rows.
RowIds == {v.id : v \in rows}

RowsDistinct == IsFiniteSet(rows) /\ \A v, w \in rows : v.id = w.id => v = w

\* What a client in the middle of the catalogue has read is not behind its
\* cursor, what it has still to read is, and it asks for ever older rows.
Midway ==
    /\ \A v \in rows : v.id \in reader.seen => ~Behind(v, reader.cursor)
    /\ \A v \in rows : v.id \in reader.first => v.id \in reader.seen \/ Behind(v, reader.cursor)
    /\ \A a \in reader.asked : Newer(a, reader.cursor)

ReaderInv ==
    /\ reader.seen \subseteq RowIds /\ reader.first \subseteq RowIds
    /\ reader.pc = "off" => reader.cursor = None
    /\ reader.pc \in {"off", "paging"} /\ reader.cursor = None =>
          reader.seen = {} /\ reader.asked = {}
    /\ reader.pc = "paging" /\ reader.cursor # None => Midway
    /\ CatalogueComplete

\* A stream that is open has the key of an object that was found.
PlayerInv == player.pc = "open" => player.key \in Keys

Inv ==
    /\ TypeOK
    /\ Commands
    /\ TidyAlone
    /\ Removals
    /\ RowsBacked
    /\ NoStrayObjects
    /\ RowsDistinct
    /\ ReaderInv
    /\ PlayerInv

-----------------------------------------------------------------------------
(* The order of the list *)

LEMMA Constants ==
    /\ MaxSeeds \in Nat /\ MaxTime \in Nat /\ MaxTime >= 1 /\ MaxKeys \in Nat /\ MaxKeys >= 1
    /\ Limits \subseteq Nat \ {0}
BY CatalogueAssumption

\* A set of natural numbers has a least element.
LEMMA NatMin ==
    ASSUME NEW T, T \subseteq Nat, T # {}
    PROVE  \E m \in T : \A k \in T : m <= k
<1> DEFINE R == OpToRel(<, Nat)
<1>1. IsWellFoundedOn(R, Nat)
  BY NatLessThanWellFounded
<1>2. R = {ss \in Nat \X Nat : ss[1] < ss[2]}
  BY DEF OpToRel
<1> HIDE DEF R
<1>3. PICK m \in T : \A k \in T : ~(<<k, m>> \in R)
  BY <1>1, WFMin
<1>4. \A k \in T : <<k, m>> \in R <=> k < m
  BY <1>2
<1>5. \A k \in T : m <= k
  <2> SUFFICES ASSUME NEW k \in T PROVE m <= k
    OBVIOUS
  <2>1. ~(k < m)
    BY <1>3, <1>4
  <2>2. k \in Nat /\ m \in Nat
    OBVIOUS
  <2> HIDE <1>4
  <2> QED BY <2>1, <2>2
<1> QED BY <1>5

\* ... and a greatest one, if it has a bound.
LEMMA NatMax ==
    ASSUME NEW n \in Nat, NEW T, T \subseteq 0 .. n, T # {}
    PROVE  \E m \in T : \A k \in T : k <= m
<1> DEFINE D == {n - k : k \in T}
<1>0. \A k \in T : n - k \in Nat
  OBVIOUS
<1>1. D \subseteq Nat /\ D # {}
  BY <1>0
<1> HIDE DEF D
<1>2. PICK d \in D : \A e \in D : d <= e
  BY <1>1, NatMin
<1>3. PICK m \in T : d = n - m
  BY DEF D
<1>4. \A k \in T : n - m <= n - k
  BY <1>2, <1>3 DEF D
<1> QED BY <1>4

\* A place in the order: a row or a cursor.
Place(v) == v.at \in Nat /\ v.id \in Nat

LEMMA RowPlace ==
    ASSUME rows \subseteq Row
    PROVE  \A v \in rows : Place(v) /\ v.at \in Times /\ v.id \in Ids
BY Constants DEF Row, Place, Times, Ids

LEMMA CursorPlace == \A c \in Cursor : Place(c)
BY Constants DEF Cursor, Place, Times, Ids

LEMMA NewerOrder ==
    /\ \A v, w : Place(v) /\ Place(w) => Newer(v, w) \/ Newer(w, v) \/ (v.at = w.at /\ v.id = w.id)
    /\ \A v, w : Place(v) /\ Place(w) => ~(Newer(v, w) /\ Newer(w, v))
    /\ \A v : Place(v) => ~Newer(v, v)
    /\ \A u, v, w : Place(u) /\ Place(v) /\ Place(w) /\ Newer(u, v) /\ Newer(v, w) => Newer(u, w)
BY DEF Place, Newer

\* Behind, in terms of the order.
LEMMA BehindNewer ==
    ASSUME NEW c \in Cursor, NEW v, Place(v)
    PROVE  Behind(v, c) <=> Newer(c, v)
BY CursorPlace, NoneAssumption DEF Behind, Newer, Place

LEMMA RowsOrder ==
    ASSUME rows \subseteq Row, RowsDistinct
    PROVE  \A v, w \in rows : v = w \/ Newer(v, w) \/ Newer(w, v)
BY RowPlace, NewerOrder DEF RowsDistinct

\* A set of rows has a newest and an oldest one.
LEMMA Newest ==
    ASSUME rows \subseteq Row, RowsDistinct, NEW T, T \subseteq rows, T # {}
    PROVE  \E m \in T : \A v \in T \ {m} : Newer(m, v)
<1> DEFINE A == {v.at : v \in T}
<1>1. \A v \in T : v.at \in 0 .. MaxTime /\ v.id \in 0 .. MaxSeeds
  BY RowPlace, Constants DEF Times, Ids
<1>2. A \subseteq 0 .. MaxTime /\ A # {}
  BY <1>1
<1>3. PICK a \in A : \A b \in A : b <= a
  <2> HIDE DEF A
  <2> QED BY <1>2, NatMax, Constants
<1> DEFINE I == {v.id : v \in {w \in T : w.at = a}}
<1>4. I \subseteq 0 .. MaxSeeds /\ I # {}
  BY <1>1
<1>5. PICK i \in I : \A j \in I : j <= i
  <2> HIDE DEF A, I
  <2> QED BY <1>4, NatMax, Constants
<1>6. PICK m \in T : m.at = a /\ m.id = i
  OBVIOUS
<1>7. ASSUME NEW v \in T, v # m PROVE Newer(m, v)
  <2>1. v.at <= a /\ (v.at = a => v.id <= i)
    BY <1>3, <1>5
  <2>2. ~Newer(v, m)
    <3> HIDE DEF A, I
    <3>1. v.at \in Nat /\ v.id \in Nat /\ a \in Nat /\ i \in Nat
      BY <1>1, <1>2, <1>4
    <3> QED BY <2>1, <1>6, <3>1 DEF Newer
  <2>3. v \in rows /\ m \in rows
    OBVIOUS
  <2> HIDE DEF A, I
  <2> QED BY <2>2, <2>3, <1>7, RowsOrder
<1> QED BY <1>7

LEMMA Oldest ==
    ASSUME rows \subseteq Row, RowsDistinct, NEW T, T \subseteq rows, T # {}
    PROVE  \E m \in T : \A v \in T \ {m} : Newer(v, m)
<1> DEFINE A == {v.at : v \in T}
<1>1. \A v \in T : v.at \in Nat /\ v.id \in Nat
  BY RowPlace DEF Place
<1>2. A \subseteq Nat /\ A # {}
  BY <1>1
<1>3. PICK a \in A : \A b \in A : a <= b
  <2> HIDE DEF A
  <2> QED BY <1>2, NatMin
<1> DEFINE I == {v.id : v \in {w \in T : w.at = a}}
<1>4. I \subseteq Nat /\ I # {}
  BY <1>1
<1>5. PICK i \in I : \A j \in I : i <= j
  <2> HIDE DEF A, I
  <2> QED BY <1>4, NatMin
<1>6. PICK m \in T : m.at = a /\ m.id = i
  OBVIOUS
<1>7. ASSUME NEW v \in T, v # m PROVE Newer(v, m)
  <2>1. a <= v.at /\ (v.at = a => i <= v.id)
    BY <1>3, <1>5
  <2>2. ~Newer(m, v)
    <3> HIDE DEF A, I
    <3>1. v.at \in Nat /\ v.id \in Nat /\ a \in Nat /\ i \in Nat
      BY <1>1, <1>2, <1>4
    <3> QED BY <2>1, <1>6, <3>1 DEF Newer
  <2>3. v \in rows /\ m \in rows
    OBVIOUS
  <2> HIDE DEF A, I
  <2> QED BY <2>2, <2>3, <1>7, RowsOrder
<1> QED BY <1>7

-----------------------------------------------------------------------------
(* Pages *)

\* The rows behind a cursor, and those of them that are newer than v.
Rest(c) == {v \in rows : Behind(v, c)}
Above(c, v) == {w \in Rest(c) : Newer(w, v)}

LEMMA ListedRows ==
    ASSUME NEW c, NEW n
    PROVE  \A v : v \in Listed(c, n) <=> v \in Rest(c) /\ Cardinality(Above(c, v)) < n
BY DEF Listed, Rest, Above

LEMMA AboveFinite ==
    ASSUME RowsDistinct, NEW c, NEW v
    PROVE  IsFiniteSet(Above(c, v)) /\ Cardinality(Above(c, v)) \in Nat
<1>1. Above(c, v) \subseteq rows
  BY DEF Above, Rest
<1> QED BY <1>1, FS_Subset, FS_CardinalityType DEF RowsDistinct

\* A newer row has fewer rows above it.
LEMMA AboveNewer ==
    ASSUME rows \subseteq Row, RowsDistinct, NEW c, NEW v \in rows, NEW w \in rows, Newer(v, w)
    PROVE  Cardinality(Above(c, v)) <= Cardinality(Above(c, w))
<1>1. Above(c, v) \subseteq Above(c, w)
  BY RowPlace, NewerOrder DEF Above, Rest
<1> QED BY <1>1, AboveFinite, FS_Subset

\* A page is an upper part of what is behind the cursor.
LEMMA PageClosed ==
    ASSUME rows \subseteq Row, RowsDistinct, NEW c, NEW n \in Nat,
           NEW v \in Rest(c), NEW w \in Listed(c, n), Newer(v, w)
    PROVE  v \in Listed(c, n)
<1>1. v \in rows /\ w \in rows
  BY ListedRows DEF Rest
<1>2. Cardinality(Above(c, v)) <= Cardinality(Above(c, w))
  BY <1>1, AboveNewer
<1>3. Cardinality(Above(c, w)) < n
  BY ListedRows
<1>4. Cardinality(Above(c, v)) \in Nat /\ Cardinality(Above(c, w)) \in Nat
  BY AboveFinite
<1>5. Cardinality(Above(c, v)) < n
  BY <1>2, <1>3, <1>4
<1> QED BY <1>5, ListedRows

LEMMA ListedFinite ==
    ASSUME RowsDistinct, NEW c, NEW n
    PROVE  IsFiniteSet(Listed(c, n)) /\ Listed(c, n) \subseteq Rest(c) /\ Rest(c) \subseteq rows
<1>1. Listed(c, n) \subseteq Rest(c) /\ Rest(c) \subseteq rows
  BY ListedRows DEF Rest
<1> QED BY <1>1, FS_Subset DEF RowsDistinct

\* Not all rows fit the page: one more row shows it.
LEMMA PageFull ==
    ASSUME rows \subseteq Row, RowsDistinct, NEW c, NEW n \in Nat \ {0},
           NEW x \in Rest(c), x \notin Listed(c, n)
    PROVE  Cardinality(Listed(c, n + 1)) > n
<1> DEFINE T == Rest(c) \ Listed(c, n)
<1>1. T \subseteq rows /\ T # {}
  BY ListedFinite
<1>2. PICK v \in T : \A w \in T \ {v} : Newer(v, w)
  <2> HIDE DEF T
  <2> QED BY <1>1, Newest
<1>3. v \in rows /\ v \in Rest(c) /\ v \notin Listed(c, n)
  BY <1>1
<1>4. Above(c, v) \subseteq Listed(c, n)
  <2> SUFFICES ASSUME NEW w \in Above(c, v), w \notin Listed(c, n) PROVE FALSE
    OBVIOUS
  <2>1. w \in Rest(c) /\ Newer(w, v) /\ w \in rows
    BY DEF Above, Rest
  <2>2. w = v \/ Newer(v, w)
    BY <1>2, <2>1
  <2> QED BY <2>1, <2>2, <1>3, RowPlace, NewerOrder
<1> HIDE DEF T
<1>5. Cardinality(Above(c, v)) >= n
  BY <1>3, ListedRows, AboveFinite
<1>6. Above(c, v) # {}
  <2>1. Cardinality(Above(c, v)) # 0
    BY <1>5, AboveFinite
  <2> QED BY <2>1, FS_EmptySet
<1>7. Above(c, v) \subseteq rows
  BY DEF Above, Rest
<1>8. PICK u \in Above(c, v) : \A w \in Above(c, v) \ {u} : Newer(w, u)
  BY <1>6, <1>7, Oldest
<1>9. u \in rows /\ Newer(u, v)
  BY <1>7 DEF Above
<1>10. Above(c, v) = Above(c, u) \cup {u}
  <2>1. \A w \in Above(c, u) : w \in Above(c, v)
    BY <1>3, <1>9, RowPlace, NewerOrder DEF Above, Rest
  <2>2. \A w \in Above(c, v) : w = u \/ w \in Above(c, u)
    BY <1>8 DEF Above
  <2> QED BY <2>1, <2>2
<1>11. u \notin Above(c, u)
  BY <1>9, RowPlace, NewerOrder DEF Above
<1>12. Cardinality(Above(c, v)) = Cardinality(Above(c, u)) + 1
  BY <1>10, <1>11, AboveFinite, FS_AddElement
<1>13. Cardinality(Above(c, u)) < n
  BY <1>4, ListedRows
<1>14. v \in Listed(c, n + 1)
  <2>1. Cardinality(Above(c, v)) < n + 1
    BY <1>12, <1>13, AboveFinite
  <2> QED BY <2>1, <1>3, ListedRows
<1> DEFINE S == Above(c, v) \cup {v}
<1>15. S \subseteq Listed(c, n + 1)
  <2>1. \A w \in Listed(c, n) : w \in Listed(c, n + 1)
    <3> SUFFICES ASSUME NEW w \in Listed(c, n) PROVE w \in Listed(c, n + 1)
      OBVIOUS
    <3>1. w \in Rest(c) /\ Cardinality(Above(c, w)) < n
      BY ListedRows
    <3>2. Cardinality(Above(c, w)) < n + 1
      BY <3>1, AboveFinite
    <3> QED BY <3>1, <3>2, ListedRows
  <2> QED BY <2>1, <1>4, <1>14
<1>16. v \notin Above(c, v)
  BY <1>3, RowPlace, NewerOrder DEF Above
<1>17. IsFiniteSet(S) /\ Cardinality(S) = Cardinality(Above(c, v)) + 1
  BY <1>16, AboveFinite, FS_AddElement
<1>18. Cardinality(S) <= Cardinality(Listed(c, n + 1)) /\ Cardinality(Listed(c, n + 1)) \in Nat
  <2> HIDE DEF S
  <2> QED BY <1>15, ListedFinite, FS_Subset, FS_CardinalityType
<1> HIDE DEF S
<1> QED BY <1>5, <1>17, <1>18, AboveFinite

\* A page with a next cursor is not empty.
LEMMA PageNonempty ==
    ASSUME rows \subseteq Row, RowsDistinct, NEW c, NEW n \in Nat \ {0},
           Cardinality(Listed(c, n + 1)) > n
    PROVE  Listed(c, n) # {}
<1>1. Listed(c, n + 1) # {}
  BY FS_EmptySet
<1>2. Rest(c) # {} /\ Rest(c) \subseteq rows
  BY <1>1, ListedFinite
<1>3. PICK m \in Rest(c) : \A v \in Rest(c) \ {m} : Newer(m, v)
  BY <1>2, Newest
<1>4. Above(c, m) = {}
  BY <1>2, <1>3, RowPlace, NewerOrder DEF Above
<1>5. Cardinality(Above(c, m)) = 0
  BY <1>4, FS_EmptySet
<1> QED BY <1>5, ListedRows

\* The next cursor separates what is on the page from what is left.
LEMMA NextPage ==
    ASSUME TypeOK, RowsDistinct, NEW c \in Cursor \cup {None}, NEW n \in Nat \ {0}
    PROVE  /\ NextCursor(c, n) = None => \A v \in Rest(c) : v \in Listed(c, n)
           /\ NextCursor(c, n) # None =>
                 /\ NextCursor(c, n) \in Cursor
                 /\ c # None => Newer(c, NextCursor(c, n))
                 /\ \A v \in Rest(c) : v \in Listed(c, n) <=> ~Behind(v, NextCursor(c, n))
<1> DEFINE page == Listed(c, n)
           next == NextCursor(c, n)
<1>0. rows \subseteq Row
  BY DEF TypeOK
<1>1. CASE ~(Cardinality(Listed(c, n + 1)) > n)
  <2>1. next = None
    BY <1>1 DEF NextCursor
  <2>2. \A v \in Rest(c) : v \in page
    BY <1>0, <1>1, PageFull
  <2> QED BY <2>1, <2>2
<1>2. CASE Cardinality(Listed(c, n + 1)) > n
  <2>1. page # {} /\ page \subseteq rows
    BY <1>0, <1>2, PageNonempty, ListedFinite
  <2>2. \E m \in page : \A w \in page \ {m} : Newer(w, m)
    <3> HIDE DEF page
    <3> QED BY <1>0, <2>1, Oldest
  <2>3. PICK m \in page : (\A w \in page \ {m} : Newer(w, m)) /\ next = EncodeCursor(m)
    <3> DEFINE m == CHOOSE v \in page : \A w \in page \ {v} : Newer(w, v)
    <3>1. m \in page /\ \A w \in page \ {m} : Newer(w, m)
      <4> HIDE DEF page
      <4> QED BY <2>2
    <3>2. next = EncodeCursor(m)
      BY <1>2 DEF NextCursor
    <3> HIDE DEF m, page, next
    <3> QED BY <3>1, <3>2
  <2> HIDE DEF next
  <2>4. m \in rows /\ m \in Rest(c) /\ Place(m)
    BY <1>0, <2>1, ListedFinite, RowPlace
  <2>5. next \in Cursor /\ next.at = m.at /\ next.id = m.id
    BY <1>0, <2>3, <2>4, RowPlace DEF EncodeCursor, Cursor, TypeOK
  <2>6. \A v : Newer(v, next) <=> Newer(v, m)
    BY <2>5 DEF Newer
  <2>7. \A v : Newer(next, v) <=> Newer(m, v)
    BY <2>5 DEF Newer
  <2>8. next # None
    BY <2>5, NoneAssumption
  <2>9. c # None => Newer(c, next)
    BY <2>4, <2>6, BehindNewer DEF Rest
  <2>10. ASSUME NEW v \in Rest(c) PROVE v \in page <=> ~Behind(v, next)
    <3>1. v \in rows /\ Place(v)
      BY <1>0, RowPlace DEF Rest
    <3>2. Behind(v, next) <=> Newer(m, v)
      BY <3>1, <2>5, <2>7, BehindNewer
    <3>3. CASE v \in page
      BY <3>1, <3>2, <3>3, <2>3, <2>4, NewerOrder
    <3>4. CASE v \notin page
      <4>1. ~Newer(v, m) /\ v # m
        BY <3>4, <1>0, PageClosed
      <4> QED BY <4>1, <3>1, <3>2, <3>4, <2>4, <1>0, RowsOrder
    <3> QED BY <3>3, <3>4
  <2> QED BY <2>5, <2>8, <2>9, <2>10 DEF next
<1> QED BY <1>1, <1>2

\* What a reader's record may be.
Readers == [pc : {"off", "paging", "done", "failed", "looped"},
            cursor : Cursor \cup {None}, asked : SUBSET Cursor,
            seen : SUBSET Ids, first : SUBSET Ids, twice : BOOLEAN]

\* One page: nothing is read twice, nothing that was listed is passed over, and
\* the next cursor is older than all cursors so far.
LEMMA ReadPageStep ==
    ASSUME TypeOK, RowsDistinct, ReaderInv, NEW n \in Nat \ {0}, ReadPage(n)
    PROVE  reader' \in Readers /\ ReaderInv'
<1> DEFINE c == reader.cursor
           page == Listed(c, n)
           ids == {v.id : v \in page}
           next == NextCursor(c, n)
           asked == reader.asked \cup ({c} \ {None})
<1>1. /\ reader'.pc = IF next = None THEN "done"
                      ELSE IF next \in asked THEN "looped" ELSE "paging"
      /\ reader'.cursor = next /\ reader'.asked = asked
      /\ reader'.seen = reader.seen \cup ids
      /\ reader'.first = IF c = None THEN RowIds ELSE reader.first
      /\ reader'.twice = (reader.twice \/ reader.seen \cap ids # {})
      /\ reader.pc = "paging" /\ rows' = rows
  BY DEF ReadPage, RowIds
<1>2. /\ rows \subseteq Row /\ c \in Cursor \cup {None} /\ reader.asked \subseteq Cursor
      /\ reader.seen \subseteq Ids /\ reader.first \subseteq Ids /\ reader.twice \in BOOLEAN
  BY DEF TypeOK
<1>3. /\ next = None => \A v \in Rest(c) : v \in page
      /\ next # None => /\ next \in Cursor
                        /\ c # None => Newer(c, next)
                        /\ \A v \in Rest(c) : v \in page <=> ~Behind(v, next)
  BY <1>2, NextPage
<1>4. page \subseteq Rest(c) /\ page \subseteq rows /\ ids \subseteq RowIds /\ ids \subseteq Ids
      /\ RowIds \subseteq Ids
  BY <1>2, ListedFinite, RowPlace DEF RowIds
<1>5. \A v \in rows : v.id \in ids <=> v \in page
  BY <1>4 DEF RowsDistinct
<1>6. reader' = [pc |-> reader'.pc, cursor |-> next, asked |-> asked, seen |-> reader'.seen,
                 first |-> reader'.first, twice |-> reader'.twice]
  BY DEF ReadPage
<1> HIDE DEF next, page, ids, asked
<1>7. asked \subseteq Cursor
  BY <1>2 DEF asked
<1>8. c # None => Midway
  BY <1>1 DEF ReaderInv
<1>9. c = None => reader.seen = {} /\ asked = {}
  BY <1>1 DEF ReaderInv, asked
<1>10. reader' \in Readers
  <2>1. next \in Cursor \cup {None}
    BY <1>3
  <2>2. reader'.pc \in {"done", "looped", "paging"}
    BY <1>1
  <2>3. reader'.seen \subseteq Ids /\ reader'.first \subseteq Ids
    BY <1>1, <1>2, <1>4
  <2>4. reader'.twice \in BOOLEAN
    BY <1>1
  <2> QED BY <1>6, <1>7, <2>1, <2>2, <2>3, <2>4 DEF Readers
<1>11. next # None => next \notin asked
  <2> SUFFICES ASSUME next # None, next \in asked PROVE FALSE
    OBVIOUS
  <2>1. c # None /\ c \in Cursor
    BY <1>2, <1>9
  <2>2. Newer(c, next) /\ next \in Cursor
    BY <1>3, <2>1
  <2>3. next = c \/ next \in reader.asked
    BY DEF asked
  <2>4. Place(c) /\ Place(next)
    BY <2>1, <2>2, CursorPlace
  <2>5. next = c \/ Newer(next, c)
    BY <2>1, <2>3, <1>8 DEF Midway
  <2> QED BY <2>2, <2>4, <2>5, NewerOrder
<1>12. reader.seen \cap ids = {}
  <2> SUFFICES ASSUME NEW i \in reader.seen, i \in ids PROVE FALSE
    OBVIOUS
  <2>1. PICK v \in page : v.id = i
    BY DEF ids
  <2>2. v \in rows /\ Behind(v, c)
    BY <1>4 DEF Rest
  <2> QED BY <2>1, <2>2, <1>8, <1>9 DEF Midway
<1>13. reader'.pc # "looped" /\ ~reader'.twice
  <2>1. ~reader.twice
    BY DEF ReaderInv, CatalogueComplete
  <2> QED BY <1>1, <1>11, <1>12, <2>1
<1>14. \A v \in rows : v.id \in reader'.first => v.id \in reader.seen \/ v \in Rest(c)
  <2>1. CASE c = None
    BY <2>1 DEF Rest, Behind
  <2>2. CASE c # None
    BY <2>2, <1>1, <1>8 DEF Midway, Rest
  <2> QED BY <2>1, <2>2
<1>15. reader'.first \subseteq RowIds /\ reader'.seen \subseteq RowIds
  BY <1>1, <1>4 DEF ReaderInv
<1>16. CASE next = None
  <2>1. reader'.pc = "done" /\ reader'.cursor = None
    BY <1>1, <1>16
  <2>2. reader'.first \subseteq reader'.seen
    <3> SUFFICES ASSUME NEW i \in reader'.first PROVE i \in reader'.seen
      OBVIOUS
    <3>1. PICK v \in rows : v.id = i
      BY <1>15 DEF RowIds
    <3> QED BY <3>1, <1>14, <1>3, <1>16, <1>5, <1>1
  <2> QED BY <2>1, <2>2, <1>1, <1>10, <1>13, <1>15 DEF ReaderInv, RowIds, CatalogueComplete
<1>17. CASE next # None
  <2>1. reader'.pc = "paging" /\ reader'.cursor = next /\ next \in Cursor
    BY <1>1, <1>11, <1>17, <1>3
  <2>2. \A v \in rows : v.id \in reader'.seen => ~Behind(v, next)
    <3> SUFFICES ASSUME NEW v \in rows, v.id \in reader'.seen PROVE ~Behind(v, next)
      OBVIOUS
    <3>1. CASE v.id \in ids
      BY <3>1, <1>3, <1>4, <1>5, <1>17
    <3>2. CASE v.id \in reader.seen
      <4>1. c # None /\ c \in Cursor /\ ~Behind(v, c)
        BY <3>2, <1>2, <1>8, <1>9 DEF Midway
      <4>2. Place(v) /\ Place(c) /\ Place(next)
        BY <4>1, <2>1, <1>2, RowPlace, CursorPlace
      <4>3. ~Newer(c, v) /\ Newer(c, next)
        BY <4>1, <4>2, <1>3, <1>17, BehindNewer
      <4>4. ~Newer(next, v)
        BY <4>2, <4>3, NewerOrder
      <4> QED BY <4>2, <4>4, <2>1, BehindNewer
    <3> QED BY <3>1, <3>2, <1>1
  <2>3. \A v \in rows : v.id \in reader'.first => v.id \in reader'.seen \/ Behind(v, next)
    BY <1>14, <1>3, <1>17, <1>5, <1>1
  <2>4. \A a \in asked : Newer(a, next)
    <3> SUFFICES ASSUME NEW a \in asked PROVE Newer(a, next)
      OBVIOUS
    <3>1. c # None /\ c \in Cursor /\ Newer(c, next)
      BY <1>9, <1>2, <1>3, <1>17
    <3>2. a = c \/ Newer(a, c)
      BY <3>1, <1>8 DEF asked, Midway
    <3>3. Place(a) /\ Place(c) /\ Place(next)
      BY <3>1, <2>1, <1>7, CursorPlace
    <3> QED BY <3>1, <3>2, <3>3, NewerOrder
  <2>5. Midway'
    BY <2>1, <2>2, <2>3, <2>4, <1>1 DEF Midway, Behind, Newer
  <2> QED BY <2>1, <2>5, <1>17, <1>1, <1>10, <1>13, <1>15 DEF ReaderInv, RowIds, CatalogueComplete
<1> QED BY <1>10, <1>16, <1>17

\* A new row is none that the client has read or meant to read.
LEMMA RowAdded ==
    ASSUME TypeOK, RowsDistinct, ReaderInv, NEW r \in Row, r.id \notin RowIds,
           rows' = rows \cup {r}, reader' = reader
    PROVE  RowsDistinct' /\ ReaderInv' /\ rows' \subseteq Row
<1>1. IsFiniteSet(rows')
  BY FS_AddElement DEF RowsDistinct
<1>2. RowsDistinct'
  BY <1>1 DEF RowsDistinct, RowIds
<1>3. r.id \notin reader.seen /\ r.id \notin reader.first
  BY DEF ReaderInv
<1>4. RowIds \subseteq RowIds'
  BY DEF RowIds
<1>5. Midway => Midway'
  BY <1>3 DEF Midway, Behind, Newer
<1>6. CatalogueComplete'
  BY DEF ReaderInv, CatalogueComplete
<1>7. ReaderInv'
  BY <1>4, <1>5, <1>6 DEF ReaderInv
<1> QED BY <1>2, <1>7 DEF TypeOK

LEMMA RowsKept ==
    ASSUME RowsDistinct, ReaderInv, rows' = rows, reader' = reader
    PROVE  RowsDistinct' /\ ReaderInv'
BY DEF RowsDistinct, ReaderInv, Midway, Behind, Newer, RowIds, CatalogueComplete

-----------------------------------------------------------------------------
(* The seed command *)

\* What a normalization hands over names a key.
LEMMA NormalizedKey ==
    ASSUME NEW f \in Files, NEW q \in Normalized(ProbeOf[f])
    PROVE  <<f, q>> \in Keys
<1>1. q \in Outputs(ProbeOf[f])
  BY DEF Normalized
<1> QED BY <1>1 DEF Keys

\* The types of a command's variables.
SeedTypes ==
    /\ pc \in [Seeders -> Labels]
    /\ file \in [Seeders -> Files \cup {None}]
    /\ key \in [Seeders -> Keys \cup {None}]
    /\ made \in [Seeders -> BOOLEAN]
    /\ at \in [Seeders -> Times]
    /\ tidy \in [Seeders -> BOOLEAN]

\* The invariants that are about the commands alone.
SeedInv == SeedTypes /\ Commands /\ TidyAlone

\* A step of command s leaves the others where they are; it may find out that
\* they share its key.
OthersKept(s) ==
    \A o \in Seeders \ {s} :
        /\ pc'[o] = pc[o] /\ key'[o] = key[o] /\ made'[o] = made[o]
        /\ tidy'[o] => tidy[o]

LEMMA LeaveStep ==
    ASSUME SeedInv, NEW s \in Seeders, Leave(s)
    PROVE  SeedInv' /\ OthersKept(s) /\ pc'[s] = "idle"
<1>1. SeedTypes'
  BY Constants DEF SeedInv, SeedTypes, Leave, Goto, Labels, Times
<1>2. pc'[s] = "idle" /\ \A o \in Seeders \ {s} :
          /\ pc'[o] = pc[o] /\ key'[o] = key[o] /\ file'[o] = file[o] /\ made'[o] = made[o]
          /\ tidy'[o] = tidy[o]
  BY DEF SeedInv, SeedTypes, Leave, Goto
<1>3. Commands'
  <2>1. ~made'[s]
    BY DEF Leave, SeedInv, SeedTypes
  <2> QED BY <1>2, <2>1 DEF SeedInv, Commands, Past
<1>4. TidyAlone'
  BY <1>2 DEF SeedInv, TidyAlone, Past
<1> QED BY <1>1, <1>2, <1>3, <1>4 DEF SeedInv, OthersKept

\* A step to the next label, past the look at the object or not.
LEMMA GotoStep ==
    ASSUME SeedInv, NEW s \in Seeders, NEW label \in Labels \ {"idle"}, Goto(s, label),
           pc[s] \in Past, label \in Past \ {"upload"},
           UNCHANGED <<file, key>>, made' \in [Seeders -> BOOLEAN], at' \in [Seeders -> Times],
           \A o \in Seeders \ {s} : made'[o] = made[o],
           tidy' \in [Seeders -> BOOLEAN], \A o \in Seeders : tidy'[o] => tidy[o]
    PROVE  SeedInv' /\ OthersKept(s) /\ pc'[s] = label
<1>1. pc' \in [Seeders -> Labels] /\ pc'[s] = label /\ \A o \in Seeders \ {s} : pc'[o] = pc[o]
  BY DEF SeedInv, SeedTypes, Goto
<1>2. SeedTypes'
  BY <1>1 DEF SeedInv, SeedTypes
<1>3. Commands'
  BY <1>1 DEF SeedInv, Commands, Past
<1>4. TidyAlone'
  <2> SUFFICES ASSUME NEW t \in Seeders, NEW o \in Seeders, tidy'[t], t # o,
                      pc'[t] \in Past, pc'[o] \in Past
               PROVE  key'[t] # key'[o]
    BY DEF TidyAlone
  <2>1. tidy[t] /\ pc[t] \in Past /\ pc[o] \in Past
    BY <1>1
  <2> QED BY <2>1 DEF SeedInv, TidyAlone
<1>5. OthersKept(s)
  BY <1>1 DEF OthersKept
<1> QED BY <1>1, <1>2, <1>3, <1>4, <1>5 DEF SeedInv

LEMMA StatStep ==
    ASSUME SeedInv, NEW s \in Seeders, StatObject(s)
    PROVE  SeedInv' /\ OthersKept(s)
<1> DEFINE label == IF key[s] \in objects THEN "upsert" ELSE "upload"
<1>1. pc' \in [Seeders -> Labels] /\ pc'[s] = label /\ \A o \in Seeders \ {s} : pc'[o] = pc[o]
  BY DEF SeedInv, SeedTypes, StatObject, Goto, Labels
<1>2. pc[s] = "stat" /\ UNCHANGED <<file, key, made, at>>
  BY DEF StatObject
<1>3. tidy' = [o \in Seeders |-> tidy[o] /\ (o \in Others(s) \cup {s} => Others(s) = {})]
  BY DEF StatObject
<1>4. tidy' \in [Seeders -> BOOLEAN]
  BY <1>3, Zenon
<1>5. \A o \in Seeders : tidy'[o] => tidy[o] /\ (o \in Others(s) \cup {s} => Others(s) = {})
  BY <1>3
<1>6. Commands'
  BY <1>1, <1>2 DEF SeedInv, Commands, Past
<1>7. TidyAlone'
  <2> SUFFICES ASSUME NEW t \in Seeders, NEW o \in Seeders, tidy'[t], t # o,
                      pc'[t] \in Past, pc'[o] \in Past, key'[t] = key'[o]
               PROVE  FALSE
    BY DEF TidyAlone
  <2>0. key[t] = key[o]
    BY <1>2
  <2>1. CASE t = s
    <3>1. o \in Others(s)
      BY <2>0, <2>1, <1>1 DEF Others, Past
    <3> QED BY <3>1, <2>1, <1>5
  <2>2. CASE o = s
    <3>1. t \in Others(s)
      BY <2>0, <2>2, <1>1 DEF Others, Past
    <3> QED BY <3>1, <1>5
  <2>3. CASE t # s /\ o # s
    BY <2>0, <2>3, <1>1, <1>5 DEF SeedInv, TidyAlone
  <2> QED BY <2>1, <2>2, <2>3
<1>8. SeedTypes'
  BY <1>1, <1>2, <1>4 DEF SeedInv, SeedTypes
<1>9. OthersKept(s)
  BY <1>1, <1>2, <1>5 DEF OthersKept
<1> QED BY <1>6, <1>7, <1>8, <1>9 DEF SeedInv

\* Before the look at the object: Seed and Normalize.
LEMMA EarlyStep ==
    ASSUME SeedInv, NEW s \in Seeders, (\E f \in Files : Seed(s, f)) \/ Normalize(s)
    PROVE  SeedInv' /\ OthersKept(s) /\ pc'[s] \in {"normalize", "stat"}
<1>1. CASE \E f \in Files : Seed(s, f)
  <2>1. PICK f \in Files : Seed(s, f)
    BY <1>1
  <2>2. /\ pc[s] = "idle" /\ pc' = [pc EXCEPT ![s] = "normalize"] /\ file' = [file EXCEPT ![s] = f]
        /\ UNCHANGED <<key, made, at, tidy>>
    BY <2>1 DEF Seed, Goto
  <2>3. SeedTypes'
    BY <2>2 DEF SeedInv, SeedTypes, Labels
  <2>4. Commands'
    BY <2>2 DEF SeedInv, SeedTypes, Commands, Past
  <2>5. TidyAlone'
    BY <2>2 DEF SeedInv, SeedTypes, TidyAlone, Past
  <2>6. OthersKept(s) /\ pc'[s] = "normalize"
    BY <2>2 DEF SeedInv, SeedTypes, OthersKept
  <2> QED BY <2>3, <2>4, <2>5, <2>6 DEF SeedInv
<1>2. CASE Normalize(s)
  <2>1. PICK q \in Normalized(ProbeOf[file[s]]) : key' = [key EXCEPT ![s] = <<file[s], q>>]
    BY <1>2 DEF Normalize
  <2>2. /\ pc[s] = "normalize" /\ pc' = [pc EXCEPT ![s] = "stat"]
        /\ UNCHANGED <<file, made, at, tidy>>
    BY <1>2 DEF Normalize, Goto
  <2>3. file[s] \in Files
    BY <2>2 DEF SeedInv, Commands
  <2>4. <<file[s], q>> \in Keys
    BY <2>3, NormalizedKey
  <2>5. PICK k \in Keys : k = <<file[s], q>>
    BY <2>4
  <2>6. key' = [key EXCEPT ![s] = k]
    BY <2>1, <2>4, <2>5
  <2>7. SeedTypes'
    BY <2>2, <2>6 DEF SeedInv, SeedTypes, Labels
  <2>8. Commands'
    BY <2>2, <2>3, <2>6 DEF SeedInv, SeedTypes, Commands, Past
  <2>9. TidyAlone'
    BY <2>2, <2>6 DEF SeedInv, SeedTypes, TidyAlone, Past
  <2>10. OthersKept(s) /\ pc'[s] = "stat"
    BY <2>2, <2>6 DEF SeedInv, SeedTypes, OthersKept
  <2> QED BY <2>7, <2>8, <2>9, <2>10 DEF SeedInv
<1> QED BY <1>1, <1>2

-----------------------------------------------------------------------------
(* Rows and objects *)

StoreInv == Removals /\ RowsBacked /\ objects \subseteq Keys /\ torn \subseteq Keys

\* What Removals says of one command.
RemovalOK(s) ==
    /\ tidy[s] /\ MayRemove(s) => RowOf(key[s]) = {} \/ key[s] \in torn
    /\ pc[s] \in {"upsert", "commit"} => key[s] \in objects \cup torn

\* A step that stores and removes nothing.
LEMMA StoreKept ==
    ASSUME StoreInv, NEW s \in Seeders, OthersKept(s), UNCHANGED <<rows, objects, torn>>,
           RemovalOK(s)'
    PROVE  StoreInv'
<1>1. ASSUME NEW o \in Seeders PROVE RemovalOK(o)'
  <2>1. CASE o = s
    BY <2>1
  <2>2. CASE o # s
    <3>1. RemovalOK(o)
      BY DEF StoreInv, Removals, RemovalOK
    <3> QED BY <2>2, <3>1 DEF RemovalOK, OthersKept, MayRemove, RowOf
  <2> QED BY <2>1, <2>2
<1>2. Removals'
  BY <1>1 DEF Removals, RemovalOK
<1> QED BY <1>2 DEF StoreInv, RowsBacked

\* A step of command s that stores or removes something under its key.
LEMMA StoreMoved ==
    ASSUME SeedInv, StoreInv, NEW s \in Seeders, OthersKept(s), pc[s] \in Past,
           \A k \in Keys : k # key[s] =>
              RowOf(k)' = RowOf(k) /\ (k \in objects' <=> k \in objects) /\ (k \in torn' <=> k \in torn),
           \/ key[s] \in objects' \cup torn'
           \/ tidy[s]
           \/ key[s] \notin objects \cup torn,
           RemovalOK(s)'
    PROVE  Removals'
<1>1. ASSUME NEW o \in Seeders, o # s PROVE RemovalOK(o)'
  <2>0. RemovalOK(o) /\ pc'[o] = pc[o] /\ key'[o] = key[o] /\ (tidy'[o] => tidy[o])
        /\ (MayRemove(o)' <=> MayRemove(o))
    BY <1>1 DEF StoreInv, Removals, RemovalOK, OthersKept, MayRemove
  <2>1. pc[o] \in Past \/ ~(MayRemove(o) \/ pc[o] \in {"upsert", "commit"})
    BY DEF MayRemove, Past
  <2>2. CASE pc[o] \notin Past
    BY <2>0, <2>1, <2>2 DEF RemovalOK
  <2>3. CASE pc[o] \in Past /\ key[o] # key[s]
    <3>1. key[o] \in Keys
      BY <2>3 DEF SeedInv, Commands
    <3>2. RowOf(key[o])' = RowOf(key[o])
      BY <3>1, <2>3, <2>0 DEF RowOf
    <3> QED BY <2>0, <2>3, <3>1, <3>2 DEF RemovalOK
  <2>4. CASE pc[o] \in Past /\ key[o] = key[s]
    <3>1. ~tidy[o] /\ ~tidy[s]
      BY <2>4, <1>1 DEF SeedInv, TidyAlone
    <3>2. pc[o] \in {"upsert", "commit"} => key[s] \in objects' \cup torn'
      BY <2>0, <2>4, <3>1 DEF RemovalOK
    <3> QED BY <2>0, <2>4, <3>1, <3>2 DEF RemovalOK
  <2> QED BY <2>2, <2>3, <2>4
<1>2. ASSUME NEW o \in Seeders PROVE RemovalOK(o)'
  BY <1>1
<1> QED BY <1>2 DEF Removals, RemovalOK

\* What a command about to commit does to the rows.
LEMMA NewRowStep ==
    ASSUME TypeOK, SeedInv, NEW s \in Seeders, NEW id \in Ids, pc[s] = "commit", NewRow(s, id)
    PROVE  /\ rows' = rows \/ \E r \in Row : r.id \notin RowIds /\ rows' = rows \cup {r}
           /\ \A v \in rows' : v \in rows \/ v.key = key[s]
           /\ rows \subseteq rows'
<1> DEFINE r == [id |-> id, at |-> at[s], key |-> key[s]]
<1>1. r \in Row /\ r.id = id /\ r.key = key[s]
  BY DEF SeedInv, SeedTypes, Commands, Past, Row
<1>2. r.id \notin RowIds
  BY <1>1 DEF NewRow, RowIds
<1>3. rows' = rows \/ rows' = rows \cup {r}
  BY DEF NewRow
<1> HIDE DEF r
<1> QED BY <1>1, <1>2, <1>3

LEMMA RowOfKept ==
    ASSUME NEW s, \A v \in rows' : v \in rows \/ v.key = key[s], rows \subseteq rows'
    PROVE  \A k : k # key[s] => RowOf(k)' = RowOf(k)
BY DEF RowOf

-----------------------------------------------------------------------------
(* The steps of a seed command *)

LEMMA LeaveRemoval ==
    ASSUME NEW s, pc'[s] \in {"idle", "normalize", "stat"}
    PROVE  RemovalOK(s)'
BY DEF RemovalOK, MayRemove

\* The command gives up, or is killed, and leaves rows and objects alone.
LEMMA LeaveKeeps ==
    ASSUME SeedInv, StoreInv, NEW s \in Seeders, Leave(s), UNCHANGED <<rows, objects, torn>>
    PROVE  SeedInv' /\ StoreInv'
<1>1. SeedInv' /\ OthersKept(s) /\ pc'[s] = "idle"
  BY LeaveStep
<1>2. RemovalOK(s)'
  BY <1>1, LeaveRemoval
<1> QED BY <1>1, <1>2, StoreKept

LEMMA EarlyKeeps ==
    ASSUME SeedInv, StoreInv, NEW s \in Seeders, (\E f \in Files : Seed(s, f)) \/ Normalize(s)
    PROVE  SeedInv' /\ StoreInv'
<1>1. SeedInv' /\ OthersKept(s) /\ pc'[s] \in {"normalize", "stat"}
  BY EarlyStep
<1>2. RemovalOK(s)'
  BY <1>1, LeaveRemoval
<1>3. UNCHANGED <<rows, objects, torn>>
  BY DEF Seed, Normalize
<1> QED BY <1>1, <1>2, <1>3, StoreKept

LEMMA StatKeeps ==
    ASSUME SeedInv, StoreInv, NEW s \in Seeders, StatObject(s)
    PROVE  SeedInv' /\ StoreInv'
<1>1. SeedInv' /\ OthersKept(s)
  BY StatStep
<1>2. UNCHANGED <<rows, objects, torn, key, made>>
  BY DEF StatObject
<1>3. pc'[s] = IF key[s] \in objects THEN "upsert" ELSE "upload"
  BY DEF StatObject, Goto, SeedInv, SeedTypes
<1>4. key[s] \notin objects => RowOf(key[s]) = {} \/ key[s] \in torn
  BY DEF StoreInv, RowsBacked, RowOf
<1>5. CASE key[s] \notin objects
  <2>1. RemovalOK(s)'
    BY <1>2, <1>3, <1>4, <1>5 DEF RemovalOK, RowOf
  <2> QED BY <2>1, <1>1, <1>2, StoreKept
<1>6. CASE key[s] \in objects /\ ~made[s]
  <2>1. RemovalOK(s)'
    BY <1>2, <1>3, <1>6 DEF RemovalOK, MayRemove
  <2> QED BY <2>1, <1>1, <1>2, StoreKept
<1>7. ~made[s]
  BY DEF StatObject, SeedInv, Commands
<1> QED BY <1>5, <1>6, <1>7

LEMMA UploadKeeps ==
    ASSUME SeedInv, StoreInv, NEW s \in Seeders, Upload(s) \/ UploadFails(s)
    PROVE  SeedInv' /\ StoreInv'
<1>1. /\ pc[s] = "upload" /\ UNCHANGED <<rows, torn, file, key, at, tidy>>
      /\ objects \subseteq objects' /\ objects' \subseteq objects \cup {key[s]}
  BY DEF Upload, UploadFails
<1>2. PICK label \in {"upsert", "remove"} :
         /\ Goto(s, label)
         /\ label = "upsert" => key[s] \in objects'
         /\ made' = IF label = "upsert" THEN [made EXCEPT ![s] = TRUE] ELSE made
  BY DEF Upload, UploadFails
<1>3. made' \in [Seeders -> BOOLEAN] /\ \A o \in Seeders \ {s} : made'[o] = made[o]
  BY <1>2 DEF SeedInv, SeedTypes
<1>4. label \in Labels \ {"idle"} /\ label \in Past \ {"upload"} /\ pc[s] \in Past
  BY <1>1 DEF Labels, Past
<1>5. at' \in [Seeders -> Times] /\ tidy' \in [Seeders -> BOOLEAN]
      /\ \A o \in Seeders : tidy'[o] => tidy[o]
  BY <1>1 DEF SeedInv, SeedTypes
<1>6. SeedInv' /\ OthersKept(s) /\ pc'[s] = label
  BY <1>1, <1>2, <1>3, <1>4, <1>5, GotoStep
<1>7. key[s] \in Keys
  BY <1>4 DEF SeedInv, Commands
<1>8. tidy[s] => RowOf(key[s]) = {} \/ key[s] \in torn
  BY <1>1 DEF StoreInv, Removals, MayRemove
<1>9. RemovalOK(s)'
  BY <1>1, <1>2, <1>6, <1>8 DEF RemovalOK, RowOf
<1>10. \A k \in Keys : k # key[s] =>
          RowOf(k)' = RowOf(k) /\ (k \in objects' <=> k \in objects) /\ (k \in torn' <=> k \in torn)
  BY <1>1 DEF RowOf
<1>11. Removals'
  BY <1>1, <1>4, <1>6, <1>9, <1>10, StoreMoved
<1>12. RowsBacked' /\ objects' \subseteq Keys /\ torn' \subseteq Keys
  BY <1>1, <1>7 DEF StoreInv, RowsBacked
<1> QED BY <1>6, <1>11, <1>12 DEF StoreInv

LEMMA UpsertKeeps ==
    ASSUME TypeOK, SeedInv, StoreInv, NEW s \in Seeders, Upsert(s)
    PROVE  SeedInv' /\ StoreInv'
<1>1. /\ pc[s] = "upsert" /\ UNCHANGED <<rows, objects, torn, file, key, made, tidy>>
      /\ Goto(s, "commit") /\ at' = [at EXCEPT ![s] = clock]
  BY DEF Upsert
<1>2. /\ at' \in [Seeders -> Times] /\ tidy' \in [Seeders -> BOOLEAN]
      /\ made' \in [Seeders -> BOOLEAN]
      /\ \A o \in Seeders : tidy'[o] => tidy[o]
      /\ \A o \in Seeders \ {s} : made'[o] = made[o]
  BY <1>1 DEF SeedInv, SeedTypes, TypeOK
<1>3. "commit" \in Labels \ {"idle"} /\ "commit" \in Past \ {"upload"} /\ pc[s] \in Past
  BY <1>1 DEF Labels, Past
<1>4. SeedInv' /\ OthersKept(s) /\ pc'[s] = "commit"
  BY <1>1, <1>2, <1>3, GotoStep
<1>5. RemovalOK(s)
  BY DEF StoreInv, Removals, RemovalOK
<1>6. RemovalOK(s)'
  BY <1>1, <1>4, <1>5 DEF RemovalOK, MayRemove, RowOf
<1> QED BY <1>1, <1>4, <1>6, StoreKept

\* After a failure, a command that uploaded its object goes on to remove it.
LEMMA FailureStep ==
    ASSUME SeedInv, NEW s \in Seeders, pc[s] \in {"upsert", "commit"}, NEW clean \in BOOLEAN,
           clean => tidy[s], AfterFailure(s, clean)
    PROVE  /\ SeedInv' /\ OthersKept(s)
           /\ \/ pc'[s] = "idle"
              \/ made[s] /\ key'[s] = key[s] /\ pc'[s] = "remove" /\ (tidy'[s] <=> clean)
<1>1. CASE made[s]
  <2>1. /\ Goto(s, "remove") /\ tidy' = [tidy EXCEPT ![s] = clean]
        /\ UNCHANGED <<file, key, made, at>>
    BY <1>1 DEF AfterFailure
  <2>2. /\ at' \in [Seeders -> Times] /\ tidy' \in [Seeders -> BOOLEAN]
        /\ made' \in [Seeders -> BOOLEAN]
        /\ \A o \in Seeders \ {s} : made'[o] = made[o]
    BY <2>1 DEF SeedInv, SeedTypes
  <2>3. tidy'[s] = clean /\ \A o \in Seeders : tidy'[o] => tidy[o]
    BY <2>1 DEF SeedInv, SeedTypes
  <2>4. "remove" \in Labels \ {"idle"} /\ "remove" \in Past \ {"upload"} /\ pc[s] \in Past
    BY DEF Labels, Past
  <2>5. SeedInv' /\ OthersKept(s) /\ pc'[s] = "remove"
    BY <2>1, <2>2, <2>3, <2>4, GotoStep
  <2> QED BY <1>1, <2>1, <2>3, <2>5
<1>2. CASE ~made[s]
  <2>1. Leave(s)
    BY <1>2 DEF AfterFailure
  <2> QED BY <2>1, LeaveStep
<1> QED BY <1>1, <1>2

LEMMA FailsKeeps ==
    ASSUME SeedInv, StoreInv, NEW s \in Seeders, DatabaseFails(s)
    PROVE  SeedInv' /\ StoreInv'
<1>1. /\ pc[s] \in {"upsert", "commit"} /\ AfterFailure(s, tidy[s])
      /\ UNCHANGED <<rows, objects, torn>>
  BY DEF DatabaseFails
<1>2. tidy[s] \in BOOLEAN
  BY DEF SeedInv, SeedTypes
<1>3. /\ SeedInv' /\ OthersKept(s)
      /\ \/ pc'[s] = "idle"
         \/ made[s] /\ key'[s] = key[s] /\ pc'[s] = "remove" /\ (tidy'[s] <=> tidy[s])
  BY <1>1, <1>2, FailureStep
<1>4. RemovalOK(s)'
  <2>1. CASE pc'[s] = "idle"
    BY <2>1, LeaveRemoval
  <2>2. CASE pc'[s] # "idle"
    <3>1. RemovalOK(s)
      BY DEF StoreInv, Removals, RemovalOK
    <3> QED BY <2>2, <3>1, <1>1, <1>3 DEF RemovalOK, MayRemove, RowOf
  <2> QED BY <2>1, <2>2
<1> QED BY <1>1, <1>3, <1>4, StoreKept

\* The row a commit adds names an object that is there, or was torn.
LEMMA CommitKeeps ==
    ASSUME TypeOK, SeedInv, StoreInv, NEW s \in Seeders, NEW id \in Ids,
           CommitSeed(s, id) \/ CommitAnswerLost(s, id)
    PROVE  SeedInv' /\ StoreInv'
<1>1. /\ pc[s] = "commit" /\ pc[s] \in Past /\ NewRow(s, id) /\ objects' = objects
      /\ torn' = torn \/ (key[s] \in objects /\ torn' = torn \ {key[s]})
  BY DEF CommitSeed, CommitAnswerLost, Past
<1>2. /\ SeedInv' /\ OthersKept(s)
      /\ pc'[s] = "idle" \/ (pc'[s] = "remove" /\ ~tidy'[s])
  <2>1. CASE CommitSeed(s, id)
    BY <2>1, LeaveStep DEF CommitSeed
  <2>2. CASE CommitAnswerLost(s, id)
    BY <2>2, <1>1, FailureStep DEF CommitAnswerLost
  <2> QED BY <2>1, <2>2
<1>3. RemovalOK(s)'
  BY <1>2 DEF RemovalOK, MayRemove
<1>4. (\A v \in rows' : v \in rows \/ v.key = key[s]) /\ rows \subseteq rows'
  BY <1>1, NewRowStep
<1>5. key[s] \in objects \cup torn /\ key[s] \in objects' \cup torn'
  BY <1>1 DEF StoreInv, Removals
<1>6. \A k \in Keys : k # key[s] =>
         RowOf(k)' = RowOf(k) /\ (k \in objects' <=> k \in objects) /\ (k \in torn' <=> k \in torn)
  BY <1>1, <1>4, RowOfKept
<1>7. Removals'
  BY <1>1, <1>2, <1>3, <1>5, <1>6, StoreMoved
<1>8. RowsBacked'
  BY <1>1, <1>4, <1>5 DEF StoreInv, RowsBacked
<1>9. objects' \subseteq Keys /\ torn' \subseteq Keys
  BY <1>1 DEF StoreInv
<1> QED BY <1>2, <1>7, <1>8, <1>9 DEF StoreInv

\* A tidy command takes no object from an intact row; any other one marks the key.
LEMMA RemoveKeeps ==
    ASSUME SeedInv, StoreInv, NEW s \in Seeders, RemoveObject(s)
    PROVE  SeedInv' /\ StoreInv'
<1>1. pc[s] = "remove" /\ pc[s] \in Past /\ Leave(s) /\ rows' = rows
  BY DEF RemoveObject, Past
<1>2. SeedInv' /\ OthersKept(s) /\ pc'[s] = "idle"
  BY <1>1, LeaveStep
<1>3. CASE UNCHANGED <<objects, torn>>
  BY <1>1, <1>3, LeaveKeeps
<1>4. CASE /\ objects' = objects \ {key[s]}
           /\ torn' = IF tidy[s] THEN torn ELSE torn \cup {key[s]}
  <2>1. RemovalOK(s)'
    BY <1>2, LeaveRemoval
  <2>2. tidy[s] => RowOf(key[s]) = {} \/ key[s] \in torn
    BY <1>1 DEF StoreInv, Removals, MayRemove
  <2>3. \A k \in Keys : k # key[s] =>
           RowOf(k)' = RowOf(k) /\ (k \in objects' <=> k \in objects) /\ (k \in torn' <=> k \in torn)
    BY <1>1, <1>4 DEF RowOf
  <2>4. key[s] \in objects' \cup torn' \/ tidy[s]
    BY <1>4
  <2>5. Removals'
    BY <1>1, <1>2, <2>1, <2>3, <2>4, StoreMoved
  <2>6. key[s] \in Keys
    BY <1>1 DEF SeedInv, Commands
  <2>7. RowsBacked'
    BY <1>1, <1>4, <2>2 DEF StoreInv, RowsBacked, RowOf
  <2>8. objects' \subseteq Keys /\ torn' \subseteq Keys
    BY <1>4, <2>6 DEF StoreInv
  <2> QED BY <1>2, <2>5, <2>7, <2>8 DEF StoreInv
<1> QED BY <1>3, <1>4 DEF RemoveObject

-----------------------------------------------------------------------------
(* Objects that no row names *)

\* A step of command s after which every object still has a row, or one that
\* answers for it.
LEMMA StrayMoved ==
    ASSUME NoStrayObjects, NEW s \in Seeders,
           \A o \in Seeders \ {s} : pc'[o] = pc[o] /\ key'[o] = key[o] /\ made'[o] = made[o],
           rows \subseteq rows',
           \A k \in objects' : k \in objects \/ (Stored(s)' /\ k = key'[s]),
           \A k \in left : k \in left' \/ k \notin objects' \/ RowOf(k)' # {},
           \A k \in objects' : Stored(s) /\ key[s] = k =>
              RowOf(k)' # {} \/ k \in left' \/ (Stored(s)' /\ key'[s] = k)
    PROVE  NoStrayObjects'
<1> SUFFICES ASSUME NEW k \in objects', RowOf(k)' = {}, k \notin left'
             PROVE  \E o \in Seeders : key'[o] = k /\ Stored(o)'
  BY DEF NoStrayObjects
<1>1. RowOf(k) = {} /\ k \notin left
  BY DEF RowOf
<1>2. CASE k \notin objects
  BY <1>2
<1>3. CASE k \in objects
  <2>1. PICK o \in Seeders : key[o] = k /\ Stored(o)
    BY <1>1, <1>3 DEF NoStrayObjects
  <2>2. CASE o = s
    BY <2>1, <2>2
  <2>3. CASE o # s
    BY <2>1, <2>3 DEF Stored
  <2> QED BY <2>2, <2>3
<1> QED BY <1>2, <1>3

\* Whatever a command does, fails at or is killed at.
LEMMA StrayStep ==
    ASSUME TypeOK, SeedInv, NoStrayObjects, NEW s \in Seeders, SeedStep(s)
    PROVE  NoStrayObjects' /\ left' \subseteq Keys
<1> DEFINE Aside(o) == pc'[o] = pc[o] /\ key'[o] = key[o] /\ made'[o] = made[o]
<1>0. /\ pc \in [Seeders -> Labels] /\ key \in [Seeders -> Keys \cup {None}]
      /\ made \in [Seeders -> BOOLEAN] /\ left \subseteq Keys /\ objects \subseteq Keys
  BY DEF TypeOK
<1>1. made[s] => pc[s] \in {"upsert", "commit", "remove"}
  BY DEF SeedInv, Commands
<1>2. ASSUME (\E f \in Files : Seed(s, f)) \/ Normalize(s) \/ SeedFails(s) \/ StatObject(s)
      PROVE  NoStrayObjects' /\ left' \subseteq Keys
  <2>1. ~Stored(s) /\ UNCHANGED <<rows, objects, left>>
    BY <1>1, <1>2 DEF Stored, Seed, Normalize, SeedFails, StatObject
  <2>2. \A o \in Seeders \ {s} : Aside(o)
    BY <1>0, <1>2 DEF Seed, Normalize, SeedFails, StatObject, Leave, Goto
  <2> QED BY <1>0, <2>1, <2>2, StrayMoved
<1>3. ASSUME Upload(s) \/ UploadFails(s) PROVE NoStrayObjects' /\ left' \subseteq Keys
  <2>1. /\ UNCHANGED <<rows, left, key>> /\ objects' \subseteq objects \cup {key[s]}
        /\ Stored(s)'
    BY <1>0, <1>3 DEF Stored, Upload, UploadFails, Goto
  <2>2. \A o \in Seeders \ {s} : Aside(o)
    BY <1>0, <1>3 DEF Upload, UploadFails, Goto
  <2> QED BY <1>0, <2>1, <2>2, StrayMoved
<1>4. ASSUME Upsert(s) \/ DatabaseFails(s) PROVE NoStrayObjects' /\ left' \subseteq Keys
  <2>1. UNCHANGED <<rows, objects, left>> /\ pc[s] \in {"upsert", "commit"}
    BY <1>4 DEF Upsert, DatabaseFails
  <2>2. Stored(s) => Stored(s)' /\ key'[s] = key[s]
    BY <1>0, <1>4, <2>1 DEF Stored, Upsert, DatabaseFails, AfterFailure, Goto
  <2>3. \A o \in Seeders \ {s} : Aside(o)
    BY <1>0, <1>4 DEF Upsert, DatabaseFails, AfterFailure, Leave, Goto
  <2> QED BY <1>0, <2>1, <2>2, <2>3, StrayMoved
<1>5. ASSUME \E id \in Ids : CommitSeed(s, id) \/ CommitAnswerLost(s, id)
      PROVE  NoStrayObjects' /\ left' \subseteq Keys
  <2>1. PICK id \in Ids : CommitSeed(s, id) \/ CommitAnswerLost(s, id)
    BY <1>5
  <2>2. objects' = objects /\ left' = left \ {key[s]} /\ NewRow(s, id) /\ pc[s] = "commit"
    BY <2>1 DEF CommitSeed, CommitAnswerLost
  <2>3. rows \subseteq rows' /\ \A k : k = key[s] => RowOf(k)' # {}
    <3>1. \E v \in rows' : v.key = key[s]
      <4>1. CASE RowOf(key[s]) = {}
        <5>1. [id |-> id, at |-> at[s], key |-> key[s]] \in rows'
          BY <2>2, <4>1 DEF NewRow
        <5> QED BY <5>1
      <4>2. CASE RowOf(key[s]) # {}
        BY <2>2, <4>2 DEF NewRow, RowOf
      <4> QED BY <4>1, <4>2
    <3>2. \A k : RowOf(k)' = {v \in rows' : v.key = k}
      BY DEF RowOf
    <3>3. rows \subseteq rows'
      BY <2>2 DEF NewRow
    <3> QED BY <3>1, <3>2, <3>3
  <2>4. \A o \in Seeders \ {s} : Aside(o)
    BY <1>0, <2>1 DEF CommitSeed, CommitAnswerLost, AfterFailure, Leave, Goto
  <2>5. \A k \in left : k \in left' \/ RowOf(k)' # {}
    BY <2>2, <2>3
  <2> QED BY <1>0, <2>2, <2>3, <2>4, <2>5, StrayMoved
<1>6. ASSUME RemoveObject(s) PROVE NoStrayObjects' /\ left' \subseteq Keys
  <2>1. /\ rows' = rows
        /\ \/ objects' = objects \ {key[s]} /\ left' = left \ {key[s]}
           \/ objects' = objects /\ left' = left \cup ({key[s]} \cap objects)
    BY <1>6 DEF RemoveObject
  <2>2. \A o \in Seeders \ {s} : Aside(o)
    BY <1>0, <1>6 DEF RemoveObject, Leave, Goto
  <2> QED BY <1>0, <2>1, <2>2, StrayMoved
<1>7. ASSUME Kill(s) PROVE NoStrayObjects' /\ left' \subseteq Keys
  <2>1. /\ UNCHANGED <<rows, objects>>
        /\ left' = IF Stored(s) THEN left \cup ({key[s]} \cap objects) ELSE left
    BY <1>7 DEF Kill
  <2>2. \A o \in Seeders \ {s} : Aside(o)
    BY <1>0, <1>7 DEF Kill, Leave, Goto
  <2> QED BY <1>0, <2>1, <2>2, StrayMoved
<1> QED BY <1>2, <1>3, <1>4, <1>5, <1>6, <1>7 DEF SeedStep

-----------------------------------------------------------------------------
(* The invariant is inductive *)

\* TypeOK, by parts.
LEMMA TypeParts ==
    TypeOK <=> /\ SeedTypes /\ rows \subseteq Row /\ objects \subseteq Keys /\ torn \subseteq Keys /\ left \subseteq Keys
               /\ clock \in Times /\ seeds \in 0 .. MaxSeeds /\ secret \in 1 .. MaxKeys
               /\ reader \in Readers
               /\ player \in [pc : {"off", "open", "sent", "missing", "refused"},
                              key : Keys \cup {None}]
BY DEF TypeOK, SeedTypes, Readers

LEMMA InitInv == Init => Inv
<1> SUFFICES ASSUME Init PROVE Inv
  OBVIOUS
<1>1. SeedTypes
  BY Constants DEF Init, SeedTypes, Labels, Times
<1>2. reader \in Readers
  BY DEF Init, Readers
<1>3. /\ rows \subseteq Row /\ objects \subseteq Keys /\ torn \subseteq Keys
      /\ left \subseteq Keys /\ clock \in Times /\ seeds \in 0 .. MaxSeeds /\ secret \in 1 .. MaxKeys
      /\ player \in [pc : {"off", "open", "sent", "missing", "refused"}, key : Keys \cup {None}]
  BY Constants DEF Init, Times
<1>4. TypeOK
  BY <1>1, <1>2, <1>3, TypeParts
<1>5. Commands /\ TidyAlone /\ Removals
  BY DEF Init, Commands, TidyAlone, Removals, MayRemove, Past
<1>6. RowsBacked /\ NoStrayObjects /\ PlayerInv
  BY DEF Init, RowsBacked, NoStrayObjects, PlayerInv
<1>7. RowsDistinct
  BY FS_EmptySet DEF Init, RowsDistinct
<1>8. ReaderInv
  BY DEF Init, ReaderInv, CatalogueComplete
<1> QED BY <1>4, <1>5, <1>6, <1>7, <1>8 DEF Inv

\* A step of a seed command, for the client that reads meanwhile.
LEMMA SeedRows ==
    ASSUME TypeOK, SeedInv, NEW s \in Seeders, SeedStep(s)
    PROVE  /\ rows' = rows \/ \E r \in Row : r.id \notin RowIds /\ rows' = rows \cup {r}
           /\ UNCHANGED <<clock, secret, reader, player>>
           /\ seeds' \in 0 .. MaxSeeds
<1>1. CASE \E id \in Ids : CommitSeed(s, id) \/ CommitAnswerLost(s, id)
  <2>1. PICK id \in Ids : CommitSeed(s, id) \/ CommitAnswerLost(s, id)
    BY <1>1
  <2>2. pc[s] = "commit" /\ NewRow(s, id) /\ UNCHANGED <<clock, secret, reader, player, seeds>>
    BY <2>1 DEF CommitSeed, CommitAnswerLost
  <2> QED BY <2>2, NewRowStep DEF TypeOK
<1>2. CASE \E f \in Files : Seed(s, f)
  BY <1>2, Constants DEF Seed, TypeOK
<1>3. CASE \/ Normalize(s) \/ SeedFails(s) \/ StatObject(s)
           \/ Upload(s) \/ UploadFails(s) \/ Upsert(s) \/ DatabaseFails(s)
           \/ RemoveObject(s) \/ Kill(s)
  BY <1>3 DEF Normalize, SeedFails, StatObject, Upload, UploadFails, Upsert, DatabaseFails,
              RemoveObject, Kill, TypeOK
<1> QED BY <1>1, <1>2, <1>3 DEF SeedStep

LEMMA SeedStepInv == ASSUME Inv, NEW s \in Seeders, SeedStep(s) PROVE Inv'
<1>1. TypeOK /\ SeedInv /\ StoreInv /\ NoStrayObjects /\ RowsDistinct /\ ReaderInv /\ PlayerInv
  BY TypeParts DEF Inv, SeedInv, StoreInv
<1>2. SeedInv' /\ StoreInv'
  <2>1. CASE (\E f \in Files : Seed(s, f)) \/ Normalize(s)
    BY <1>1, <2>1, EarlyKeeps
  <2>2. CASE SeedFails(s) \/ Kill(s)
    <3>1. Leave(s) /\ UNCHANGED <<rows, objects, torn>>
      BY <2>2 DEF SeedFails, Kill
    <3> QED BY <1>1, <3>1, LeaveKeeps
  <2>3. CASE StatObject(s)
    BY <1>1, <2>3, StatKeeps
  <2>4. CASE Upload(s) \/ UploadFails(s)
    BY <1>1, <2>4, UploadKeeps
  <2>5. CASE Upsert(s)
    BY <1>1, <2>5, UpsertKeeps
  <2>6. CASE DatabaseFails(s)
    BY <1>1, <2>6, FailsKeeps
  <2>7. CASE \E id \in Ids : CommitSeed(s, id) \/ CommitAnswerLost(s, id)
    BY <1>1, <2>7, CommitKeeps
  <2>8. CASE RemoveObject(s)
    BY <1>1, <2>8, RemoveKeeps
  <2> QED BY <2>1, <2>2, <2>3, <2>4, <2>5, <2>6, <2>7, <2>8 DEF SeedStep
<1>3. /\ rows' = rows \/ \E r \in Row : r.id \notin RowIds /\ rows' = rows \cup {r}
      /\ clock' = clock /\ secret' = secret /\ reader' = reader /\ player' = player
      /\ seeds' \in 0 .. MaxSeeds
  BY <1>1, SeedRows
<1>4. RowsDistinct' /\ ReaderInv' /\ rows' \subseteq Row
  <2>1. CASE rows' = rows
    BY <1>1, <1>3, <2>1, RowsKept, TypeParts
  <2>2. CASE rows' # rows
    BY <1>1, <1>3, <2>2, RowAdded
  <2> QED BY <2>1, <2>2
<1>7. NoStrayObjects' /\ left' \subseteq Keys
  BY <1>1, StrayStep
<1>5. TypeOK'
  <2>1. /\ SeedTypes' /\ rows' \subseteq Row /\ objects' \subseteq Keys /\ torn' \subseteq Keys
    BY <1>2, <1>4 DEF SeedInv, StoreInv
  <2>2. /\ clock' \in Times /\ secret' \in 1 .. MaxKeys /\ reader' \in Readers
        /\ player' \in [pc : {"off", "open", "sent", "missing", "refused"}, key : Keys \cup {None}]
    BY <1>1, <1>3, TypeParts
  <2> QED BY <2>1, <2>2, <1>3, <1>7 DEF TypeOK, SeedTypes, Readers
<1>6. PlayerInv'
  BY <1>1, <1>3 DEF PlayerInv
<1> QED BY <1>2, <1>4, <1>5, <1>6, <1>7 DEF Inv, SeedInv, StoreInv

\* Steps that leave rows, objects and commands alone.
LEMMA OtherStep ==
    ASSUME Inv, UNCHANGED <<rows, objects, torn, left, seeds, seedVars>>,
           clock' \in Times, secret' \in 1 .. MaxKeys, reader' \in Readers, ReaderInv',
           player' \in [pc : {"off", "open", "sent", "missing", "refused"}, key : Keys \cup {None}],
           PlayerInv'
    PROVE  Inv'
<1>1. TypeOK'
  BY DEF Inv, TypeOK, seedVars, Readers
<1>2. Commands' /\ TidyAlone'
  BY DEF Inv, Commands, TidyAlone, seedVars
<1>3. Removals' /\ RowsBacked' /\ NoStrayObjects' /\ RowsDistinct'
  BY DEF Inv, Removals, MayRemove, RowOf, RowsBacked, NoStrayObjects, Stored, RowsDistinct, seedVars
<1> QED BY <1>1, <1>2, <1>3 DEF Inv

LEMMA NextInv == ASSUME Inv, Next PROVE Inv'
<1> DEFINE Players == [pc : {"off", "open", "sent", "missing", "refused"}, key : Keys \cup {None}]
<1>1. /\ TypeOK /\ RowsDistinct /\ ReaderInv /\ PlayerInv /\ clock \in Times /\ seeds \in 0 .. MaxSeeds
      /\ secret \in 1 .. MaxKeys /\ reader \in Readers /\ player \in Players
      /\ rows \subseteq Row /\ objects \subseteq Keys
  BY TypeParts DEF Inv
<1>2. CASE Tick \/ Rotate
  <2>1. UNCHANGED <<rows, objects, torn, left, seeds, seedVars, reader, player>>
        /\ clock' \in Times /\ secret' \in 1 .. MaxKeys
    BY <1>1, <1>2, Constants DEF Tick, Rotate, Times
  <2>2. ReaderInv' /\ PlayerInv'
    BY <1>1, <2>1, RowsKept DEF PlayerInv
  <2> QED BY <1>1, <2>1, <2>2, OtherStep
<1>3. CASE \E s \in Seeders : SeedStep(s)
  BY <1>3, SeedStepInv
<1>4. CASE StartReading \/ ReadFails
  <2>1. UNCHANGED <<rows, objects, torn, left, clock, secret, seeds, seedVars, player>>
    BY <1>4 DEF StartReading, ReadFails
  <2>2. PICK b \in {"paging", "failed"} :
           /\ reader' = [reader EXCEPT !.pc = b]
           /\ b = "paging" => reader.pc = "off"
    BY <1>4 DEF StartReading, ReadFails
  <2>3. reader' \in Readers
    BY <1>1, <2>2 DEF Readers
  <2>4. /\ reader'.pc = b /\ reader'.cursor = reader.cursor /\ reader'.asked = reader.asked
        /\ reader'.seen = reader.seen /\ reader'.first = reader.first /\ reader'.twice = reader.twice
    BY <1>1, <2>2 DEF Readers
  <2>5. ReaderInv'
    BY <1>1, <2>1, <2>2, <2>4 DEF ReaderInv, RowIds, CatalogueComplete
  <2>6. PlayerInv'
    BY <1>1, <2>1 DEF PlayerInv
  <2> QED BY <1>1, <2>1, <2>3, <2>5, <2>6, OtherStep
<1>5. CASE \E n \in Limits : ReadPage(n)
  <2>1. PICK n \in Nat \ {0} : ReadPage(n)
    BY <1>5, Constants
  <2>2. UNCHANGED <<rows, objects, torn, left, clock, secret, seeds, seedVars, player>>
    BY <2>1 DEF ReadPage
  <2>3. reader' \in Readers /\ ReaderInv'
    BY <1>1, <2>1, ReadPageStep
  <2>4. PlayerInv'
    BY <1>1, <2>2 DEF PlayerInv
  <2> QED BY <1>1, <2>2, <2>3, <2>4, OtherStep
<1>6. CASE \E id \in Ids : StreamInfo(id)
  <2>1. UNCHANGED <<rows, objects, torn, left, clock, secret, seeds, seedVars, reader>>
    BY <1>6 DEF StreamInfo
  <2>2. player' \in Players /\ PlayerInv'
    <3>1. CASE \E v \in rows : player' = [pc |-> "open", key |-> v.key]
      <4>1. PICK v \in rows : player' = [pc |-> "open", key |-> v.key]
        BY <3>1
      <4>2. v.key \in Keys
        BY <1>1 DEF Row
      <4> QED BY <4>1, <4>2 DEF PlayerInv
    <3>2. CASE player' = [pc |-> "missing", key |-> None]
      BY <3>2 DEF PlayerInv
    <3> QED BY <3>1, <3>2, <1>6 DEF StreamInfo
  <2>3. ReaderInv'
    BY <1>1, <2>1, RowsKept
  <2> QED BY <1>1, <2>1, <2>2, <2>3, OtherStep
<1>7. CASE \E h \in RangeHeaders \cup {None} : OpenStream(h)
  <2>1. UNCHANGED <<rows, objects, torn, left, clock, secret, seeds, seedVars, reader>>
    BY <1>7 DEF OpenStream
  <2>2. PICK b \in {"refused", "sent", "missing"} : player' = [pc |-> b, key |-> None]
    BY <1>7 DEF OpenStream
  <2>3. player' \in Players /\ PlayerInv'
    BY <2>2 DEF PlayerInv
  <2>4. ReaderInv'
    BY <1>1, <2>1, RowsKept
  <2> QED BY <1>1, <2>1, <2>3, <2>4, OtherStep
<1> QED BY <1>2, <1>3, <1>4, <1>5, <1>6, <1>7 DEF Next

LEMMA StutterInv == ASSUME Inv, UNCHANGED vars PROVE Inv'
<1>1. UNCHANGED <<rows, objects, torn, left, clock, secret, seeds, seedVars, reader, player>>
  BY DEF vars, seedVars
<1>2. ReaderInv' /\ PlayerInv'
  BY <1>1, RowsKept DEF Inv, PlayerInv
<1> QED BY <1>1, <1>2, OtherStep, TypeParts DEF Inv

-----------------------------------------------------------------------------
(* Byte ranges *)

LEMMA HeaderFields ==
    ASSUME NEW h \in RangeHeaders
    PROVE  (h.first = None \/ h.first \in Nat) /\ (h.last = None \/ h.last \in Nat)
<1>1. \A n : n \in 0 .. MaxSize => n \in Nat
  OBVIOUS
<1>2. \A n : n \in 0 .. MaxSize + 1 => n \in Nat
  OBVIOUS
<1> QED BY <1>1, <1>2 DEF RangeHeaders, Malformed

\* For every size and header, the server's ranges are the requested ones.
LEMMA ServerRange ==
    ASSUME NEW size \in Nat \ {0}, NEW h,
           h.first = None \/ h.first \in Nat, h.last = None \/ h.last \in Nat
    PROVE  LET range == ParseSingleRange(h, size)
           IN  range.start .. range.end = Requested(h, size)
<1> DEFINE range == ParseSingleRange(h, size)
<1>1. CASE h.first = None /\ (h.last = None \/ h.last = 0)
  <2>1. range.start = 1 /\ range.end = 0
    BY <1>1 DEF ParseSingleRange, Unsatisfiable
  <2> QED BY <1>1, <2>1 DEF Requested
<1>2. CASE h.first = None /\ h.last # None /\ h.last # 0
  <2>1. range.start = (IF h.last <= size THEN size - h.last ELSE 0) /\ range.end = size - 1
    BY <1>2 DEF ParseSingleRange, Least
  <2> QED BY <1>2, <2>1 DEF Requested
<1>3. CASE h.first # None
  <2>1. CASE h.first >= size
    <3>1. range.start = 1 /\ range.end = 0
      BY <1>3, <2>1 DEF ParseSingleRange, Unsatisfiable
    <3> QED BY <1>3, <2>1, <3>1 DEF Requested
  <2>2. CASE h.first < size /\ h.last = None
    <3>1. range.start = h.first /\ range.end = size - 1
      BY <1>3, <2>2 DEF ParseSingleRange
    <3> QED BY <1>3, <2>2, <3>1 DEF Requested
  <2>3. CASE h.first < size /\ h.last # None /\ h.last < h.first
    <3>1. range.start = 1 /\ range.end = 0
      BY <1>3, <2>3 DEF ParseSingleRange, Unsatisfiable, Least
    <3> QED BY <1>3, <2>3, <3>1 DEF Requested
  <2>4. CASE h.first < size /\ h.last # None /\ h.last >= h.first
    <3>1. range.start = h.first /\ range.end = (IF h.last <= size - 1 THEN h.last ELSE size - 1)
      BY <1>3, <2>4 DEF ParseSingleRange, Least
    <3> QED BY <1>3, <2>4, <3>1 DEF Requested
  <2> QED BY <1>3, <2>1, <2>2, <2>3, <2>4
<1> QED BY <1>1, <1>2, <1>3

\* The service worker asks in another order and comes to the same ranges.
LEMMA WorkerRange ==
    ASSUME NEW size \in Nat \ {0}, NEW h,
           h.first = None \/ h.first \in Nat, h.last = None \/ h.last \in Nat
    PROVE  LET worker == ParseSingleByteRange(h, size)
               server == ParseSingleRange(h, size)
           IN  worker.start = server.start /\ worker.end = server.end
<1>1. CASE h.first = None
  BY <1>1 DEF ParseSingleByteRange, ParseSingleRange, Unsatisfiable, Least
<1>2. CASE h.first # None
  BY <1>2 DEF ParseSingleByteRange, ParseSingleRange, Unsatisfiable, Least
<1> QED BY <1>1, <1>2

-----------------------------------------------------------------------------
(* Theorems *)

\* What the seed commands, the client that reads and the one that streams know
\* of each other, at every step (services/videos.py, api/videos.py).
THEOREM Invariance == Spec => []Inv
<1>1. Inv /\ [Next]_vars => Inv'
  BY NextInv, StutterInv
<1> QED BY <1>1, InitInv, PTL DEF Spec

\* The types of the tables, the store, the commands and the two clients.
THEOREM TypeCorrect == Spec => []TypeOK
<1>1. Inv => TypeOK
  BY DEF Inv
<1> QED BY <1>1, Invariance, PTL

\* A client that pages through the catalogue while rows are committed out of the
\* order of their created_at misses none that was listed when it began, gets none
\* twice and meets no cursor again (list_page, getEntireVideoCatalog).
THEOREM CatalogueAlwaysComplete == Spec => []CatalogueComplete
<1>1. Inv => CatalogueComplete
  BY DEF Inv, ReaderInv
<1> QED BY <1>1, Invariance, PTL

\* Only a command that shared its key, or lost the answer of its commit, takes the
\* object of a row (_remove_uploaded_object).
THEOREM RowsAlwaysBacked == Spec => []RowsBacked
<1>1. Inv => RowsBacked
  BY DEF Inv
<1> QED BY <1>1, Invariance, PTL

\* For objects of every size, the server and the service worker send exactly the
\* bytes a Range header asks for (parse_single_range, parseSingleByteRange).
THEOREM RangesAlwaysExact == Spec => []RangesExact
<1>1. Inv => RangesExact
  <2> SUFFICES ASSUME Inv, player.pc = "open", NEW h \in RangeHeaders
               PROVE  \A range \in {RangeOf(h, SizeOfKey(player.key)),
                                    ParseSingleByteRange(h, SizeOfKey(player.key))} :
                         range.start .. range.end = Requested(h, SizeOfKey(player.key))
    BY DEF RangesExact
  <2>1. PICK f \in Files : \E q : player.key = <<f, q>>
    BY DEF Inv, PlayerInv, Keys
  <2>2. PICK size \in Nat \ {0} : size = SizeOfKey(player.key)
    BY <2>1, CatalogueAssumption DEF SizeOfKey
  <2>3. (h.first = None \/ h.first \in Nat) /\ (h.last = None \/ h.last \in Nat)
    BY HeaderFields
  <2>4. RangeOf(h, size) = ParseSingleRange(h, size)
    BY NoneAssumption DEF RangeOf
  <2>5. ParseSingleRange(h, size).start .. ParseSingleRange(h, size).end = Requested(h, size)
    BY <2>3, ServerRange
  <2>6. /\ ParseSingleByteRange(h, size).start = ParseSingleRange(h, size).start
        /\ ParseSingleByteRange(h, size).end = ParseSingleRange(h, size).end
    BY <2>3, WorkerRange
  <2> QED BY <2>2, <2>4, <2>5, <2>6
<1> QED BY <1>1, Invariance, PTL

\* Whatever fails, and however commands that share a key overlap, an object
\* without a row is one a running command answers for, or one left by a killed
\* command or a failed removal (seed_file_with_result, _remove_uploaded_object).
THEOREM NeverStrayObjects == Spec => []NoStrayObjects
<1>1. Inv => NoStrayObjects
  BY DEF Inv
<1> QED BY <1>1, Invariance, PTL
=============================================================================
