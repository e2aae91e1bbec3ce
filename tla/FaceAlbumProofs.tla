-------------------------- MODULE FaceAlbumProofs ---------------------------
(***************************************************************************)
(* Proofs about FaceAlbum, for every number of events and files: what an   *)
(* album guarantees to a search follows from its steps.                    *)
(***************************************************************************)
EXTENDS FaceAlbum, TLAPS

\* The parts of the inductive invariant.
Shape ==
  /\ life \in [Events -> {"none", "open", "ready", "deleted"}]
  /\ owner \in [Files -> Events \cup {None}]
  /\ rows = [e \in Events |-> rows[e]]
  /\ index = [e \in Events |-> index[e]]
  /\ hand \in [Events -> Files \cup {None}]

\* One file at most is in hand, of an open album, and it is the album's.
OneInHand ==
  /\ \A d, e \in Events : hand[d] # None /\ hand[e] # None => d = e
  /\ \A e \in Events : hand[e] # None => life[e] = "open" /\ owner[hand[e]] = e

\* An album has no rows before it exists nor after it is deleted.
Empty ==
  /\ \A e \in Events : ~Live(e) => rows[e] = {}
  /\ \A e \in Events : life[e] = "none" => index[e] = {}

\* Every face is of a file, and every row of one that some album owns.
OfFiles ==
  /\ \A e \in Events : \A r \in rows[e] : r.file \in Files /\ owner[r.file] # None
  /\ \A e \in Events : Live(e) => \A x \in index[e] : x.file \in Files

\* The stores differ by the file in hand.
Differ ==
  \A e \in Events : Live(e) =>
    /\ \A x \in index[e] : x \in rows[e] \/ x.file = hand[e]
    /\ \A x \in rows[e] : x \in index[e] \/ x.file = hand[e]

\* Ids among rows, between an index and all rows, and within an index.  The second
\* speaks of the rows of every album: what enters the index enters the rows later.
RowIds ==
  \A d, e \in Events : \A r \in rows[d], s \in rows[e] : r.id = s.id => r = s /\ d = e
IndexIds ==
  \A d, e \in Events : Live(e) =>
    \A x \in index[e], r \in rows[d] : x.id = r.id => x = r /\ d = e
OwnIds ==
  \A e \in Events : Live(e) => \A x, y \in index[e] : x.id = y.id => x = y

IInv ==
  Shape /\ OneInHand /\ Empty /\ OfFiles /\ Differ /\ RowIds /\ IndexIds /\ OwnIds

-----------------------------------------------------------------------------
LEMMA InitIInv == Init => IInv
BY DEF Init, IInv, Shape, OneInHand, Empty, OfFiles, Differ, RowIds, IndexIds, OwnIds, Live

\* With no file in hand the stores of an album are equal.
LEMMA StoresEqual ==
  ASSUME None \notin Files, IInv, NEW e \in Events, Live(e), hand[e] = None
  PROVE  index[e] = rows[e]
BY DEF IInv, OfFiles, Differ

\* A step of one album's life that moves no face and no file.
LEMMA LifeStep ==
  ASSUME IInv, NEW e \in Events, NEW l \in {"open", "ready"},
         life' = [life EXCEPT ![e] = l],
         \/ Live(e) /\ (hand[e] = None \/ l = "open")
         \/ life[e] = "none",
         UNCHANGED <<owner, rows, index, hand>>
  PROVE  IInv'
<1> DEFINE Was(d) == Live(d) \/ (rows[d] = {} /\ index[d] = {})
<1>1. \A d \in Events : Live(d)' => Was(d)
  BY DEF Live, IInv, Shape, Empty
<1>2. \A d \in Events : Live(d) => Live(d)'
  BY DEF Live, IInv, Shape
<1>3. Shape'
  BY DEF IInv, Shape
<1>4. OneInHand'
  BY DEF IInv, Shape, OneInHand, Live
<1>5. Empty'
  BY <1>2 DEF IInv, Shape, Empty, Live
<1>6. OfFiles'
  BY <1>1 DEF IInv, OfFiles
<1>7. Differ'
  BY <1>1 DEF IInv, Differ
<1>8. RowIds' /\ IndexIds' /\ OwnIds'
  BY <1>1 DEF IInv, RowIds, IndexIds, OwnIds
<1> QED BY <1>3, <1>4, <1>5, <1>6, <1>7, <1>8 DEF IInv

LEMMA NextIInv ==
  ASSUME None \notin Files, None \notin Events, IInv, [Next]_vars
  PROVE  IInv'
<1>1. CASE UNCHANGED vars
  BY <1>1 DEF vars, IInv, Shape, OneInHand, Empty, OfFiles, Differ, RowIds, IndexIds,
              OwnIds, Live
<1>2. ASSUME NEW e \in Events, Create(e) \/ Open(e) \/ Close(e) PROVE IInv'
  BY <1>2, LifeStep DEF Create, Open, Close, Live
<1>3. ASSUME NEW e \in Events, NEW F \in SUBSET Files, Adopt(e, F) PROVE IInv'
  <2>1. /\ \A f \in Files : owner[f] # None => owner'[f] # None
        /\ owner' \in [Files -> Events \cup {None}]
    BY <1>3 DEF Adopt, IInv, Shape
  <2>2. Shape' /\ OneInHand'
    BY <1>3, <2>1 DEF Adopt, HandsFree, IInv, Shape, OneInHand
  <2>3. OfFiles'
    BY <1>3, <2>1 DEF Adopt, IInv, OfFiles, Live
  <2>4. Empty' /\ Differ' /\ RowIds' /\ IndexIds' /\ OwnIds'
    BY <1>3 DEF Adopt, IInv, Empty, Differ, RowIds, IndexIds, OwnIds, Live
  <2> QED BY <2>2, <2>3, <2>4 DEF IInv
<1>4. ASSUME NEW e \in Events, NEW f \in Files, Take(e, f) PROVE IInv'
  <2>1. /\ \A d \in Events : index'[d] = IF d = e THEN {x \in index[e] : x.file # f}
                                                  ELSE index[d]
        /\ \A d \in Events : hand'[d] = IF d = e THEN f ELSE None
    BY <1>4 DEF Take, HandsFree, FacesOf, IInv, Shape
  <2>2. Shape'
    BY <1>4 DEF Take, IInv, Shape
  <2>3. OneInHand'
    BY <1>4, <2>1 DEF Take, OneInHand
  <2>4. Empty' /\ OfFiles'
    BY <1>4, <2>1 DEF Take, IInv, Empty, OfFiles, Live
  <2>5. Differ'
    <3>1. ASSUME NEW d \in Events, Live(d) PROVE index[d] = rows[d]
      BY <1>4, <3>1, StoresEqual DEF Take, HandsFree
    <3>2. UNCHANGED <<life, rows>> /\ hand'[e] = f
      BY <1>4, <2>1 DEF Take
    <3>3. ASSUME NEW d \in Events, Live(d)
          PROVE  /\ \A x \in index'[d] : x \in rows[d]
                 /\ \A x \in rows[d] : x \in index'[d] \/ x.file = hand'[d]
      BY <2>1, <3>1, <3>2, <3>3
    <3> QED BY <3>2, <3>3 DEF Differ, Live
  <2>6. RowIds' /\ IndexIds' /\ OwnIds'
    BY <1>4, <2>1 DEF Take, IInv, RowIds, IndexIds, OwnIds, Live
  <2> QED BY <2>2, <2>3, <2>4, <2>5, <2>6 DEF IInv
<1>5. ASSUME NEW e \in Events, NEW new, Put(e, new) PROVE IInv'
  <2>1. /\ \A d \in Events : index'[d] = IF d = e THEN index[e] \cup new ELSE index[d]
        /\ hand[e] \in Files /\ life[e] = "open"
        /\ \A x \in new : x.file = hand[e]
        /\ \A x \in index[e] : x.file # hand[e]
    BY <1>5 DEF Put, FacesOf, IInv, Shape
  <2>2. \A x \in index[e] : x \in rows[e]
    BY <2>1 DEF IInv, Differ, Live
  <2>3. \A d \in Events : \A x \in new, r \in rows[d] : x.id # r.id
    BY <1>5 DEF Put, Unused
  <2>4. Shape'
    BY <1>5 DEF Put, IInv, Shape
  <2>5. OneInHand'
    BY <1>5 DEF Put, IInv, OneInHand
  <2>6. Empty' /\ OfFiles'
    BY <1>5, <2>1 DEF Put, IInv, Empty, OfFiles, Live
  <2>7. Differ'
    BY <1>5, <2>1 DEF Put, IInv, Differ, Live
  <2>8. RowIds'
    BY <1>5 DEF Put, IInv, RowIds
  <2>9. IndexIds'
    BY <1>5, <2>1, <2>3 DEF Put, IInv, IndexIds, Live
  <2>10. OwnIds'
    BY <1>5, <2>1, <2>2, <2>3 DEF Put, OneFaceEach, IInv, OwnIds, Live
  <2> QED BY <2>4, <2>5, <2>6, <2>7, <2>8, <2>9, <2>10 DEF IInv
<1>6. ASSUME NEW e \in Events, Settle(e) PROVE IInv'
  <2>1. /\ \A d \in Events : rows'[d] = IF d = e THEN index[e] ELSE rows[d]
        /\ \A d \in Events : hand'[d] = None
        /\ Live(e) /\ owner[hand[e]] = e
    BY <1>6 DEF Settle, IInv, Shape, OneInHand, Live
  <2>2. \A d \in Events : d # e /\ Live(d) => index[d] = rows[d]
    BY <1>6, StoresEqual DEF Settle, IInv, OneInHand
  <2>3. \A d \in Events : Live(d)' <=> Live(d)
    BY <1>6 DEF Settle, Live
  <2>4. Shape' /\ OneInHand'
    BY <1>6, <2>1 DEF Settle, IInv, Shape, OneInHand
  <2>5. Empty'
    BY <1>6, <2>1 DEF Settle, IInv, Empty, Live
  <2>6. OfFiles'
    <3>1. \A x \in index[e] : x.file \in Files /\ owner[x.file] # None
      BY <2>1 DEF IInv, OfFiles, Differ
    <3> QED BY <1>6, <2>1, <2>3, <3>1 DEF Settle, IInv, OfFiles
  <2>7. Differ'
    BY <1>6, <2>1, <2>2, <2>3 DEF Settle, Differ
  <2>8. RowIds'
    BY <2>1 DEF IInv, RowIds, IndexIds, OwnIds
  <2>9. IndexIds'
    <3>1. ASSUME NEW d \in Events, NEW c \in Events, Live(c),
                 NEW x \in index[c], NEW r \in rows'[d], x.id = r.id
          PROVE  x = r /\ d = c
      <4>1. CASE d # e
        BY <2>1, <3>1, <4>1 DEF IInv, IndexIds
      <4>2. CASE d = e /\ c = e
        BY <2>1, <3>1, <4>2 DEF IInv, OwnIds
      <4>3. CASE d = e /\ c # e
        BY <2>1, <2>2, <3>1, <4>3 DEF IInv, IndexIds
      <4> QED BY <4>1, <4>2, <4>3
    <3> QED BY <1>6, <2>3, <3>1 DEF Settle, IndexIds
  <2>10. OwnIds'
    BY <1>6, <2>3 DEF Settle, IInv, OwnIds
  <2> QED BY <2>4, <2>5, <2>6, <2>7, <2>8, <2>9, <2>10 DEF IInv
<1>7. ASSUME NEW e \in Events, Delete(e) PROVE IInv'
  <2>1. /\ \A d \in Events : rows'[d] = IF d = e THEN {} ELSE rows[d]
        /\ \A d \in Events : hand'[d] = IF d = e THEN None ELSE hand[d]
        /\ \A d \in Events : life'[d] = IF d = e THEN "deleted" ELSE life[d]
        /\ \A f \in Files : owner'[f] = IF owner[f] = e THEN None ELSE owner[f]
        /\ index' = index
    BY <1>7 DEF Delete, IInv, Shape
  <2>2. \A d \in Events : Live(d)' <=> Live(d) /\ d # e
    BY <2>1 DEF Live
  <2>3. Shape'
    BY <1>7 DEF Delete, IInv, Shape
  <2>4. OneInHand'
    BY <2>1 DEF IInv, Shape, OneInHand
  <2>5. Empty'
    BY <2>1, <2>2 DEF IInv, Empty
  <2>6. OfFiles'
    <3>1. \A d \in Events \ {e} : \A r \in rows[d] : r.file \in Files => owner[r.file] # e
      BY <1>7 DEF Delete, Referenced, FacesOf
    <3> QED BY <2>1, <2>2, <3>1 DEF IInv, OfFiles
  <2>7. Differ'
    BY <2>1, <2>2 DEF IInv, Differ
  <2>8. RowIds' /\ IndexIds' /\ OwnIds'
    BY <2>1, <2>2 DEF IInv, RowIds, IndexIds, OwnIds
  <2> QED BY <2>3, <2>4, <2>5, <2>6, <2>7, <2>8 DEF IInv
<1>8. ASSUME NEW e \in Events, NEW S, Scraps(e, S) PROVE IInv'
  <2>1. /\ \A d \in Events : d # e => index'[d] = index[d]
        /\ ~Live(e) /\ life[e] # "none"
        /\ \A d \in Events : Live(d)' <=> Live(d)
    BY <1>8 DEF Scraps, IInv, Shape, Live
  <2>2. Shape' /\ OneInHand'
    BY <1>8 DEF Scraps, IInv, Shape, OneInHand
  <2>3. Empty' /\ OfFiles'
    BY <1>8, <2>1 DEF Scraps, IInv, Empty, OfFiles
  <2>4. Differ' /\ RowIds' /\ IndexIds' /\ OwnIds'
    BY <1>8, <2>1 DEF Scraps, IInv, Differ, RowIds, IndexIds, OwnIds
  <2> QED BY <2>2, <2>3, <2>4 DEF IInv
<1> QED
  BY <1>1, <1>2, <1>3, <1>4, <1>5, <1>6, <1>7, <1>8 DEF Next

-----------------------------------------------------------------------------
LEMMA Inductive ==
  ASSUME None \notin Files, None \notin Events
  PROVE  Spec => []IInv
BY InitIInv, NextIInv, PTL DEF Spec

\* A search that looks into a ready album finds in the index what the rows hold;
\* in an open one the two differ by the file that the task has in hand.
THEOREM OneFileApart ==
  ASSUME None \notin Files, None \notin Events
  PROVE  Spec => []StoresDifferInHand
<1>1. IInv => StoresDifferInHand
  BY DEF IInv, OneInHand, Differ, StoresDifferInHand
<1> QED BY <1>1, Inductive, PTL

\* The id that a vector search returns leads to one row, that of the same face.
THEOREM IdsAreFaithful ==
  ASSUME None \notin Files, None \notin Events
  PROVE  Spec => []IdsStandForFaces
<1>1. IInv => IdsStandForFaces
  BY DEF IInv, RowIds, IndexIds, IdsStandForFaces
<1> QED BY <1>1, Inductive, PTL

\* A row found leads to a file that an album has, through every deletion.
THEOREM RowsStayOwned ==
  ASSUME None \notin Files, None \notin Events
  PROVE  Spec => []RowsAreOwned
<1>1. IInv => RowsAreOwned
  BY DEF IInv, OneInHand, Empty, OfFiles, RowsAreOwned
<1> QED BY <1>1, Inductive, PTL

=============================================================================
