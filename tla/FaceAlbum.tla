----------------------------- MODULE FaceAlbum ------------------------------
(***************************************************************************)
(* What the indexing of event folders promises to whoever searches: each   *)
(* event is an album with two stores, the rows of face_embeddings and the  *)
(* vectors of its index file, and the two only ever differ by the faces of *)
(* the one file in hand.  While the album is ready they are equal.         *)
(*                                                                         *)
(* Indexing implements this with one worker and no crash (its property     *)
(* ImplementsAlbum); Retrieval searches such albums.                       *)
(***************************************************************************)
EXTENDS FiniteSets

CONSTANTS Events, Files, None

VARIABLES
  life,      \* of an event: none, open (pending, indexing, error), ready, deleted
  owner,     \* the event whose drive_files row a file has, or None
  rows,      \* face_embeddings, by event: records with at least id and file
  index,     \* the vectors of the index file, by event
  hand       \* the file whose faces the task of an event is replacing, or None

vars == <<life, owner, rows, index, hand>>

Init ==
  /\ life = [e \in Events |-> "none"]
  /\ owner = [f \in Files |-> None]
  /\ rows = [e \in Events |-> {}]
  /\ index = [e \in Events |-> {}]
  /\ hand = [e \in Events |-> None]

Live(e) == life[e] \in {"open", "ready"}
HandsFree == \A e \in Events : hand[e] = None
FacesOf(S, f) == {x \in S : x.file = f}

-----------------------------------------------------------------------------
\* create_event.
Create(e) ==
  /\ life[e] = "none"
  /\ life' = [life EXCEPT ![e] = "open"]
  /\ UNCHANGED <<owner, rows, index, hand>>

\* A task starts on an album that could be searched.
Open(e) ==
  /\ life[e] = "ready"
  /\ life' = [life EXCEPT ![e] = "open"]
  /\ UNCHANGED <<owner, rows, index, hand>>

\* Pass 1 gives the listed files to the event.
Adopt(e, F) ==
  /\ life[e] = "open"
  /\ HandsFree
  /\ owner' = [f \in Files |-> IF f \in F THEN e ELSE owner[f]]
  /\ UNCHANGED <<life, rows, index, hand>>

\* The old faces of a file leave the index.
Take(e, f) ==
  /\ life[e] = "open"
  /\ HandsFree
  /\ owner[f] = e
  /\ hand' = [hand EXCEPT ![e] = f]
  /\ index' = [index EXCEPT ![e] = @ \ FacesOf(@, f)]
  /\ UNCHANGED <<life, owner, rows>>

\* Its new faces enter the index under ids that no row has.
Unused(S) == \A d \in Events : \A x \in S, r \in rows[d] : x.id # r.id
OneFaceEach(S) == \A x, y \in S : x.id = y.id => x = y

Put(e, new) ==
  /\ life[e] = "open"
  /\ hand[e] # None
  /\ FacesOf(index[e], hand[e]) = {}
  /\ \A x \in new : x.file = hand[e]
  /\ Unused(new) /\ OneFaceEach(new)
  /\ index' = [index EXCEPT ![e] = @ \cup new]
  /\ UNCHANGED <<life, owner, rows, hand>>

\* The rows follow the index.
Settle(e) ==
  /\ life[e] = "open"
  /\ hand[e] # None
  /\ rows' = [rows EXCEPT ![e] = index[e]]
  /\ hand' = [hand EXCEPT ![e] = None]
  /\ UNCHANGED <<life, owner, index>>

\* The task ends: the album can be searched.
Close(e) ==
  /\ life[e] = "open"
  /\ hand[e] = None
  /\ life' = [life EXCEPT ![e] = "ready"]
  /\ UNCHANGED <<owner, rows, index, hand>>

\* delete_event, unless another album has rows of a file this one owns.
Referenced(e) ==
  \E f \in Files : /\ owner[f] = e
                   /\ \E d \in Events \ {e} : FacesOf(rows[d], f) # {}
Delete(e) ==
  /\ Live(e)
  /\ ~Referenced(e)
  /\ life' = [life EXCEPT ![e] = "deleted"]
  /\ owner' = [f \in Files |-> IF owner[f] = e THEN None ELSE owner[f]]
  /\ rows' = [rows EXCEPT ![e] = {}]
  /\ hand' = [hand EXCEPT ![e] = None]
  /\ UNCHANGED index

\* Of the index file of a deleted event nothing is promised.
Scraps(e, S) ==
  /\ life[e] = "deleted"
  /\ index' = [index EXCEPT ![e] = S]
  /\ UNCHANGED <<life, owner, rows, hand>>

Next ==
  \E e \in Events :
    \/ Create(e)
    \/ Open(e)
    \/ \E F \in SUBSET Files : Adopt(e, F)
    \/ \E f \in Files : Take(e, f)
    \/ Put(e, index'[e] \ index[e])
    \/ Settle(e)
    \/ Close(e)
    \/ Delete(e)
    \/ Scraps(e, index'[e])

Spec == Init /\ [][Next]_vars

-----------------------------------------------------------------------------
(* What an album guarantees *)

\* The stores of an album that exists differ by the file in hand only, and a
\* ready album has no file in hand: what a search finds in the index is what it
\* finds in the rows.
StoresDifferInHand ==
  \A e \in Events :
    /\ Live(e) => \A x \in (index[e] \ rows[e]) \cup (rows[e] \ index[e]) :
                    x.file = hand[e]
    /\ life[e] # "open" => hand[e] = None

\* An id stands for one face in the whole table, and in the index of an album
\* for no other face than in its rows.
IdsStandForFaces ==
  /\ \A d, e \in Events : \A r \in rows[d], s \in rows[e] :
       r.id = s.id => r = s /\ d = e
  /\ \A e \in Events : Live(e) => \A x \in index[e], r \in rows[e] :
       x.id = r.id => x = r

\* Every row is of an album that exists and of a file that has a drive_files row
\* of such an album.
RowsAreOwned ==
  \A e \in Events :
    /\ ~Live(e) => rows[e] = {}
    /\ \A r \in rows[e] : owner[r.file] # None
    /\ hand[e] # None => owner[hand[e]] = e

=============================================================================
