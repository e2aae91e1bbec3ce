---------------------------- MODULE MCRetrieval -----------------------------
(* Values of the constants of Retrieval for TLC. *)
EXTENDS Retrieval, TLC

CONSTANTS e1, e2, f1, f2, ann, bob

\* Two events that share f2: Ann is in both photos, Bob in one.
MCFolder == e1 :> {f1, f2} @@ e2 :> {f2}
MCPhotos == f1 :> {<<ann>>} @@ f2 :> {<<ann, bob>>}

Person(p) == [who |-> p, conf |-> 90, area |-> 100, sharp |-> 60, light |-> 120]
Frame(level, faces) ==
  [readable |-> TRUE, shape |-> "portrait", level |-> level, faces |-> faces]
Broken == [Frame(0, {}) EXCEPT !.readable = FALSE]

Behind(p) == [Person(p) EXCEPT !.area = 40]
Blurred(p) == [Person(p) EXCEPT !.sharp = 40]
Doubtful(p) == [Person(p) EXCEPT !.conf = 79]

\* In half levels.  In the first Bob moves by 5.5 levels, with Ann behind him and one
\* blurred frame; the others are refused, each by another rule or just at its limit.
MCCaptures ==
  LET scan(p, levels) == [i \in 1..Len(levels) |-> Frame(levels[i], {Person(p)})]
  IN {<<Frame(200, {Person(bob), Behind(ann)}), Frame(211, {Blurred(bob)}),
        Frame(211, {})>>,
      scan(ann, <<200, 210, 220, 230, 240, 250, 260>>),
      scan(ann, <<200, 200, 200>>),
      scan(ann, <<200, 280>>),
      [i \in 1..3 |-> Frame(80 * i, {Blurred(ann), Behind(bob)})],
      [i \in 1..3 |-> Frame(80 * i, {Doubtful(ann)})],
      [i \in 1..3 |-> [Frame(80 * i, {Person(ann)}) EXCEPT !.shape = i]],
      <<Frame(200, {Person(ann)}), Broken, Broken>>,
      <<Broken, Broken, Broken>>}

\* Requests and users are interchangeable: the faces are those of People.
MCSymmetry == Permutations(Requests) \cup Permutations(Users)
=============================================================================
