------------------------- MODULE OutputSchemasProofs -------------------------
(***************************************************************************)
(* Proofs about OutputSchemas: that a merge of two schemas is the schema   *)
(* of all that was seen by either, that what is inferred of a value is the *)
(* schema of what is seen in it, hence that the schemas of the file and of *)
(* the run under way do not depend on the order of the captures, and that  *)
(* they accept the results they stand for.                                 *)
(***************************************************************************)
EXTENDS OutputSchemas, SequenceLemmas

-----------------------------------------------------------------------------
(* Paths and places.                                                       *)

LEMMA PrefixFacts ==
  ASSUME NEW path \in Seq(Step), NEW n \in 0..Len(path)
  PROVE  /\ SubSeq(path, 1, n) \in Seq(Step)
         /\ Len(SubSeq(path, 1, n)) = n
         /\ \A i \in 1..n : SubSeq(path, 1, n)[i] = path[i]
<1>1. \A i \in 1..n : path[i] \in Step
  OBVIOUS
<1>2. n \in Nat /\ n \in Int /\ 1 \in Int
  OBVIOUS
<1> HIDE DEF Step
<1>3. /\ SubSeq(path, 1, n) \in Seq(Step)
      /\ Len(SubSeq(path, 1, n)) = IF 1 <= n THEN n - 1 + 1 ELSE 0
      /\ \A i \in 1..(n - 1 + 1) : SubSeq(path, 1, n)[i] = path[1 + i - 1]
  BY <1>1, <1>2, SubSeqProperties
<1>4. n - 1 + 1 = n /\ \A i \in 1..n : 1 + i - 1 = i
  BY <1>2
<1> QED BY <1>2, <1>3, <1>4

\* A place is in the objects from which a key leads on to it.
LEMMA EnclosingMeans ==
  ASSUME NEW place \in Seq(Step), NEW r
  PROVE  r \in Enclosing(place) <=>
           /\ r \in Seq(Step) /\ Len(r) < Len(place)
           /\ \A i \in 1..Len(r) : r[i] = place[i]
           /\ IsKey(place[Len(r) + 1])
<1>1. DOMAIN place = 1..Len(place) /\ Len(place) \in Nat
  OBVIOUS
<1>2. ASSUME r \in Enclosing(place)
      PROVE  /\ r \in Seq(Step) /\ Len(r) < Len(place)
             /\ \A i \in 1..Len(r) : r[i] = place[i]
             /\ IsKey(place[Len(r) + 1])
  <2>1. PICK n \in 1..Len(place) : IsKey(place[n]) /\ r = SubSeq(place, 1, n - 1)
    BY <1>1, <1>2 DEF Enclosing
  <2>2. n - 1 \in 0..Len(place) /\ n - 1 < Len(place) /\ (n - 1) + 1 = n
    BY <1>1
  <2> QED BY <2>1, <2>2, PrefixFacts
<1>3. ASSUME r \in Seq(Step), Len(r) < Len(place), \A i \in 1..Len(r) : r[i] = place[i],
             IsKey(place[Len(r) + 1])
      PROVE  r \in Enclosing(place)
  <2>1. /\ Len(r) \in 0..Len(place) /\ Len(r) + 1 \in 1..Len(place)
        /\ (Len(r) + 1) - 1 = Len(r)
    BY <1>1, <1>3
  <2> DEFINE p == SubSeq(place, 1, Len(r))
  <2>2. p \in Seq(Step) /\ Len(p) = Len(r) /\ \A i \in 1..Len(r) : p[i] = place[i]
    BY <2>1, PrefixFacts
  <2>3. r = p
    <3> HIDE DEF p
    <3> QED BY <1>3, <2>2, SeqEqual
  <2> QED BY <1>1, <1>3, <2>1, <2>3 DEF Enclosing
<1> QED BY <1>2, <1>3

LEMMA EnclosingAbove ==
  ASSUME NEW place \in Seq(Step), NEW r \in Enclosing(place)
  PROVE  r \in Seq(Step) /\ Len(r) < Len(place) /\ Enclosing(r) \subseteq Enclosing(place)
<1>1. /\ r \in Seq(Step) /\ Len(r) < Len(place) /\ Len(r) \in Nat /\ Len(place) \in Nat
      /\ \A i \in 1..Len(r) : r[i] = place[i]
  BY EnclosingMeans
<1>2. ASSUME NEW q \in Enclosing(r) PROVE q \in Enclosing(place)
  <2>1. /\ q \in Seq(Step) /\ Len(q) < Len(r) /\ Len(q) \in Nat
        /\ \A i \in 1..Len(q) : q[i] = r[i]
        /\ IsKey(r[Len(q) + 1])
    BY <1>1, EnclosingMeans
  <2>2. /\ Len(q) < Len(place) /\ Len(q) + 1 \in 1..Len(r)
        /\ \A i \in 1..Len(q) : i \in 1..Len(r)
    BY <1>1, <2>1
  <2>3. /\ \A i \in 1..Len(q) : q[i] = place[i]
        /\ IsKey(place[Len(q) + 1])
    BY <1>1, <2>1, <2>2
  <2> QED BY <2>1, <2>2, <2>3, EnclosingMeans
<1> QED BY <1>1, <1>2

\* Over a property of an object, that is what encloses the object, and itself.
LEMMA EnclosingProperty ==
  ASSUME NEW place \in Seq(Step), place # <<>>, IsKey(Last(place))
  PROVE  /\ Front(place) \in Enclosing(place)
         /\ \A r \in Enclosing(place) : r = Front(place) \/ r \in Enclosing(Front(place))
<1> DEFINE f == Front(place)
           n == Len(place)
<1>1. n \in Nat /\ n >= 1
  OBVIOUS
<1>2. n - 1 \in 0..n /\ n - 1 \in Nat /\ (n - 1) + 1 = n
  BY <1>1
<1>3. f \in Seq(Step) /\ Len(f) = n - 1 /\ \A i \in 1..(n - 1) : f[i] = place[i]
  BY <1>2, PrefixFacts DEF Front
<1>4. IsKey(place[n])
  BY DEF Last
<1> HIDE DEF f
<1>5. f \in Enclosing(place)
  BY <1>1, <1>2, <1>3, <1>4, EnclosingMeans
<1>6. ASSUME NEW r \in Enclosing(place) PROVE r = f \/ r \in Enclosing(f)
  <2>1. /\ r \in Seq(Step) /\ Len(r) < n /\ Len(r) \in Nat
        /\ \A i \in 1..Len(r) : r[i] = place[i]
        /\ IsKey(place[Len(r) + 1])
    BY EnclosingMeans
  <2> HIDE DEF n
  <2>2. CASE Len(r) = n - 1
    BY <1>3, <2>1, <2>2, SeqEqual
  <2>3. CASE Len(r) # n - 1
    <3>1. Len(r) < n - 1 /\ Len(r) + 1 \in 1..(n - 1) /\ \A i \in 1..Len(r) : i \in 1..(n - 1)
      BY <1>1, <2>1, <2>3
    <3>2. (\A i \in 1..Len(r) : r[i] = f[i]) /\ IsKey(f[Len(r) + 1])
      BY <1>3, <2>1, <3>1
    <3> QED BY <1>3, <2>1, <3>1, <3>2, EnclosingMeans
  <2> QED BY <2>2, <2>3
<1> QED BY <1>5, <1>6 DEF f
-----------------------------------------------------------------------------
(* Merging.                                                                *)

\* What the sightings of values at one place, "depth" steps down, are like: a
\* place is seen with the objects it lies in, and a record with a property.
Sound(seen, depth) ==
  /\ \A s \in seen : s.at \in Seq(Step) /\ Len(s.at) >= depth
  /\ \A s \in seen : s.closed => s.type = "object"
  /\ \A s \in seen : \A r \in Enclosing(s.at) :
       Len(r) >= depth => \E t \in seen : t.at = r /\ t.type = "object"
  /\ \A s \in seen : s.type = "object" /\ ~s.closed =>
       \E t \in seen : t.at # <<>> /\ Front(t.at) = s.at /\ IsKey(Last(t.at))

LEMMA ShapeFacts ==
  ASSUME NEW seen, NEW place
  PROVE  /\ place \in DOMAIN Shape(seen) <=>
              Open(seen, place) /\ \E s \in seen : s.at = place
         /\ place \in DOMAIN Shape(seen) =>
              Shape(seen)[place] = {s.type : s \in {s \in seen : s.at = place}} \cup NullAt(place)
BY DEF Shape

\* A record that was seen open has its properties in the schema.
LEMMA RecordHasProperties ==
  ASSUME NEW seen, NEW depth \in Nat, Sound(seen, depth),
         NEW place \in DOMAIN Shape(seen),
         NEW s \in seen, s.at = place, s.type = "object",
         \A t \in seen : t.at = place => ~t.closed
  PROVE  PropertiesAt(Shape(seen), place) # {}
<1>1. PICK t \in seen : t.at # <<>> /\ Front(t.at) = place /\ IsKey(Last(t.at))
  BY DEF Sound
<1>2. t.at \in Seq(Step)
  BY DEF Sound
<1>3. Open(seen, place)
  BY ShapeFacts
<1>4. Open(seen, t.at)
  <2>1. ASSUME NEW u \in seen, u.closed, u.at \in Enclosing(t.at) PROVE FALSE
    <3>1. u.at = place \/ u.at \in Enclosing(place)
      BY <1>1, <1>2, <2>1, EnclosingProperty
    <3> QED BY <1>3, <2>1, <3>1 DEF Open
  <2> QED BY <2>1 DEF Open
<1>5. t.at \in DOMAIN Shape(seen)
  BY <1>4, ShapeFacts
<1> QED BY <1>1, <1>5 DEF PropertiesAt

\* An object that was seen closed has none.
LEMMA ClosedHasNoProperties ==
  ASSUME NEW seen, NEW depth \in Nat, Sound(seen, depth),
         NEW s \in seen, s.closed
  PROVE  PropertiesAt(Shape(seen), s.at) = {}
<1>1. SUFFICES ASSUME NEW p \in PropertiesAt(Shape(seen), s.at) PROVE FALSE
  OBVIOUS
<1>2. p \in DOMAIN Shape(seen) /\ p # <<>> /\ Front(p) = s.at /\ IsKey(Last(p))
  BY <1>1 DEF PropertiesAt
<1>3. Open(seen, p) /\ \E t \in seen : t.at = p
  BY <1>2, ShapeFacts
<1>4. p \in Seq(Step)
  BY <1>3 DEF Sound
<1>5. s.at \in Enclosing(p)
  BY <1>2, <1>4, EnclosingProperty
<1> QED BY <1>3, <1>5 DEF Open

\* A place of one schema is kept in the merge when it lies in no object that
\* either has seen closed.
LEMMA MergeKeeps ==
  ASSUME NEW S, NEW T, NEW depth \in Nat, Sound(S, depth), Sound(T, depth),
         NEW place, Open(S, place), Open(T, place),
         NEW object \in Enclosing(place), place \in Seq(Step),
         object \in DOMAIN Shape(S), object \in DOMAIN Shape(T),
         \E s \in S : s.at = object /\ s.type = "object"
  PROVE  KeepsProperties(Shape(S), Shape(T), object)
<1>1. (\A s \in S : s.at = object => ~s.closed) /\ (\A t \in T : t.at = object => ~t.closed)
  BY DEF Open
<1>2. PropertiesAt(Shape(S), object) # {}
  BY <1>1, RecordHasProperties
<1>3. CASE \E t \in T : t.at = object /\ t.type = "object"
  <2>1. PropertiesAt(Shape(T), object) # {}
    BY <1>1, <1>3, RecordHasProperties
  <2> QED BY <1>2, <2>1 DEF KeepsProperties
<1>4. CASE ~\E t \in T : t.at = object /\ t.type = "object"
  <2>1. "object" \in Shape(S)[object]
    BY ShapeFacts
  <2>2. Shape(T)[object] = {t.type : t \in {t \in T : t.at = object}} \cup NullAt(object)
    BY ShapeFacts
  <2>3. "object" \notin NullAt(object)
    BY DEF NullAt
  <2>4. "object" \notin {t.type : t \in {t \in T : t.at = object}}
    BY <1>4
  <2>5. "object" \notin Shape(T)[object]
    BY <2>2, <2>3, <2>4
  <2> QED BY <2>1, <2>5 DEF KeepsProperties
<1> QED BY <1>3, <1>4

\* And only then: take the outermost object of T that is closed.
LEMMA MergeDrops ==
  ASSUME NEW S, NEW T, NEW depth \in Nat, Sound(S, depth), Sound(T, depth),
         NEW place \in DOMAIN Shape(S),
         \A object \in Enclosing(place) \cap (DOMAIN Shape(S) \cap DOMAIN Shape(T)) :
           KeepsProperties(Shape(S), Shape(T), object)
  PROVE  Open(T, place)
<1> DEFINE Closed == {t \in T : t.closed /\ t.at \in Enclosing(place)}
           Lengths == {Len(t.at) : t \in Closed}
<1>1. SUFFICES ASSUME Closed # {} PROVE FALSE
  BY DEF Open
<1>2. /\ Open(S, place) /\ place \in Seq(Step)
      /\ \E s \in S : s.at = place
  BY ShapeFacts DEF Sound
<1>3. \A t \in T : t.at \in Seq(Step) /\ Len(t.at) \in Nat /\ Len(t.at) >= depth
  BY DEF Sound
<1>4. PICK t \in Closed : \A u \in Closed : Len(t.at) <= Len(u.at)
  <2>1. Lengths \subseteq Nat /\ Lengths # {}
    BY <1>1, <1>3
  <2>2. PICK n \in Lengths : \A m \in Lengths : n <= m
    <3> HIDE DEF Lengths
    <3> QED BY <2>1, LeastNatural
  <2> QED BY <2>2
<1> DEFINE object == t.at
<1>5. /\ object \in Enclosing(place) /\ object \in Seq(Step) /\ Len(object) >= depth
      /\ Enclosing(object) \subseteq Enclosing(place)
      /\ t \in T /\ t.closed /\ t.type = "object"
  <2>1. t \in T /\ t.closed /\ object \in Enclosing(place)
    BY <1>4
  <2>2. object \in Seq(Step) /\ Len(object) >= depth
    BY <1>3, <2>1
  <2>3. t.type = "object"
    BY <2>1 DEF Sound
  <2> HIDE DEF object
  <2>4. Enclosing(object) \subseteq Enclosing(place)
    BY <1>2, <2>1, EnclosingAbove
  <2> QED BY <2>1, <2>2, <2>3, <2>4
<1>6. object \in DOMAIN Shape(S) /\ "object" \in Shape(S)[object]
  <2>1. PICK s \in S : s.at = object /\ s.type = "object"
    <3>1. PICK q \in S : q.at = place
      BY <1>2
    <3>2. \A r \in Enclosing(q.at) : Len(r) >= depth => \E s \in S : s.at = r /\ s.type = "object"
      BY DEF Sound
    <3> HIDE DEF object
    <3> QED BY <1>5, <3>1, <3>2
  <2>2. Open(S, object)
    BY <1>2, <1>5 DEF Open
  <2>3. object \in DOMAIN Shape(S)
    BY <2>1, <2>2, ShapeFacts
  <2> HIDE DEF object
  <2> QED BY <2>1, <2>3, ShapeFacts
<1>7. object \in DOMAIN Shape(T) /\ "object" \in Shape(T)[object]
  <2>1. Open(T, object)
    <3>1. ASSUME NEW u \in T, u.closed, u.at \in Enclosing(object) PROVE FALSE
      <4>1. u \in Closed /\ Len(u.at) < Len(object)
        BY <1>5, <3>1, EnclosingAbove
      <4> QED BY <1>3, <1>4, <4>1
    <3> QED BY <3>1 DEF Open
  <2>2. object \in DOMAIN Shape(T)
    BY <1>5, <2>1, ShapeFacts
  <2> QED BY <1>5, <2>2, ShapeFacts
<1>8. PropertiesAt(Shape(T), object) = {}
  BY <1>5, ClosedHasNoProperties
<1> HIDE DEF object
<1> QED BY <1>5, <1>6, <1>7, <1>8 DEF KeepsProperties

LEMMA KeepsIsSymmetric ==
  ASSUME NEW a, NEW b, NEW place
  PROVE  KeepsProperties(a, b, place) <=> KeepsProperties(b, a, place)
BY DEF KeepsProperties

\* What a schema lacks of an open place, it has not seen.
LEMMA ShapeOrNothing ==
  ASSUME NEW seen, NEW place, Open(seen, place), {s \in seen : s.at = place} # {}
  PROVE  Get(Shape(seen), place, {}) =
           {s.type : s \in {s \in seen : s.at = place}} \cup NullAt(place)
BY ShapeFacts DEF Get

LEMMA NothingSeen ==
  ASSUME NEW seen, NEW place, {s \in seen : s.at = place} = {}
  PROVE  Get(Shape(seen), place, {}) = {}
BY ShapeFacts DEF Get

\* The merge is the schema of what either has seen.
LEMMA MergeOfShapes ==
  ASSUME NEW S, NEW T, NEW depth \in Nat, Sound(S, depth), Sound(T, depth)
  PROVE  MergeSchemas(Shape(S), Shape(T)) = Shape(S \cup T)
<1> DEFINE a == Shape(S)
           b == Shape(T)
           both == DOMAIN a \cap DOMAIN b
           kept == {p \in DOMAIN a \cup DOMAIN b :
                      \A object \in Enclosing(p) \cap both : KeepsProperties(a, b, object)}
           At(seen, place) == {s \in seen : s.at = place}
           Typed(seen, place) == {s.type : s \in At(seen, place)}
<1>1. \A place : Open(S \cup T, place) <=> Open(S, place) /\ Open(T, place)
  BY DEF Open
<1>2. ASSUME NEW place \in kept PROVE place \in DOMAIN Shape(S \cup T)
  <2>1. CASE place \in DOMAIN a
    <3>1. Open(T, place)
      BY <1>2, <2>1, MergeDrops
    <3>2. Open(S, place) /\ \E s \in S : s.at = place
      BY <2>1, ShapeFacts
    <3> QED BY <1>1, <3>1, <3>2, ShapeFacts
  <2>2. CASE place \in DOMAIN b
    <3>1. Open(S, place)
      BY <1>2, <2>2, MergeDrops, KeepsIsSymmetric
    <3>2. Open(T, place) /\ \E t \in T : t.at = place
      BY <2>2, ShapeFacts
    <3> QED BY <1>1, <3>1, <3>2, ShapeFacts
  <2> QED BY <1>2, <2>1, <2>2
<1>3. ASSUME NEW place \in DOMAIN Shape(S \cup T) PROVE place \in kept
  <2>1. /\ Open(S, place) /\ Open(T, place)
        /\ \E s \in S \cup T : s.at = place
    BY <1>1, ShapeFacts
  <2>2. place \in Seq(Step)
    BY <2>1 DEF Sound
  <2>3. place \in DOMAIN a \cup DOMAIN b
    BY <2>1, ShapeFacts
  <2>4. ASSUME NEW object \in Enclosing(place), object \in both
        PROVE  KeepsProperties(a, b, object)
    <3>1. PICK s \in S \cup T : s.at = place
      BY <2>1
    <3>2. PICK u \in S : u.at = object
      BY <2>4, ShapeFacts
    <3>3. Len(object) >= depth
      BY <3>2 DEF Sound
    <3>4. CASE s \in S
      <4>1. \E t \in S : t.at = object /\ t.type = "object"
        BY <2>4, <3>1, <3>3, <3>4 DEF Sound
      <4> QED BY <2>1, <2>2, <2>4, <4>1, MergeKeeps
    <3>5. CASE s \in T
      <4>1. \E t \in T : t.at = object /\ t.type = "object"
        BY <2>4, <3>1, <3>3, <3>5 DEF Sound
      <4>2. KeepsProperties(b, a, object)
        BY <2>1, <2>2, <2>4, <4>1, MergeKeeps
      <4> QED BY <4>2, KeepsIsSymmetric
    <3> QED BY <3>4, <3>5
  <2> QED BY <2>3, <2>4
<1>4. ASSUME NEW place \in DOMAIN Shape(S \cup T)
      PROVE  Get(a, place, {}) \cup Get(b, place, {}) = Shape(S \cup T)[place]
  <2>1. Open(S, place) /\ Open(T, place) /\ \E s \in S \cup T : s.at = place
    BY <1>1, ShapeFacts
  <2>2. Shape(S \cup T)[place] = Typed(S \cup T, place) \cup NullAt(place)
    BY ShapeFacts
  <2>3. Typed(S \cup T, place) = Typed(S, place) \cup Typed(T, place)
    OBVIOUS
  <2>4. Get(a, place, {}) = IF At(S, place) = {} THEN {} ELSE Typed(S, place) \cup NullAt(place)
    BY <2>1, ShapeOrNothing, NothingSeen
  <2>5. Get(b, place, {}) = IF At(T, place) = {} THEN {} ELSE Typed(T, place) \cup NullAt(place)
    BY <2>1, ShapeOrNothing, NothingSeen
  <2>6. /\ At(S, place) = {} => Typed(S, place) = {}
        /\ At(T, place) = {} => Typed(T, place) = {}
        /\ ~(At(S, place) = {} /\ At(T, place) = {})
    BY <2>1
  <2> HIDE DEF Typed, At, a, b
  <2> QED BY <2>2, <2>3, <2>4, <2>5, <2>6
<1>5. MergeSchemas(a, b) = [place \in kept |-> Get(a, place, {}) \cup Get(b, place, {})]
  BY DEF MergeSchemas
<1>6. kept = DOMAIN Shape(S \cup T)
  <2> HIDE DEF kept
  <2> QED BY <1>2, <1>3
<1>7. Shape(S \cup T) = [place \in DOMAIN Shape(S \cup T) |-> Shape(S \cup T)[place]]
  BY DEF Shape
<1> HIDE DEF kept, a, b
<1>8. [place \in kept |-> Get(a, place, {}) \cup Get(b, place, {})]
      = [place \in DOMAIN Shape(S \cup T) |-> Shape(S \cup T)[place]]
  BY <1>4, <1>6
<1> QED BY <1>5, <1>7, <1>8 DEF a, b

LEMMA SoundUnion ==
  ASSUME NEW S, NEW T, NEW depth \in Nat, Sound(S, depth), Sound(T, depth)
  PROVE  Sound(S \cup T, depth)
BY DEF Sound

LEMMA NothingIsSound == \A depth : Sound({}, depth) /\ Shape({}) = EmptyDict
<1>1. Shape({}) = EmptyDict
  BY DEF Shape, EmptyDict
<1> QED BY <1>1 DEF Sound

LEMMA SoundUnions ==
  ASSUME NEW sets, NEW I, NEW depth \in Nat, \A i \in I : Sound(sets[i], depth)
  PROVE  Sound(UNION {sets[i] : i \in I}, depth)
<1> DEFINE U == UNION {sets[i] : i \in I}
<1>1. \A s \in U : \E i \in I : s \in sets[i]
  OBVIOUS
<1>2. \A i \in I : sets[i] \subseteq U
  OBVIOUS
<1> HIDE DEF U
<1>3. \A s \in U : s.at \in Seq(Step) /\ Len(s.at) >= depth
  BY <1>1 DEF Sound
<1>4. \A s \in U : s.closed => s.type = "object"
  BY <1>1 DEF Sound
<1>5. ASSUME NEW s \in U, NEW r \in Enclosing(s.at), Len(r) >= depth
      PROVE  \E t \in U : t.at = r /\ t.type = "object"
  <2>1. PICK i \in I : s \in sets[i]
    BY <1>1
  <2>2. \E t \in sets[i] : t.at = r /\ t.type = "object"
    BY <1>5, <2>1 DEF Sound
  <2> QED BY <1>2, <2>2
<1>6. ASSUME NEW s \in U, s.type = "object", ~s.closed
      PROVE  \E t \in U : t.at # <<>> /\ Front(t.at) = s.at /\ IsKey(Last(t.at))
  <2>1. PICK i \in I : s \in sets[i]
    BY <1>1
  <2>2. \E t \in sets[i] : t.at # <<>> /\ Front(t.at) = s.at /\ IsKey(Last(t.at))
    BY <1>6, <2>1 DEF Sound
  <2> QED BY <1>2, <2>2
<1>7. Sound(U, depth)
  BY <1>3, <1>4, <1>5, <1>6 DEF Sound
<1> QED BY <1>7 DEF U

AllOf(sets, n) == UNION {sets[i] : i \in 1..n}

\* So is the merge of a sequence of them, in whatever order they come.
LEMMA MergeAllOfShapes ==
  ASSUME NEW n \in Nat, NEW depth \in Nat, NEW sets,
         \A i \in 1..n : Sound(sets[i], depth),
         NEW schemas, Len(schemas) = n, \A i \in 1..n : schemas[i] = Shape(sets[i])
  PROVE  MergeAll(schemas) = Shape(AllOf(sets, n))
<1> DEFINE UpTo(k) == UNION {sets[i] : i \in 1..k}
           f == [k \in 0..n |-> Shape(UpTo(k))]
           next(g, k) == IF k = 0 THEN EmptyDict ELSE MergeSchemas(g[k - 1], schemas[k])
           merged == CHOOSE g : g = [k \in 0..Len(schemas) |-> next(g, k)]
<1>1. ASSUME NEW k \in 1..n
      PROVE  MergeSchemas(Shape(UpTo(k - 1)), schemas[k]) = Shape(UpTo(k))
  <2>1. \A i \in 1..(k - 1) : Sound(sets[i], depth)
    OBVIOUS
  <2>2. Sound(UpTo(k - 1), depth)
    BY <2>1, SoundUnions
  <2>3. UpTo(k) = UpTo(k - 1) \cup sets[k]
    <3>1. 1..k = 1..(k - 1) \cup {k}
      OBVIOUS
    <3> QED BY <3>1
  <2> HIDE DEF UpTo
  <2> QED BY <2>2, <2>3, MergeOfShapes
<1>2. UpTo(0) = {}
  OBVIOUS
<1>3. \A k \in 0..n : f[k] = Shape(UpTo(k))
  OBVIOUS
<1> HIDE DEF UpTo, f
<1>4. ASSUME NEW k \in 0..n PROVE f[k] = next(f, k)
  <2>1. CASE k = 0
    BY <1>2, <1>3, <2>1, NothingIsSound
  <2>2. CASE k # 0
    <3>1. k \in 1..n /\ k - 1 \in 0..n
      BY <2>2
    <3> QED BY <1>1, <1>3, <2>2, <3>1
  <2> QED BY <2>1, <2>2
<1>5. f = [k \in 0..Len(schemas) |-> next(f, k)]
  <2>1. f = [k \in 0..n |-> f[k]]
    BY DEF f
  <2> HIDE DEF next
  <2> QED BY <1>4, <2>1
<1>6. merged = [k \in 0..n |-> next(merged, k)]
  <2> HIDE DEF next
  <2> QED BY <1>5
<1>7. MergeAll(schemas) = merged[n]
  BY DEF MergeAll
<1> HIDE DEF merged
<1>8. \A k \in 0..n : merged[k] = f[k]
  <2> DEFINE T == {k \in 0..n : merged[k] = f[k]}
  <2>1. 0 \in T
    BY <1>4, <1>6
  <2>2. ASSUME NEW k \in 1..n, k - 1 \in T PROVE k \in T
    <3>1. k \in 0..n /\ k # 0 /\ merged[k - 1] = f[k - 1]
      BY <2>2
    <3>2. merged[k] = next(merged, k) /\ f[k] = next(f, k)
      BY <1>4, <1>6, <3>1
    <3> QED BY <3>1, <3>2
  <2> HIDE DEF T
  <2>3. \A k \in 0..n : k \in T
    BY <2>1, <2>2, BoundedInduction
  <2> QED BY <2>3 DEF T
<1>9. UpTo(n) = AllOf(sets, n)
  BY DEF UpTo, AllOf
<1> QED BY <1>3, <1>7, <1>8, <1>9

-----------------------------------------------------------------------------
(* Objects: what was seen under one key says nothing of the others.        *)

LEMMA TogetherOfShapes ==
  ASSUME NEW C, NEW sets, NEW schemas, DOMAIN schemas = C,
         \A c \in C : schemas[c] = Shape(sets[c]),
         \A c, d \in C : c # d =>
           \A s \in sets[c], t \in sets[d] : t.at # s.at /\ t.at \notin Enclosing(s.at)
  PROVE  Together(schemas) = Shape(UNION {sets[c] : c \in C})
<1> DEFINE U == UNION {sets[c] : c \in C}
           domain == UNION {DOMAIN schemas[c] : c \in DOMAIN schemas}
           value(place) == UNION {Get(schemas[c], place, {}) : c \in DOMAIN schemas}
<1>1. ASSUME NEW c \in C, NEW s \in sets[c]
      PROVE  Open(U, s.at) <=> Open(sets[c], s.at)
  <2>1. \A t \in U : t.at \in Enclosing(s.at) => t \in sets[c]
    OBVIOUS
  <2>2. sets[c] \subseteq U
    OBVIOUS
  <2> HIDE DEF U
  <2> QED BY <2>1, <2>2 DEF Open
<1>2. ASSUME NEW c \in C, NEW s \in sets[c]
      PROVE  {t \in U : t.at = s.at} = {t \in sets[c] : t.at = s.at}
  OBVIOUS
<1>3. \A s \in U : \E c \in C : s \in sets[c]
  OBVIOUS
<1>4. \A c \in C : sets[c] \subseteq U
  OBVIOUS
<1> HIDE DEF U
<1>5. ASSUME NEW place \in DOMAIN Shape(U) PROVE place \in domain
  <2>1. Open(U, place) /\ \E s \in U : s.at = place
    BY ShapeFacts
  <2>2. PICK s \in U : s.at = place
    BY <2>1
  <2>3. PICK c \in C : s \in sets[c]
    BY <1>3
  <2>4. place \in DOMAIN Shape(sets[c])
    BY <1>1, <2>1, <2>2, <2>3, ShapeFacts
  <2> QED BY <2>4
<1>6. ASSUME NEW place \in domain
      PROVE  place \in DOMAIN Shape(U) /\ value(place) = Shape(U)[place]
  <2>1. PICK c \in C : place \in DOMAIN Shape(sets[c])
    OBVIOUS
  <2>2. Open(sets[c], place) /\ \E s \in sets[c] : s.at = place
    BY <2>1, ShapeFacts
  <2>3. PICK s \in sets[c] : s.at = place
    BY <2>2
  <2>4. Open(U, place) /\ s \in U
    BY <1>1, <1>4, <2>2, <2>3
  <2>5. place \in DOMAIN Shape(U)
    BY <2>3, <2>4, ShapeFacts
  <2>6. Shape(U)[place] = Shape(sets[c])[place]
    <3>1. {t \in U : t.at = place} = {t \in sets[c] : t.at = place}
      BY <1>2, <2>3
    <3>2. /\ Shape(U)[place] = {t.type : t \in {t \in U : t.at = place}} \cup NullAt(place)
          /\ Shape(sets[c])[place] =
               {t.type : t \in {t \in sets[c] : t.at = place}} \cup NullAt(place)
      BY <2>1, <2>5, ShapeFacts
    <3> QED BY <3>1, <3>2
  <2>7. Get(schemas[c], place, {}) = Shape(U)[place]
    BY <2>1, <2>6 DEF Get
  <2>8. ASSUME NEW d \in C, d # c PROVE Get(schemas[d], place, {}) = {}
    <3>1. place \notin DOMAIN Shape(sets[d])
      <4>1. \A t \in sets[d] : t.at # place
        BY <2>3, <2>8
      <4> QED BY <4>1, ShapeFacts
    <3> QED BY <3>1 DEF Get
  <2>9. value(place) = Shape(U)[place]
    <3> DEFINE G(d) == Get(schemas[d], place, {})
    <3>1. G(c) = Shape(U)[place] /\ \A d \in C : d # c => G(d) = {}
      BY <2>7, <2>8
    <3>2. value(place) = UNION {G(d) : d \in C}
      OBVIOUS
    <3> HIDE DEF G, value
    <3> QED BY <3>1, <3>2
  <2> QED BY <2>5, <2>9
<1>7. domain = DOMAIN Shape(U)
  BY <1>5, <1>6
<1>8. Shape(U) = [place \in DOMAIN Shape(U) |-> Shape(U)[place]]
  BY DEF Shape
<1>9. Together(schemas) = [place \in domain |-> value(place)]
  BY DEF Together
<1> HIDE DEF domain, value
<1>10. Together(schemas) = Shape(U)
  BY <1>6, <1>7, <1>8, <1>9
<1> QED BY <1>10 DEF U

\* What is seen below an open object or an array does not change for it, and
\* what is seen below a closed object is dropped.
Above(s, seen) ==
  /\ s.at \in Seq(Step)
  /\ \A t \in seen : t.at \in Seq(Step) /\ Len(t.at) > Len(s.at)

LEMMA NotEnclosed ==
  ASSUME NEW seen, NEW s, Above(s, seen)
  PROVE  \A t \in seen \cup {s} : (t.at # s.at /\ t.at \notin Enclosing(s.at)) \/ t = s
<1>1. s.at \notin Enclosing(s.at)
  BY EnclosingAbove DEF Above
<1>2. ASSUME NEW t \in seen PROVE t.at # s.at /\ t.at \notin Enclosing(s.at)
  <2>1. t.at \in Seq(Step) /\ s.at \in Seq(Step) /\ Len(t.at) > Len(s.at)
    BY DEF Above
  <2>2. ~(Len(t.at) < Len(s.at)) /\ t.at # s.at
    BY <2>1
  <2> QED BY <2>1, <2>2, EnclosingAbove
<1> QED BY <1>2

LEMMA ShapeAtTop ==
  ASSUME NEW seen, NEW s, Above(s, seen)
  PROVE  /\ s.at \in DOMAIN Shape(seen \cup {s})
         /\ Shape(seen \cup {s})[s.at] = {s.type} \cup NullAt(s.at)
<1> DEFINE U == seen \cup {s}
<1>1. s.at \notin Enclosing(s.at)
  BY EnclosingAbove DEF Above
<1>2. Open(U, s.at)
  BY <1>1, NotEnclosed DEF Open
<1>3. {t \in U : t.at = s.at} = {s}
  BY NotEnclosed
<1>4. {t.type : t \in {t \in U : t.at = s.at}} = {s.type}
  BY <1>3
<1> HIDE DEF U
<1>5. s \in U
  BY DEF U
<1>6. s.at \in DOMAIN Shape(U) /\ Shape(U)[s.at] = {s.type} \cup NullAt(s.at)
  BY <1>2, <1>4, <1>5, ShapeFacts
<1> QED BY <1>6 DEF U

LEMMA ShapeOfOpen ==
  ASSUME NEW seen, NEW s, Above(s, seen),
         ~s.closed
  PROVE  Shape(seen \cup {s}) = Put(Shape(seen), s.at, {s.type} \cup NullAt(s.at))
<1> DEFINE U == seen \cup {s}
<1>1. \A t \in seen : Open(U, t.at) <=> Open(seen, t.at)
  BY DEF Open
<1>2. \A t \in seen : {u \in U : u.at = t.at} = {u \in seen : u.at = t.at}
  BY NotEnclosed
<1>3. s.at \in DOMAIN Shape(U) /\ Shape(U)[s.at] = {s.type} \cup NullAt(s.at)
  BY ShapeAtTop
<1>4. s \in U /\ seen \subseteq U /\ \A t \in U : t = s \/ t \in seen
  OBVIOUS
<1>5. \A t \in seen : t.at # s.at
  BY DEF Above
<1> HIDE DEF U
<1>6. DOMAIN Shape(U) = DOMAIN Shape(seen) \cup {s.at}
  <2>1. ASSUME NEW place \in DOMAIN Shape(U), place # s.at PROVE place \in DOMAIN Shape(seen)
    <3>1. PICK t \in U : t.at = place
      BY ShapeFacts
    <3> QED BY <1>1, <1>4, <2>1, <3>1, ShapeFacts
  <2>2. ASSUME NEW place \in DOMAIN Shape(seen) PROVE place \in DOMAIN Shape(U)
    <3>1. PICK t \in seen : t.at = place
      BY ShapeFacts
    <3> QED BY <1>1, <1>4, <3>1, ShapeFacts
  <2> QED BY <1>3, <2>1, <2>2
<1>7. ASSUME NEW place \in DOMAIN Shape(seen) PROVE Shape(U)[place] = Shape(seen)[place]
  <2>1. PICK t \in seen : t.at = place
    BY ShapeFacts
  <2>2. {u \in U : u.at = place} = {u \in seen : u.at = place}
    BY <1>2, <2>1
  <2>3. place \in DOMAIN Shape(U)
    BY <1>6
  <2>4. /\ Shape(U)[place] = {u.type : u \in {u \in U : u.at = place}} \cup NullAt(place)
        /\ Shape(seen)[place] = {u.type : u \in {u \in seen : u.at = place}} \cup NullAt(place)
    BY <2>3, ShapeFacts
  <2> QED BY <2>2, <2>4
<1>8. Shape(U) = [place \in DOMAIN Shape(U) |-> Shape(U)[place]]
  BY DEF Shape
<1>9. Shape(U) = Put(Shape(seen), s.at, {s.type} \cup NullAt(s.at))
  <2> DEFINE types == {s.type} \cup NullAt(s.at)
             old == Shape(seen)
             new == Shape(U)
  <2>1. DOMAIN new = DOMAIN old \cup {s.at} /\ new[s.at] = types
    BY <1>3, <1>6
  <2>2. \A place \in DOMAIN old : new[place] = old[place]
    BY <1>7
  <2>3. new = [place \in DOMAIN new |-> new[place]]
    BY <1>8
  <2> HIDE DEF types, old, new
  <2>4. new = Put(old, s.at, types)
    BY <2>1, <2>2, <2>3 DEF Put
  <2> QED BY <2>4 DEF types, old, new
<1> QED BY <1>9 DEF U

LEMMA ShapeOfClosed ==
  ASSUME NEW seen, NEW s, Above(s, seen), s.closed,
         \A t \in seen : s.at \in Enclosing(t.at)
  PROVE  Shape(seen \cup {s}) = Put(EmptyDict, s.at, {s.type} \cup NullAt(s.at))
<1> DEFINE U == seen \cup {s}
<1>1. s.at \in DOMAIN Shape(U) /\ Shape(U)[s.at] = {s.type} \cup NullAt(s.at)
  BY ShapeAtTop
<1>2. \A t \in seen : ~Open(U, t.at)
  BY DEF Open
<1>3. \A t \in U : t = s \/ t \in seen
  OBVIOUS
<1> HIDE DEF U
<1>4. ASSUME NEW place \in DOMAIN Shape(U) PROVE place = s.at
  <2>1. Open(U, place) /\ \E t \in U : t.at = place
    BY ShapeFacts
  <2> QED BY <1>2, <1>3, <2>1
<1>5. DOMAIN Shape(U) = {s.at}
  BY <1>1, <1>4
<1>6. Shape(U) = [place \in DOMAIN Shape(U) |-> Shape(U)[place]]
  BY DEF Shape
<1>7. Shape(U) = Put(EmptyDict, s.at, {s.type} \cup NullAt(s.at))
  <2> DEFINE types == {s.type} \cup NullAt(s.at)
             new == Shape(U)
  <2>1. DOMAIN new = {s.at} /\ new[s.at] = types /\ new = [place \in DOMAIN new |-> new[place]]
    BY <1>1, <1>5, <1>6
  <2> HIDE DEF types, new
  <2>2. new = Put(EmptyDict, s.at, types)
    BY <2>1 DEF Put, EmptyDict
  <2> QED BY <2>2 DEF types, new
<1> QED BY <1>7 DEF U

-----------------------------------------------------------------------------
(* Values.                                                                 *)

\* What is looked at of a value from a path on: the items of the samples.
IsSampled(step) == IsKey(step) \/ step[2] <= SampleItems

Under(value, path) ==
  {p \in DOMAIN value :
     /\ Len(path) <= Len(p)
     /\ \A n \in 1..Len(path) : p[n] = path[n]
     /\ \A n \in (Len(path) + 1)..Len(p) : IsSampled(p[n])}

SeenUnder(value, path) == {Sighting(value, p) : p \in Under(value, path)}

SampledChildren(value, path) ==
  {child \in Children(value, path) : IsSampled(child[Len(path) + 1])}

LEMMA WrapperType ==
  ASSUME NEW value PROVE Wrapper(value) \in Seq(Step) /\ Len(Wrapper(value)) \in Nat
<1>1. Key("result") \in Step
  <2>1. <<"key", "result">> \in {"key"} \X FieldName
    BY OutputConstants DEF OutputConstants
  <2> QED BY <2>1 DEF Key, Step
<1>2. <<Key("result")>> \in Seq(Step)
  BY <1>1
<1>3. Wrapper(value) \in Seq(Step)
  BY <1>2 DEF Wrapper
<1> QED BY <1>3

LEMMA PathFacts ==
  ASSUME NEW value, IsTree(value), NEW path \in DOMAIN value
  PROVE  /\ path \in Seq(Step) /\ Len(path) \in Nat
         /\ \A n \in 1..Len(path) :
              /\ path[n] \in Step
              /\ SubSeq(path, 1, n - 1) \in DOMAIN value
              /\ value[SubSeq(path, 1, n - 1)].kind = IF IsKey(path[n]) THEN "object" ELSE "array"
         /\ \A n \in 0..Len(path) : SubSeq(path, 1, n) \in DOMAIN value
<1>1. path \in Seq(Step)
  BY DEF IsTree
<1>2. DOMAIN path = 1..Len(path) /\ Len(path) \in Nat
  BY <1>1
<1>3. \A n \in 1..Len(path) :
        /\ SubSeq(path, 1, n - 1) \in DOMAIN value
        /\ value[SubSeq(path, 1, n - 1)].kind = IF IsKey(path[n]) THEN "object" ELSE "array"
  BY <1>2 DEF IsTree
<1>4. \A n \in 1..Len(path) : path[n] \in Step
  BY <1>1
<1>5. SubSeq(path, 1, Len(path)) = path
  BY <1>1, SubSeqFull
<1>6. ASSUME NEW n \in 0..Len(path) PROVE SubSeq(path, 1, n) \in DOMAIN value
  <2>1. CASE n = Len(path)
    BY <1>5, <2>1
  <2>2. CASE n # Len(path)
    <3> DEFINE k == Len(path)
    <3>1. k \in Nat /\ n \in 0..k /\ n # k
      BY <1>2, <2>2
    <3> HIDE DEF k
    <3>2. n + 1 \in 1..k /\ (n + 1) - 1 = n
      BY <3>1
    <3> QED BY <1>3, <3>2 DEF k
  <2> QED BY <2>1, <2>2
<1> QED BY <1>1, <1>2, <1>3, <1>4, <1>6

LEMMA ChildFacts ==
  ASSUME NEW value, IsTree(value), NEW path \in DOMAIN value, NEW child \in Children(value, path)
  PROVE  /\ child \in DOMAIN value /\ child \in Seq(Step)
         /\ Len(child) = Len(path) + 1
         /\ \A n \in 1..Len(path) : child[n] = path[n]
         /\ value[path].kind = IF IsKey(child[Len(path) + 1]) THEN "object" ELSE "array"
<1>1. child \in DOMAIN value /\ child # <<>> /\ Front(child) = path
  BY DEF Children
<1>2. child \in Seq(Step) /\ Len(child) \in Nat
  BY <1>1, PathFacts
<1>3. Len(child) >= 1 /\ Len(child) - 1 \in 0..Len(child)
  BY <1>1, <1>2
<1>4. path = SubSeq(child, 1, Len(child) - 1)
  BY <1>1 DEF Front
<1>5. Len(path) = Len(child) - 1 /\ \A n \in 1..(Len(child) - 1) : path[n] = child[n]
  BY <1>2, <1>3, <1>4, PrefixFacts
<1>6. Len(child) = Len(path) + 1 /\ Len(child) \in 1..Len(child)
  BY <1>2, <1>3, <1>5
<1>7. value[path].kind = IF IsKey(child[Len(child)]) THEN "object" ELSE "array"
  BY <1>1, <1>4, <1>6, PathFacts
<1> QED BY <1>1, <1>2, <1>5, <1>6, <1>7

\* From a path on, a value is its node and what is under its children.
LEMMA UnderSplits ==
  ASSUME NEW value, IsTree(value), NEW path \in DOMAIN value
  PROVE  Under(value, path) =
           {path} \cup UNION {Under(value, child) : child \in SampledChildren(value, path)}
<1>1. path \in Seq(Step) /\ Len(path) \in Nat
  BY PathFacts
<1>2. path \in Under(value, path)
  BY <1>1 DEF Under
<1>3. ASSUME NEW child \in SampledChildren(value, path), NEW p \in Under(value, child)
      PROVE  p \in Under(value, path)
  <2>1. /\ child \in Seq(Step) /\ Len(child) = Len(path) + 1
        /\ \A n \in 1..Len(path) : child[n] = path[n]
        /\ IsSampled(child[Len(path) + 1])
    BY ChildFacts DEF SampledChildren
  <2>2. /\ p \in DOMAIN value /\ Len(path) + 1 <= Len(p)
        /\ \A n \in 1..(Len(path) + 1) : p[n] = child[n]
        /\ \A n \in (Len(path) + 2)..Len(p) : IsSampled(p[n])
    BY <1>1, <2>1 DEF Under
  <2>3. p \in Seq(Step) /\ Len(p) \in Nat
    BY <2>2, PathFacts
  <2>4. Len(path) <= Len(p) /\ \A n \in 1..Len(path) : p[n] = path[n]
    BY <1>1, <2>1, <2>2, <2>3
  <2>5. ASSUME NEW n \in (Len(path) + 1)..Len(p) PROVE IsSampled(p[n])
    <3>1. CASE n = Len(path) + 1
      BY <1>1, <2>1, <2>2, <3>1
    <3>2. CASE n # Len(path) + 1
      <4>1. n \in (Len(path) + 2)..Len(p)
        BY <1>1, <2>3, <3>2
      <4> QED BY <2>2, <4>1
    <3> QED BY <3>1, <3>2
  <2> QED BY <2>2, <2>4, <2>5 DEF Under
<1>4. ASSUME NEW p \in Under(value, path), p # path
      PROVE  \E child \in SampledChildren(value, path) : p \in Under(value, child)
  <2>1. /\ p \in DOMAIN value /\ Len(path) <= Len(p)
        /\ \A n \in 1..Len(path) : p[n] = path[n]
        /\ \A n \in (Len(path) + 1)..Len(p) : IsSampled(p[n])
    BY DEF Under
  <2>2. p \in Seq(Step) /\ Len(p) \in Nat
    BY <2>1, PathFacts
  <2>3. Len(p) # Len(path)
    BY <1>1, <1>4, <2>1, <2>2, SeqEqual
  <2> DEFINE k == Len(path) + 1
             child == SubSeq(p, 1, k)
  <2>4. k \in 0..Len(p) /\ k \in 1..Len(p) /\ k \in Nat /\ k - 1 = Len(path)
    BY <1>1, <2>1, <2>2, <2>3
  <2>5. child \in DOMAIN value
    BY <2>1, <2>4, PathFacts
  <2>6. child \in Seq(Step) /\ Len(child) = k /\ \A n \in 1..k : child[n] = p[n]
    BY <2>2, <2>4, PrefixFacts
  <2> HIDE DEF child
  <2>7. child # <<>> /\ Front(child) = path
    <3>1. Front(child) = SubSeq(child, 1, k - 1) /\ k - 1 \in 0..Len(child)
      BY <2>4, <2>6 DEF Front
    <3>2. /\ Front(child) \in Seq(Step) /\ Len(Front(child)) = Len(path)
          /\ \A n \in 1..Len(path) : Front(child)[n] = child[n]
      BY <2>4, <2>6, <3>1, PrefixFacts
    <3>3. \A n \in 1..Len(path) : child[n] = path[n]
      BY <1>1, <2>1, <2>4, <2>6
    <3>4. Front(child) = path
      BY <1>1, <3>2, <3>3, SeqEqual
    <3> QED BY <2>4, <2>6, <3>4
  <2>8. IsSampled(child[Len(path) + 1])
    BY <2>1, <2>2, <2>4, <2>6
  <2>9. child \in SampledChildren(value, path)
    BY <2>5, <2>7, <2>8 DEF SampledChildren, Children
  <2>10. p \in Under(value, child)
    <3>1. Len(child) <= Len(p) /\ \A n \in 1..Len(child) : p[n] = child[n]
      BY <2>4, <2>6
    <3>2. \A n \in (Len(child) + 1)..Len(p) : IsSampled(p[n])
      BY <1>1, <2>1, <2>2, <2>6
    <3> QED BY <2>1, <3>1, <3>2 DEF Under
  <2> QED BY <2>9, <2>10
<1> QED BY <1>2, <1>3, <1>4

LEMMA SeenSplits ==
  ASSUME NEW value, IsTree(value), NEW path \in DOMAIN value
  PROVE  SeenUnder(value, path) =
           (UNION {SeenUnder(value, child) : child \in SampledChildren(value, path)})
              \cup {Sighting(value, path)}
<1>1. Under(value, path) =
        {path} \cup UNION {Under(value, child) : child \in SampledChildren(value, path)}
  BY UnderSplits
<1> QED BY <1>1 DEF SeenUnder

\* Where a value is seen: each step of its path is one of its place.
LEMMA SightingFacts ==
  ASSUME NEW value, IsTree(value), NEW path \in DOMAIN value
  PROVE  LET at == Sighting(value, path).at
             w == Len(Wrapper(value))
         IN  /\ at \in Seq(Step) /\ Len(at) = w + Len(path)
             /\ \A n \in 1..w : at[n] = Wrapper(value)[n]
             /\ \A n \in 1..Len(path) :
                  at[w + n] = IF IsKey(path[n]) THEN path[n] ELSE AnyItem
<1> DEFINE wrapper == Wrapper(value)
           w == Len(wrapper)
           place == Place(path)
           k == Len(path)
<1>1. wrapper \in Seq(Step) /\ w \in Nat
  BY WrapperType
<1>2. path \in Seq(Step) /\ k \in Nat /\ \A n \in 1..k : path[n] \in Step
  BY PathFacts
<1>3. AnyItem \in Step
  BY DEF AnyItem, Item, Step
<1>4. place = [n \in 1..k |-> IF IsKey(path[n]) THEN path[n] ELSE AnyItem]
  BY <1>2 DEF Place
<1>5. place \in [1..k -> Step]
  BY <1>2, <1>3, <1>4
<1>6. place \in Seq(Step) /\ Len(place) = k
  BY <1>2, <1>5
<1>7. Sighting(value, path).at = wrapper \o place
  BY DEF Sighting
<1> HIDE DEF wrapper, w, place, k
<1>8. /\ wrapper \o place \in Seq(Step) /\ Len(wrapper \o place) = Len(wrapper) + k
      /\ \A n \in 1..(Len(wrapper) + k) :
           (wrapper \o place)[n] = IF n <= Len(wrapper) THEN wrapper[n]
                                   ELSE place[n - Len(wrapper)]
  BY <1>1, <1>6, ConcatProperties
<1>9. Len(wrapper) = w
  BY DEF w
<1>10. ASSUME NEW n \in 1..w PROVE (wrapper \o place)[n] = wrapper[n]
  <2>1. n \in 1..(w + k) /\ n <= w
    BY <1>1, <1>2
  <2> QED BY <1>8, <1>9, <2>1
<1>11. ASSUME NEW n \in 1..k
       PROVE  (wrapper \o place)[w + n] = IF IsKey(path[n]) THEN path[n] ELSE AnyItem
  <2>1. w + n \in 1..(w + k) /\ ~(w + n <= w) /\ (w + n) - w = n
    BY <1>1, <1>2
  <2>2. (wrapper \o place)[w + n] = place[n]
    BY <1>8, <1>9, <2>1
  <2> QED BY <1>4, <2>2
<1> QED BY <1>7, <1>8, <1>9, <1>10, <1>11 DEF w, k, wrapper

\* Of a path under a child: it goes on from the parent, by the same step.
LEMMA BelowChild ==
  ASSUME NEW value, IsTree(value), NEW path \in DOMAIN value,
         NEW child \in Children(value, path), NEW p \in Under(value, child)
  PROVE  LET at == Sighting(value, p).at
             top == Sighting(value, path).at
         IN  /\ at \in Seq(Step) /\ top \in Seq(Step) /\ Len(at) > Len(top)
             /\ \A n \in 1..Len(top) : at[n] = top[n]
             /\ at[Len(top) + 1] = IF IsKey(child[Len(path) + 1]) THEN child[Len(path) + 1] ELSE AnyItem
<1> DEFINE at == Sighting(value, p).at
           top == Sighting(value, path).at
           w == Len(Wrapper(value))
           k == Len(path)
<1>1. /\ child \in Seq(Step) /\ Len(child) = k + 1
      /\ \A n \in 1..k : child[n] = path[n]
  BY ChildFacts
<1>2. p \in DOMAIN value /\ k + 1 <= Len(p) /\ \A n \in 1..(k + 1) : p[n] = child[n]
  BY <1>1 DEF Under
<1>3. k \in Nat /\ Len(p) \in Nat /\ w \in Nat
  BY <1>2, PathFacts, WrapperType
<1>4. /\ top \in Seq(Step) /\ Len(top) = w + k
      /\ \A n \in 1..w : top[n] = Wrapper(value)[n]
      /\ \A n \in 1..k : top[w + n] = IF IsKey(path[n]) THEN path[n] ELSE AnyItem
  BY SightingFacts
<1>5. /\ at \in Seq(Step) /\ Len(at) = w + Len(p)
      /\ \A n \in 1..w : at[n] = Wrapper(value)[n]
      /\ \A n \in 1..Len(p) : at[w + n] = IF IsKey(p[n]) THEN p[n] ELSE AnyItem
  BY <1>2, SightingFacts
<1> HIDE DEF at, top, w, k
<1>6. k + 1 \in 1..Len(p) /\ \A n \in 1..k : n \in 1..Len(p) /\ n \in 1..(k + 1)
  BY <1>2, <1>3
<1>7. ASSUME NEW n \in 1..(w + k) PROVE at[n] = top[n]
  <2>1. CASE n <= w
    <3>1. n \in 1..w
      BY <1>3, <2>1
    <3> QED BY <1>4, <1>5, <3>1
  <2>2. CASE ~(n <= w)
    <3>1. n - w \in 1..k /\ w + (n - w) = n
      BY <1>3, <2>2
    <3>2. p[n - w] = path[n - w]
      BY <1>1, <1>2, <1>6, <3>1
    <3>3. at[w + (n - w)] = top[w + (n - w)]
      BY <1>4, <1>5, <1>6, <3>1, <3>2
    <3> QED BY <3>1, <3>3
  <2> QED BY <2>1, <2>2
<1>8. at[(w + k) + 1] = IF IsKey(child[k + 1]) THEN child[k + 1] ELSE AnyItem
  <2>1. w + (k + 1) = (w + k) + 1 /\ k + 1 \in 1..(k + 1)
    BY <1>3
  <2>2. at[w + (k + 1)] = IF IsKey(p[k + 1]) THEN p[k + 1] ELSE AnyItem
    BY <1>5, <1>6
  <2>3. p[k + 1] = child[k + 1]
    BY <1>2, <2>1
  <2> QED BY <2>1, <2>2, <2>3
<1>9. Len(at) > Len(top)
  BY <1>2, <1>3, <1>4, <1>5
<1> QED BY <1>4, <1>5, <1>7, <1>8, <1>9 DEF at, top, k

LEMMA UnderIsTransitive ==
  ASSUME NEW value, IsTree(value), NEW path \in DOMAIN value,
         NEW p \in Under(value, path), NEW q \in Under(value, p)
  PROVE  q \in Under(value, path)
<1> DEFINE k == Len(path)
           m == Len(p)
           j == Len(q)
<1>1. /\ p \in DOMAIN value /\ k <= m
      /\ \A n \in 1..k : p[n] = path[n]
      /\ \A n \in (k + 1)..m : IsSampled(p[n])
  BY DEF Under
<1>2. /\ q \in DOMAIN value /\ m <= j
      /\ \A n \in 1..m : q[n] = p[n]
      /\ \A n \in (m + 1)..j : IsSampled(q[n])
  BY DEF Under
<1>3. k \in Nat /\ m \in Nat /\ j \in Nat
  BY <1>1, <1>2, PathFacts
<1> HIDE DEF k, m, j
<1>4. k <= j /\ \A n \in 1..k : q[n] = path[n]
  BY <1>1, <1>2, <1>3
<1>5. ASSUME NEW n \in (k + 1)..j PROVE IsSampled(q[n])
  <2>1. CASE n <= m
    <3>1. n \in (k + 1)..m /\ n \in 1..m
      BY <1>3, <2>1
    <3> QED BY <1>1, <1>2, <3>1
  <2>2. CASE ~(n <= m)
    <3>1. n \in (m + 1)..j
      BY <1>3, <2>2
    <3> QED BY <1>2, <3>1
  <2> QED BY <2>1, <2>2
<1> QED BY <1>2, <1>4, <1>5 DEF Under, k, j

LEMMA StepKinds == ~IsKey(AnyItem) /\ \A i : ~IsKey(Item(i)) /\ Item(i)[2] = i
BY DEF AnyItem, Item, IsKey

\* A property is seen in its object.
LEMMA PropertySeen ==
  ASSUME NEW value, IsTree(value), NEW path \in DOMAIN value, value[path].kind = "object",
         NEW child \in Children(value, path)
  PROVE  LET at == Sighting(value, child).at
         IN  /\ child \in Under(value, path)
             /\ at # <<>> /\ Front(at) = Sighting(value, path).at /\ IsKey(Last(at))
<1> DEFINE at == Sighting(value, child).at
           top == Sighting(value, path).at
           w == Len(Wrapper(value))
           k == Len(path)
<1>1. /\ child \in DOMAIN value /\ child \in Seq(Step) /\ Len(child) = k + 1
      /\ IsKey(child[k + 1])
  BY ChildFacts
<1>2. child \in Under(value, child)
  BY <1>1 DEF Under
<1>3. child \in Under(value, path)
  <2>1. child \in SampledChildren(value, path)
    BY <1>1 DEF SampledChildren, IsSampled
  <2> QED BY <1>2, <2>1, UnderSplits
<1>4. /\ at \in Seq(Step) /\ top \in Seq(Step)
      /\ \A n \in 1..Len(top) : at[n] = top[n]
      /\ IsKey(at[Len(top) + 1])
  BY <1>1, <1>2, BelowChild
<1>5. Len(at) = w + (k + 1) /\ Len(top) = w + k /\ w \in Nat /\ k \in Nat
  <2>1. Len(at) = w + Len(child) /\ Len(top) = w + k
    BY <1>1, SightingFacts
  <2>2. w \in Nat /\ k \in Nat
    BY PathFacts, WrapperType
  <2> QED BY <1>1, <2>1, <2>2
<1> HIDE DEF at, top, w, k
<1>6. Len(at) = Len(top) + 1 /\ Len(at) - 1 \in 0..Len(at) /\ Len(top) = Len(at) - 1 /\ Len(top) \in Nat
  BY <1>5
<1>7. /\ Front(at) \in Seq(Step) /\ Len(Front(at)) = Len(top)
      /\ \A n \in 1..Len(top) : Front(at)[n] = at[n]
  BY <1>4, <1>6, PrefixFacts DEF Front
<1>8. Front(at) = top
  BY <1>4, <1>7, SeqEqual
<1>9. at # <<>> /\ IsKey(Last(at))
  BY <1>4, <1>6 DEF Last
<1> QED BY <1>3, <1>8, <1>9 DEF at, top

\* The object a place lies in is seen, as an object.
LEMMA EnclosingSeen ==
  ASSUME NEW value, IsTree(value), NEW path \in DOMAIN value, NEW p \in Under(value, path),
         NEW r \in Enclosing(Sighting(value, p).at),
         Len(r) >= Len(Wrapper(value)) + Len(path)
  PROVE  \E s \in SeenUnder(value, path) : s.at = r /\ s.type = "object"
<1> DEFINE at == Sighting(value, p).at
           w == Len(Wrapper(value))
           k == Len(path)
           m == Len(r) - w
           q == SubSeq(p, 1, m)
<1>1. /\ p \in DOMAIN value /\ k <= Len(p)
      /\ \A n \in 1..k : p[n] = path[n]
      /\ \A n \in (k + 1)..Len(p) : IsSampled(p[n])
  BY DEF Under
<1>2. /\ p \in Seq(Step) /\ Len(p) \in Nat /\ k \in Nat /\ w \in Nat
  BY <1>1, PathFacts, WrapperType
<1>3. /\ at \in Seq(Step) /\ Len(at) = w + Len(p)
      /\ \A n \in 1..w : at[n] = Wrapper(value)[n]
      /\ \A n \in 1..Len(p) : at[w + n] = IF IsKey(p[n]) THEN p[n] ELSE AnyItem
  BY <1>1, SightingFacts
<1>4. /\ r \in Seq(Step) /\ Len(r) < Len(at) /\ Len(r) \in Nat
      /\ \A i \in 1..Len(r) : r[i] = at[i]
      /\ IsKey(at[Len(r) + 1])
  BY <1>3, EnclosingMeans
<1> HIDE DEF at
<1>5. /\ m \in Nat /\ k <= m /\ m + 1 \in 1..Len(p) /\ m \in 0..Len(p) /\ (m + 1) - 1 = m
      /\ Len(r) = w + m /\ Len(r) + 1 = w + (m + 1)
  BY <1>2, <1>3, <1>4
<1> HIDE DEF m, w, k
<1>6. IsKey(p[m + 1])
  BY <1>3, <1>4, <1>5, StepKinds
<1>7. q \in DOMAIN value /\ value[q].kind = "object"
  <2>1. \A n \in 1..Len(p) : /\ SubSeq(p, 1, n - 1) \in DOMAIN value
                             /\ value[SubSeq(p, 1, n - 1)].kind = IF IsKey(p[n]) THEN "object" ELSE "array"
    BY <1>1, PathFacts
  <2> HIDE DEF q
  <2>2. /\ SubSeq(p, 1, (m + 1) - 1) \in DOMAIN value
        /\ value[SubSeq(p, 1, (m + 1) - 1)].kind = "object"
    BY <1>5, <1>6, <2>1
  <2> QED BY <1>5, <2>2 DEF q
<1>8. q \in Seq(Step) /\ Len(q) = m /\ \A n \in 1..m : q[n] = p[n]
  BY <1>2, <1>5, PrefixFacts
<1> HIDE DEF q
<1>9. q \in Under(value, path)
  <2>1. \A n \in 1..k : q[n] = path[n]
    BY <1>1, <1>2, <1>5, <1>8
  <2>2. \A n \in (k + 1)..m : n \in 1..m /\ n \in (k + 1)..Len(p)
    BY <1>2, <1>5
  <2>3. \A n \in (k + 1)..m : IsSampled(q[n])
    BY <1>1, <1>8, <2>2
  <2> QED BY <1>5, <1>7, <1>8, <2>1, <2>3 DEF Under, k
<1> DEFINE top == Sighting(value, q).at
<1>10. /\ top \in Seq(Step) /\ Len(top) = w + m
       /\ \A n \in 1..w : top[n] = Wrapper(value)[n]
       /\ \A n \in 1..m : top[w + n] = IF IsKey(q[n]) THEN q[n] ELSE AnyItem
  BY <1>7, <1>8, SightingFacts DEF w
<1> HIDE DEF top
<1>11. ASSUME NEW n \in 1..(w + m) PROVE top[n] = r[n]
  <2>1. r[n] = at[n]
    BY <1>4, <1>5
  <2>2. CASE n <= w
    <3>1. n \in 1..w
      BY <1>2, <2>2
    <3> QED BY <1>3, <1>10, <2>1, <3>1
  <2>3. CASE ~(n <= w)
    <3>1. n - w \in 1..m /\ n - w \in 1..Len(p) /\ w + (n - w) = n
      BY <1>2, <1>5, <2>3
    <3>2. top[w + (n - w)] = at[w + (n - w)]
      BY <1>3, <1>8, <1>10, <3>1
    <3> QED BY <2>1, <3>1, <3>2
  <2> QED BY <2>2, <2>3
<1>12. top = r
  BY <1>4, <1>5, <1>10, <1>11, SeqEqual
<1>13. Sighting(value, q).type = "object"
  BY <1>7 DEF Sighting, JsonType
<1> QED BY <1>9, <1>12, <1>13 DEF top, SeenUnder

LEMMA SeenUnderIsSound ==
  ASSUME NEW value, IsTree(value), NEW path \in DOMAIN value
  PROVE  Sound(SeenUnder(value, path), Len(Wrapper(value)) + Len(path))
<1> DEFINE depth == Len(Wrapper(value)) + Len(path)
<1>1. ASSUME NEW p \in Under(value, path)
      PROVE  Sighting(value, p).at \in Seq(Step) /\ Len(Sighting(value, p).at) >= depth
  <2>1. p \in DOMAIN value /\ Len(path) <= Len(p)
    BY DEF Under
  <2>2. Len(p) \in Nat /\ Len(path) \in Nat /\ Len(Wrapper(value)) \in Nat
    BY <2>1, PathFacts, WrapperType
  <2> QED BY <2>1, <2>2, SightingFacts
<1>2. ASSUME NEW p \in Under(value, path), Sighting(value, p).closed
      PROVE  Sighting(value, p).type = "object"
  BY <1>2 DEF Sighting, JsonType
<1>3. ASSUME NEW p \in Under(value, path), Sighting(value, p).type = "object",
             ~Sighting(value, p).closed
      PROVE  \E t \in SeenUnder(value, path) :
               t.at # <<>> /\ Front(t.at) = Sighting(value, p).at /\ IsKey(Last(t.at))
  <2>1. p \in DOMAIN value
    BY DEF Under
  <2>2. value[p].kind = "object" /\ IsRecord(value, p)
    BY <1>3 DEF Sighting, JsonType
  <2>3. PICK child \in Children(value, p) : TRUE
    <3>1. Cardinality({}) = 0
      BY FS_EmptySet
    <3>2. Cardinality(Children(value, p)) # 0
      BY <2>2, OutputConstants DEF IsRecord, OutputConstants
    <3> QED BY <3>1, <3>2
  <2>4. child \in Under(value, path)
    BY <2>1, <2>2, PropertySeen, UnderIsTransitive
  <2> QED BY <2>1, <2>2, <2>4, PropertySeen DEF SeenUnder
<1>4. ASSUME NEW p \in Under(value, path), NEW r \in Enclosing(Sighting(value, p).at),
             Len(r) >= depth
      PROVE  \E s \in SeenUnder(value, path) : s.at = r /\ s.type = "object"
  BY <1>4, EnclosingSeen
<1> DEFINE seen == SeenUnder(value, path)
<1>5. \A s \in seen : \E p \in Under(value, path) : s = Sighting(value, p)
  BY DEF SeenUnder
<1> HIDE DEF depth, seen
<1> QED BY <1>1, <1>2, <1>3, <1>4, <1>5 DEF Sound, seen, depth

-----------------------------------------------------------------------------
(* Inference.                                                              *)

SeenBelow(value, path) ==
  UNION {SeenUnder(value, child) : child \in SampledChildren(value, path)}

LEMMA BelowIsAbove ==
  ASSUME NEW value, IsTree(value), NEW path \in DOMAIN value
  PROVE  /\ Above(Sighting(value, path), SeenBelow(value, path))
         /\ SeenUnder(value, path) = SeenBelow(value, path) \cup {Sighting(value, path)}
<1>1. ASSUME NEW child \in SampledChildren(value, path), NEW p \in Under(value, child)
      PROVE  /\ Sighting(value, p).at \in Seq(Step)
             /\ Len(Sighting(value, p).at) > Len(Sighting(value, path).at)
  <2>1. child \in Children(value, path)
    BY DEF SampledChildren
  <2> QED BY <2>1, BelowChild
<1>2. Sighting(value, path).at \in Seq(Step)
  BY SightingFacts
<1>3. ASSUME NEW t \in SeenBelow(value, path)
      PROVE  t.at \in Seq(Step) /\ Len(t.at) > Len(Sighting(value, path).at)
  <2>1. PICK child \in SampledChildren(value, path) : t \in SeenUnder(value, child)
    BY DEF SeenBelow
  <2>2. PICK p \in Under(value, child) : t = Sighting(value, p)
    BY <2>1 DEF SeenUnder
  <2> QED BY <1>1, <2>2
<1>4. Above(Sighting(value, path), SeenBelow(value, path))
  BY <1>2, <1>3 DEF Above
<1> QED BY <1>4, SeenSplits DEF SeenBelow

\* What is below an object lies in it.
LEMMA BelowIsEnclosed ==
  ASSUME NEW value, IsTree(value), NEW path \in DOMAIN value, value[path].kind = "object",
         NEW t \in SeenBelow(value, path)
  PROVE  Sighting(value, path).at \in Enclosing(t.at)
<1>1. PICK child \in SampledChildren(value, path) : t \in SeenUnder(value, child)
  BY DEF SeenBelow
<1>2. PICK p \in Under(value, child) : t = Sighting(value, p)
  BY <1>1 DEF SeenUnder
<1>3. child \in Children(value, path)
  BY DEF SampledChildren
<1>4. IsKey(child[Len(path) + 1])
  BY <1>3, ChildFacts
<1> DEFINE at == Sighting(value, p).at
           top == Sighting(value, path).at
<1>5. /\ at \in Seq(Step) /\ top \in Seq(Step) /\ Len(at) > Len(top)
      /\ \A n \in 1..Len(top) : at[n] = top[n]
      /\ IsKey(at[Len(top) + 1])
  BY <1>2, <1>3, <1>4, BelowChild
<1> HIDE DEF at, top
<1>6. Len(top) < Len(at) /\ \A n \in 1..Len(top) : top[n] = at[n]
  BY <1>5
<1>7. top \in Enclosing(at)
  BY <1>5, <1>6, EnclosingMeans
<1> QED BY <1>2, <1>7 DEF at, top

\* What is seen under two keys of an object is apart.
LEMMA KeysAreApart ==
  ASSUME NEW value, IsTree(value), NEW path \in DOMAIN value, value[path].kind = "object",
         NEW c \in Children(value, path), NEW d \in Children(value, path), c # d,
         NEW s \in SeenUnder(value, c), NEW t \in SeenUnder(value, d)
  PROVE  t.at # s.at /\ t.at \notin Enclosing(s.at)
<1> DEFINE top == Sighting(value, path).at
           k == Len(path)
<1>1. /\ c \in Seq(Step) /\ Len(c) = k + 1 /\ IsKey(c[k + 1]) /\ \A n \in 1..k : c[n] = path[n]
      /\ d \in Seq(Step) /\ Len(d) = k + 1 /\ IsKey(d[k + 1]) /\ \A n \in 1..k : d[n] = path[n]
  BY ChildFacts
<1>2. k \in Nat
  BY PathFacts
<1>3. PICK p \in Under(value, c), q \in Under(value, d) :
        s = Sighting(value, p) /\ t = Sighting(value, q)
  BY DEF SeenUnder
<1>4. /\ s.at \in Seq(Step) /\ top \in Seq(Step) /\ Len(s.at) > Len(top)
      /\ s.at[Len(top) + 1] = c[k + 1]
  BY <1>1, <1>3, BelowChild
<1>5. /\ t.at \in Seq(Step) /\ Len(t.at) > Len(top)
      /\ t.at[Len(top) + 1] = d[k + 1]
  BY <1>1, <1>3, BelowChild
<1> HIDE DEF top, k
<1>6. c[k + 1] # d[k + 1]
  <2>1. SUFFICES ASSUME c[k + 1] = d[k + 1] PROVE FALSE
    OBVIOUS
  <2>2. \A n \in 1..(k + 1) : c[n] = d[n]
    BY <1>1, <1>2, <2>1
  <2> QED BY <1>1, <2>2, SeqEqual
<1>7. t.at # s.at
  BY <1>4, <1>5, <1>6
<1>8. Len(top) + 1 \in 1..Len(t.at)
  BY <1>4, <1>5
<1>9. t.at \notin Enclosing(s.at)
  BY <1>4, <1>5, <1>6, <1>8, EnclosingMeans
<1> QED BY <1>7, <1>9

LEMMA PutSame ==
  ASSUME NEW dict, NEW key \in DOMAIN dict, dict = [k \in DOMAIN dict |-> dict[k]]
  PROVE  Put(dict, key, dict[key]) = dict
BY DEF Put

LEMMA PutTwice ==
  ASSUME NEW dict, NEW key, NEW a, NEW b
  PROVE  Put(Put(dict, key, a), key, b) = Put(dict, key, b)
BY DEF Put

\* What inference comes to at each path: the schema of what is seen under it.
Wanted(value) ==
  [path \in DOMAIN value |->
     Put(Shape(SeenUnder(value, path)), Sighting(value, path).at, {JsonType(value[path]), "null"})]

LEMMA WantedOfChild ==
  ASSUME NEW value, IsTree(value), NEW path \in DOMAIN value, NEW child \in Children(value, path)
  PROVE  Wanted(value)[child] = Shape(SeenUnder(value, child))
<1> DEFINE s == Sighting(value, child)
           seen == SeenUnder(value, child)
<1>1. child \in DOMAIN value /\ Len(child) = Len(path) + 1
  BY ChildFacts
<1>2. s.at \in DOMAIN Shape(seen) /\ Shape(seen)[s.at] = {s.type} \cup NullAt(s.at)
  <2> DEFINE below == SeenBelow(value, child)
  <2>1. Above(s, below) /\ seen = below \cup {s}
    BY <1>1, BelowIsAbove
  <2> HIDE DEF s, seen, below
  <2> QED BY <2>1, ShapeAtTop
<1>3. s.at # <<>>
  <2>1. Len(s.at) = Len(Wrapper(value)) + Len(child)
    BY <1>1, SightingFacts
  <2>2. Len(Wrapper(value)) \in Nat /\ Len(path) \in Nat
    BY PathFacts, WrapperType
  <2> HIDE DEF s
  <2>3. Len(s.at) # 0
    BY <1>1, <2>1, <2>2
  <2> QED BY <2>3
<1>4. s.type = JsonType(value[child])
  BY DEF Sighting
<1>5. Wanted(value)[child] = Put(Shape(seen), s.at, {JsonType(value[child]), "null"})
  BY <1>1 DEF Wanted
<1>6. Shape(seen) = [place \in DOMAIN Shape(seen) |-> Shape(seen)[place]]
  BY DEF Shape
<1> HIDE DEF s, seen
<1>7. {JsonType(value[child]), "null"} = Shape(seen)[s.at]
  BY <1>2, <1>3, <1>4 DEF NullAt
<1>8. Wanted(value)[child] = Shape(seen)
  BY <1>2, <1>5, <1>6, <1>7, PutSame
<1> QED BY <1>8 DEF seen

LEMMA InferBelowRecord ==
  ASSUME NEW value, IsTree(value), NEW path \in DOMAIN value,
         value[path].kind = "object", IsRecord(value, path)
  PROVE  InferBelow(value, path, Wanted(value)) = Shape(SeenBelow(value, path))
<1> DEFINE C == Children(value, path)
           schemas == [child \in C |-> Wanted(value)[child]]
           sets == [child \in C |-> SeenUnder(value, child)]
<1>1. SampledChildren(value, path) = C
  <2>1. \A child \in C : IsKey(child[Len(path) + 1])
    BY ChildFacts
  <2> QED BY <2>1 DEF SampledChildren, IsSampled
<1>2. \A child \in C : schemas[child] = Shape(sets[child])
  BY WantedOfChild
<1>3. \A c, d \in C : c # d =>
        \A s \in sets[c], t \in sets[d] : t.at # s.at /\ t.at \notin Enclosing(s.at)
  BY KeysAreApart
<1>4. SeenBelow(value, path) = UNION {sets[child] : child \in C}
  BY <1>1 DEF SeenBelow
<1>5. InferBelow(value, path, Wanted(value)) = Together(schemas)
  BY DEF InferBelow
<1>6. DOMAIN schemas = C
  OBVIOUS
<1> HIDE DEF C, schemas, sets
<1> QED BY <1>2, <1>3, <1>4, <1>5, <1>6, TogetherOfShapes

LEMMA ItemsOfArray ==
  ASSUME NEW value, IsTree(value), NEW path \in DOMAIN value, value[path].kind = "array"
  PROVE  LET count == Min({SampleItems, Cardinality(Children(value, path))})
         IN  /\ count \in Nat
             /\ \A i \in 1..count : Append(path, Item(i)) \in Children(value, path)
             /\ SampledChildren(value, path) = {Append(path, Item(i)) : i \in 1..count}
<1> DEFINE C == Children(value, path)
           size == Cardinality(C)
           count == Min({SampleItems, size})
<1>1. size \in Nat
  <2>1. IsFiniteSet(DOMAIN value) /\ C \subseteq DOMAIN value
    BY DEF IsTree, Children
  <2> HIDE DEF C
  <2>2. IsFiniteSet(C)
    BY <2>1, FS_Subset
  <2> QED BY <2>2, FS_CardinalityType
<1>2. SampleItems \in Nat
  BY OutputConstants DEF OutputConstants
<1>3. count \in Nat /\ \A i \in Nat : i <= count <=> i <= size /\ i <= SampleItems
  <2> HIDE DEF size
  <2>1. {SampleItems, size} \subseteq Nat /\ {SampleItems, size} # {}
    BY <1>1, <1>2
  <2>2. count \in {SampleItems, size} /\ count <= SampleItems /\ count <= size
    BY <2>1, MinOfNaturals
  <2> HIDE DEF count
  <2> QED BY <1>1, <1>2, <2>2
<1>4. C = {Append(path, Item(i)) : i \in 1..size}
  BY DEF IsTree
<1>5. path \in Seq(Step) /\ Len(path) \in Nat
  BY PathFacts
<1>6. ASSUME NEW i \in Nat
      PROVE  IsSampled(Append(path, Item(i))[Len(path) + 1]) <=> i <= SampleItems
  <2>1. Item(i) \in Step
    BY DEF Item, Step
  <2>2. Append(path, Item(i))[Len(path) + 1] = Item(i)
    BY <1>5, <2>1, AppendProperties
  <2> QED BY <2>2, StepKinds DEF IsSampled
<1> HIDE DEF C, size, count
<1>7. \A i \in 1..count : i \in 1..size
  BY <1>1, <1>3
<1>8. \A i \in 1..count : Append(path, Item(i)) \in C
  BY <1>4, <1>7
<1>9. SampledChildren(value, path) = {Append(path, Item(i)) : i \in 1..count}
  <2>1. SampledChildren(value, path) = {child \in C : IsSampled(child[Len(path) + 1])}
    BY DEF SampledChildren, C
  <2>2. ASSUME NEW i \in 1..size
        PROVE  IsSampled(Append(path, Item(i))[Len(path) + 1]) <=> i \in 1..count
    BY <1>1, <1>3, <1>6
  <2>3. ASSUME NEW child \in C, IsSampled(child[Len(path) + 1])
        PROVE  child \in {Append(path, Item(i)) : i \in 1..count}
    <3>1. PICK i \in 1..size : child = Append(path, Item(i))
      BY <1>4
    <3>2. i \in 1..count
      BY <2>2, <2>3, <3>1
    <3> QED BY <3>1, <3>2
  <2>4. ASSUME NEW i \in 1..count
        PROVE  Append(path, Item(i)) \in C /\ IsSampled(Append(path, Item(i))[Len(path) + 1])
    BY <1>7, <1>8, <2>2
  <2> QED BY <2>1, <2>3, <2>4
<1> QED BY <1>3, <1>8, <1>9 DEF C, count, size

LEMMA InferBelowArray ==
  ASSUME NEW value, IsTree(value), NEW path \in DOMAIN value, value[path].kind = "array"
  PROVE  InferBelow(value, path, Wanted(value)) = Shape(SeenBelow(value, path))
<1> DEFINE count == Min({SampleItems, Cardinality(Children(value, path))})
           child(i) == Append(path, Item(i))
           schemas == [i \in 1..count |-> Wanted(value)[child(i)]]
           sets == [i \in 1..count |-> SeenUnder(value, child(i))]
           depth == Len(Wrapper(value)) + (Len(path) + 1)
<1>1. /\ count \in Nat
      /\ \A i \in 1..count : child(i) \in Children(value, path)
      /\ SampledChildren(value, path) = {child(i) : i \in 1..count}
  BY ItemsOfArray
<1>2. InferBelow(value, path, Wanted(value)) = MergeAll(schemas)
  <2>1. ~(value[path].kind = "object" /\ IsRecord(value, path))
    OBVIOUS
  <2> QED BY <2>1 DEF InferBelow
<1> HIDE DEF count
<1>3. ASSUME NEW i \in 1..count PROVE schemas[i] = Shape(sets[i]) /\ Sound(sets[i], depth)
  <2>1. /\ child(i) \in Children(value, path) /\ child(i) \in DOMAIN value
        /\ Len(child(i)) = Len(path) + 1
    BY <1>1, ChildFacts
  <2> HIDE DEF child
  <2>2. schemas[i] = Shape(SeenUnder(value, child(i)))
    BY <2>1, WantedOfChild
  <2>3. Sound(SeenUnder(value, child(i)), Len(Wrapper(value)) + Len(child(i)))
    BY <2>1, SeenUnderIsSound
  <2> QED BY <2>1, <2>2, <2>3
<1>4. SeenBelow(value, path) = AllOf(sets, count)
  <2> HIDE DEF child
  <2> QED BY <1>1 DEF SeenBelow, AllOf
<1>5. Len(schemas) = count
  <2> DEFINE R == {Wanted(value)[child(i)] : i \in 1..count}
  <2>1. schemas \in [1..count -> R]
    OBVIOUS
  <2> HIDE DEF R, schemas
  <2>2. schemas \in Seq(R) /\ DOMAIN schemas = 1..count
    BY <1>1, <2>1
  <2> QED BY <1>1, <2>2, LenProperties
<1>6. depth \in Nat
  <2>1. Len(Wrapper(value)) \in Nat /\ Len(path) \in Nat
    BY PathFacts, WrapperType
  <2> QED BY <2>1
<1> HIDE DEF schemas, sets, depth
<1>7. \A i \in 1..count : Sound(sets[i], depth)
  BY <1>3
<1>8. \A i \in 1..count : schemas[i] = Shape(sets[i])
  BY <1>3
<1>9. count \in Nat
  BY <1>1
<1>10. MergeAll(schemas) = Shape(AllOf(sets, count))
  BY <1>5, <1>6, <1>7, <1>8, <1>9, MergeAllOfShapes
<1> QED BY <1>2, <1>4, <1>10

\* One step of the inference.
LEMMA InferStep ==
  ASSUME NEW value, IsTree(value), NEW path \in DOMAIN value
  PROVE  Put(InferBelow(value, path, Wanted(value)),
             Wrapper(value) \o Place(path), {JsonType(value[path]), "null"}) = Wanted(value)[path]
<1> DEFINE s == Sighting(value, path)
           below == SeenBelow(value, path)
           types == {JsonType(value[path]), "null"}
           inferred == InferBelow(value, path, Wanted(value))
<1>1. Above(s, below) /\ SeenUnder(value, path) = below \cup {s}
  BY BelowIsAbove
<1>2. /\ s.at = Wrapper(value) \o Place(path)
      /\ s.closed <=> value[path].kind = "object" /\ ~IsRecord(value, path)
  BY DEF Sighting
<1>3. Wanted(value)[path] = Put(Shape(below \cup {s}), s.at, types)
  BY <1>1 DEF Wanted
<1>4. CASE s.closed
  <2>1. value[path].kind = "object" /\ inferred = EmptyDict
    BY <1>2, <1>4 DEF InferBelow
  <2>2. \A t \in below : s.at \in Enclosing(t.at)
    BY <2>1, BelowIsEnclosed
  <2> HIDE DEF s, below, types, inferred
  <2>3. Shape(below \cup {s}) = Put(EmptyDict, s.at, {s.type} \cup NullAt(s.at))
    BY <1>1, <1>4, <2>2, ShapeOfClosed
  <2>4. Wanted(value)[path] = Put(inferred, s.at, types)
    BY <1>3, <2>1, <2>3, PutTwice
  <2> QED BY <1>2, <2>4 DEF inferred, types
<1>5. CASE ~s.closed
  <2>1. inferred = Shape(below)
    <3>1. CASE value[path].kind = "object"
      BY <1>2, <1>5, <3>1, InferBelowRecord
    <3>2. CASE value[path].kind = "array"
      BY <3>2, InferBelowArray
    <3>3. CASE value[path].kind \notin {"object", "array"}
      <4>1. SampledChildren(value, path) = {}
        BY <3>3, ChildFacts DEF SampledChildren
      <4>2. below = {}
        BY <4>1 DEF SeenBelow
      <4>3. inferred = EmptyDict
        BY <3>3 DEF InferBelow
      <4> QED BY <4>2, <4>3, NothingIsSound
    <3> QED BY <3>1, <3>2, <3>3
  <2> HIDE DEF s, below, types, inferred
  <2>2. Shape(below \cup {s}) = Put(Shape(below), s.at, {s.type} \cup NullAt(s.at))
    BY <1>1, <1>5, ShapeOfOpen
  <2>3. Wanted(value)[path] = Put(inferred, s.at, types)
    BY <1>3, <2>1, <2>2, PutTwice
  <2> QED BY <1>2, <2>3 DEF inferred, types
<1> QED BY <1>4, <1>5

\* A value is finite, so its paths are of bounded length.
LEMMA PathsAreBounded ==
  ASSUME NEW value, IsTree(value)
  PROVE  \E bound \in Nat : \A path \in DOMAIN value : Len(path) < bound
<1> DEFINE D == DOMAIN value
           Bounds(f, k) == {b \in Nat : \A i \in 1..k : Len(f[i]) < b}
<1>1. \A path \in D : Len(path) \in Nat
  BY PathFacts
<1>2. IsFiniteSet(D)
  BY DEF IsTree
<1> HIDE DEF D
<1>3. PICK n \in Nat : \E f : f \in Bijection(1..n, D)
  BY <1>2, FS_NatBijection DEF ExistsBijection
<1>4. PICK f : f \in Bijection(1..n, D)
  BY <1>3
<1>5. f \in [1..n -> D] /\ \A path \in D : \E i \in 1..n : f[i] = path
  BY <1>4 DEF Bijection, Injection, Surjection
<1> DEFINE T == {k \in 0..n : Bounds(f, k) # {}}
<1>6. 0 \in T
  <2>1. 0 \in Bounds(f, 0)
    OBVIOUS
  <2> QED BY <2>1
<1>7. ASSUME NEW k \in 1..n, k - 1 \in T PROVE k \in T
  <2>1. PICK b \in Nat : \A i \in 1..(k - 1) : Len(f[i]) < b
    BY <1>7
  <2>2. Len(f[k]) \in Nat
    BY <1>1, <1>5
  <2> DEFINE m == Len(f[k])
             c == b + m + 1
  <2>3. c \in Nat /\ b <= c /\ m < c
    BY <2>1, <2>2
  <2>4. ASSUME NEW i \in 1..k PROVE Len(f[i]) < c
    <3>1. CASE i = k
      BY <2>3, <3>1
    <3>2. CASE i # k
      <4>1. i \in 1..(k - 1) /\ i \in 1..n
        BY <3>2
      <4>2. Len(f[i]) < b /\ Len(f[i]) \in Nat
        BY <1>1, <1>5, <2>1, <4>1
      <4> HIDE DEF c
      <4> QED BY <2>1, <2>3, <4>2
    <3> QED BY <3>1, <3>2
  <2> HIDE DEF c
  <2>5. c \in Bounds(f, k)
    BY <2>3, <2>4
  <2>6. k \in 0..n
    OBVIOUS
  <2> HIDE DEF Bounds
  <2> QED BY <2>5, <2>6
<1> HIDE DEF T
<1>8. \A k \in 0..n : k \in T
  BY <1>6, <1>7, BoundedInduction
<1>9. n \in T
  BY <1>8
<1>10. PICK b \in Nat : \A i \in 1..n : Len(f[i]) < b
  BY <1>9 DEF T
<1>11. \A path \in D : Len(path) < b
  BY <1>5, <1>10
<1> QED BY <1>11 DEF D

\* What is inferred at a path depends on what was inferred of the children.
LEMMA InferBelowDepends ==
  ASSUME NEW value, IsTree(value), NEW path \in DOMAIN value, NEW f, NEW g,
         \A child \in Children(value, path) : f[child] = g[child]
  PROVE  InferBelow(value, path, f) = InferBelow(value, path, g)
<1> DEFINE C == Children(value, path)
           count == Min({SampleItems, Cardinality(C)})
<1>1. [child \in C |-> f[child]] = [child \in C |-> g[child]]
  OBVIOUS
<1>2. CASE value[path].kind = "array"
  <2>1. \A i \in 1..count : Append(path, Item(i)) \in C
    BY <1>2, ItemsOfArray
  <2> HIDE DEF count, C
  <2>2. \A i \in 1..count : f[Append(path, Item(i))] = g[Append(path, Item(i))]
    BY <2>1 DEF C
  <2>3. [i \in 1..count |-> f[Append(path, Item(i))]] = [i \in 1..count |-> g[Append(path, Item(i))]]
    BY <2>2
  <2>4. ~(value[path].kind = "object" /\ IsRecord(value, path))
    BY <1>2
  <2>5. /\ InferBelow(value, path, f) = MergeAll([i \in 1..count |-> f[Append(path, Item(i))]])
        /\ InferBelow(value, path, g) = MergeAll([i \in 1..count |-> g[Append(path, Item(i))]])
    BY <1>2, <2>4 DEF InferBelow, count, C
  <2> QED BY <2>3, <2>5
<1>3. CASE value[path].kind # "array"
  <2>1. CASE value[path].kind = "object" /\ IsRecord(value, path)
    BY <1>1, <2>1 DEF InferBelow
  <2>2. CASE ~(value[path].kind = "object" /\ IsRecord(value, path))
    BY <1>3, <2>2 DEF InferBelow
  <2> QED BY <2>1, <2>2
<1> QED BY <1>2, <1>3

\* Inference comes to the schema of what is seen in the value: from the longest
\* paths up, there is one solution to its equations.
LEMMA InferSchemaIsWanted ==
  ASSUME NEW value, IsTree(value)
  PROVE  InferSchema(value, Wrapper(value)) = Wanted(value)[<<>>]
<1> DEFINE D == DOMAIN value
           W == Wanted(value)
           at(path) == Wrapper(value) \o Place(path)
           types(path) == {JsonType(value[path]), "null"}
           next(f, path) == Put(InferBelow(value, path, f), at(path), types(path))
           infer == CHOOSE f : f = [path \in D |-> next(f, path)]
<1>1. \A path \in D : next(W, path) = W[path]
  BY InferStep
<1>2. W = [path \in D |-> W[path]]
  BY DEF Wanted
<1>3. InferSchema(value, Wrapper(value)) = infer[<<>>]
  BY DEF InferSchema
<1>4. <<>> \in D
  BY DEF IsTree
<1>5. ASSUME NEW f, NEW g, NEW path \in D, \A child \in Children(value, path) : f[child] = g[child]
      PROVE  next(f, path) = next(g, path)
  <2>1. InferBelow(value, path, f) = InferBelow(value, path, g)
    BY <1>5, InferBelowDepends
  <2> HIDE DEF at, types
  <2> QED BY <2>1
<1> HIDE DEF next, W
<1>6. W = [path \in D |-> next(W, path)]
  BY <1>1, <1>2
<1>7. infer = [path \in D |-> next(infer, path)]
  BY <1>6
<1> HIDE DEF infer
<1>8. PICK bound \in Nat : \A path \in D : Len(path) < bound
  BY PathsAreBounded
<1> DEFINE T == {k \in Nat : \A path \in D : bound <= Len(path) + k => infer[path] = W[path]}
<1>9. \A path \in D : Len(path) \in Nat
  BY PathFacts
<1>10. 0 \in T
  BY <1>8, <1>9
<1>11. ASSUME NEW k \in T PROVE k + 1 \in T
  <2>1. SUFFICES ASSUME NEW path \in D, bound <= Len(path) + (k + 1)
                 PROVE  infer[path] = W[path]
    BY <1>11
  <2>2. ASSUME NEW child \in Children(value, path) PROVE infer[child] = W[child]
    <3>1. child \in D /\ Len(child) = Len(path) + 1
      BY ChildFacts
    <3>2. Len(path) + (k + 1) = Len(child) + k
      BY <1>9, <1>11, <3>1
    <3> QED BY <1>11, <2>1, <3>1, <3>2
  <2>3. next(infer, path) = next(W, path)
    BY <1>5, <2>2
  <2> QED BY <1>1, <1>7, <2>3
<1>12. T = Nat
  <2>1. T \subseteq Nat
    OBVIOUS
  <2> HIDE DEF T
  <2> QED BY <1>10, <1>11, <2>1, Induction
<1>13. bound <= Len(<<>>) + bound
  BY <1>8
<1>14. infer[<<>>] = W[<<>>]
  BY <1>4, <1>8, <1>12, <1>13
<1> QED BY <1>3, <1>14 DEF W

-----------------------------------------------------------------------------
(* Results.                                                                *)

LEMMA SeenInResult ==
  ASSUME NEW result, IsTree(result)
  PROVE  /\ <<>> \in DOMAIN result
         /\ Sighting(result, <<>>).at = Wrapper(result)
         /\ SeenUnder(result, <<>>) =
              {Sighting(result, path) : path \in {p \in DOMAIN result : Sampled(p)}}
         /\ Above(Sighting(result, <<>>), SeenBelow(result, <<>>))
         /\ SeenUnder(result, <<>>) = SeenBelow(result, <<>>) \cup {Sighting(result, <<>>)}
<1>1. <<>> \in DOMAIN result
  BY DEF IsTree
<1>2. Sighting(result, <<>>).at = Wrapper(result)
  <2>1. /\ Sighting(result, <<>>).at \in Seq(Step)
        /\ Len(Sighting(result, <<>>).at) = Len(Wrapper(result)) + Len(<<>>)
        /\ \A n \in 1..Len(Wrapper(result)) : Sighting(result, <<>>).at[n] = Wrapper(result)[n]
    BY <1>1, SightingFacts
  <2>2. Wrapper(result) \in Seq(Step) /\ Len(Wrapper(result)) \in Nat
    BY WrapperType
  <2>3. Len(Sighting(result, <<>>).at) = Len(Wrapper(result))
    BY <2>1, <2>2
  <2> QED BY <2>1, <2>2, <2>3, SeqEqual
<1>3. ASSUME NEW p \in DOMAIN result PROVE p \in Under(result, <<>>) <=> Sampled(p)
  <2>1. p \in Seq(Step) /\ Len(p) \in Nat /\ DOMAIN p = 1..Len(p)
    BY PathFacts
  <2>2. Len(<<>>) = 0 /\ (Len(<<>>) + 1)..Len(p) = 1..Len(p)
    OBVIOUS
  <2>3. Sampled(p) <=> \A n \in 1..Len(p) : IsSampled(p[n])
    BY <2>1 DEF Sampled, IsSampled
  <2>4. p \in Under(result, <<>>) <=> \A n \in 1..Len(p) : IsSampled(p[n])
    BY <2>1, <2>2 DEF Under
  <2> QED BY <2>3, <2>4
<1>4. Under(result, <<>>) = {p \in DOMAIN result : Sampled(p)}
  <2>1. Under(result, <<>>) \subseteq DOMAIN result
    BY DEF Under
  <2> QED BY <1>3, <2>1
<1> QED BY <1>1, <1>2, <1>4, BelowIsAbove DEF SeenUnder

LEMMA EmptyEncloses == \A r : r \notin Enclosing(<<>>)
BY DEF Enclosing

LEMMA WrapperIsAbove ==
  ASSUME NEW result, IsTree(result), Wrapper(result) # <<>>
  PROVE  Above(WrapperSighting, SeenUnder(result, <<>>))
<1>1. /\ Wrapper(result) = <<Key("result")>>
      /\ Len(Wrapper(result)) = 1
  BY DEF Wrapper
<1>2. <<>> \in DOMAIN result
  BY SeenInResult
<1>3. Sound(SeenUnder(result, <<>>), Len(Wrapper(result)) + Len(<<>>))
  BY <1>2, SeenUnderIsSound
<1>4. Len(Wrapper(result)) + Len(<<>>) = 1
  BY <1>1
<1>5. \A t \in SeenUnder(result, <<>>) : t.at \in Seq(Step) /\ Len(t.at) >= 1
  BY <1>3, <1>4 DEF Sound
<1>6. WrapperSighting.at = <<>> /\ <<>> \in Seq(Step) /\ Len(<<>>) = 0
  BY DEF WrapperSighting
<1> QED BY <1>5, <1>6 DEF Above

LEMMA SightingsAreSound ==
  ASSUME NEW result, IsTree(result)
  PROVE  Sound(Sightings(result), 0)
<1> DEFINE seen == SeenUnder(result, <<>>)
<1>1. /\ <<>> \in DOMAIN result
      /\ Sightings(result) = seen \cup (IF Wrapper(result) = <<>> THEN {} ELSE {WrapperSighting})
      /\ Sighting(result, <<>>) \in seen
      /\ Sighting(result, <<>>).at = Wrapper(result)
  BY SeenInResult DEF Sightings
<1>2. Sound(seen, Len(Wrapper(result)) + Len(<<>>))
  BY <1>1, SeenUnderIsSound
<1> HIDE DEF seen
<1>3. CASE Wrapper(result) = <<>>
  <2>1. Len(Wrapper(result)) + Len(<<>>) = 0
    BY <1>3
  <2>2. Sightings(result) = seen
    BY <1>1, <1>3
  <2> QED BY <1>2, <2>1, <2>2
<1>4. CASE Wrapper(result) # <<>>
  <2> DEFINE w == WrapperSighting
             U == seen \cup {w}
             top == Sighting(result, <<>>)
  <2>1. Wrapper(result) = <<Key("result")>>
    BY <1>4 DEF Wrapper
  <2>2. Len(Wrapper(result)) + Len(<<>>) = 1
    BY <2>1
  <2>3. Sound(seen, 1)
    BY <1>2, <2>2
  <2>4. w.at = <<>> /\ w.type = "object" /\ ~w.closed
    BY DEF WrapperSighting
  <2>5. Sightings(result) = U
    BY <1>1, <1>4
  <2>6. top.at # <<>> /\ Front(top.at) = <<>> /\ IsKey(Last(top.at))
    <3>1. top.at = <<Key("result")>>
      BY <1>1, <2>1
    <3>2. Front(<<Key("result")>>) = <<>>
      BY DEF Front
    <3>3. Last(<<Key("result")>>) = Key("result")
      BY DEF Last
    <3> HIDE DEF top
    <3> QED BY <3>1, <3>2, <3>3 DEF IsKey, Key
  <2> HIDE DEF w, top
  <2>7. \A s \in U : s.at \in Seq(Step) /\ Len(s.at) >= 0
    <3>1. w.at \in Seq(Step) /\ Len(w.at) >= 0
      BY <2>4
    <3>2. \A s \in seen : s.at \in Seq(Step) /\ Len(s.at) >= 0
      BY <2>3 DEF Sound
    <3> QED BY <3>1, <3>2
  <2>8. \A s \in U : s.closed => s.type = "object"
    BY <2>3, <2>4 DEF Sound
  <2>9. ASSUME NEW s \in U, NEW r \in Enclosing(s.at)
        PROVE  \E t \in U : t.at = r /\ t.type = "object"
    <3>1. s \in seen
      BY <2>4, EmptyEncloses
    <3>2. r \in Seq(Step)
      BY <2>7, EnclosingAbove
    <3>3. CASE r = <<>>
      BY <2>4, <3>3
    <3>4. CASE r # <<>>
      <4>1. Len(r) >= 1
        BY <3>2, <3>4
      <4> QED BY <2>3, <3>1, <4>1 DEF Sound
    <3> QED BY <3>3, <3>4
  <2>10. ASSUME NEW s \in U, s.type = "object", ~s.closed
         PROVE  \E t \in U : t.at # <<>> /\ Front(t.at) = s.at /\ IsKey(Last(t.at))
    <3>1. CASE s = w
      BY <1>1, <2>4, <2>6, <3>1 DEF top
    <3>2. CASE s \in seen
      BY <2>3, <2>10, <3>2 DEF Sound
    <3> QED BY <3>1, <3>2
  <2> HIDE DEF U
  <2>11. Sound(U, 0)
    BY <2>7, <2>8, <2>9, <2>10 DEF Sound
  <2> QED BY <2>5, <2>11
<1> QED BY <1>3, <1>4

\* The schema of a result is the shape of what is seen in it.
LEMMA SchemaForResultIsShape ==
  ASSUME NEW result, IsTree(result)
  PROVE  SchemaForResult(result) = Shape(Sightings(result))
<1> DEFINE seen == SeenUnder(result, <<>>)
           s == Sighting(result, <<>>)
           types == {JsonType(result[<<>>]), "null"}
           shape == Shape(seen)
<1>1. /\ <<>> \in DOMAIN result /\ s.at = Wrapper(result)
      /\ Sightings(result) = seen \cup (IF Wrapper(result) = <<>> THEN {} ELSE {WrapperSighting})
  BY SeenInResult DEF Sightings
<1>2. s.at \in DOMAIN shape /\ shape[s.at] = {s.type} \cup NullAt(s.at)
  <2> DEFINE below == SeenBelow(result, <<>>)
  <2>1. Above(s, below) /\ seen = below \cup {s}
    BY SeenInResult
  <2> HIDE DEF s, seen, below
  <2> QED BY <2>1, ShapeAtTop
<1>3. SchemaForResult(result) = Put(Put(shape, s.at, types), <<>>, {"object"})
  <2>1. InferSchema(result, Wrapper(result)) = Put(shape, s.at, types)
    BY <1>1, InferSchemaIsWanted DEF Wanted
  <2> QED BY <2>1 DEF SchemaForResult
<1>4. shape = [place \in DOMAIN shape |-> shape[place]]
  BY DEF Shape
<1>5. s.type = JsonType(result[<<>>])
  BY DEF Sighting
<1>6. CASE Wrapper(result) = <<>>
  <2>1. result[<<>>].kind = "object"
    BY <1>6 DEF Wrapper
  <2>2. s.type = "object"
    BY <1>5, <2>1 DEF JsonType
  <2> HIDE DEF s, seen, types, shape
  <2>3. <<>> \in DOMAIN shape /\ shape[<<>>] = {"object"}
    BY <1>1, <1>2, <1>6, <2>2 DEF NullAt
  <2>4. SchemaForResult(result) = Put(shape, <<>>, {"object"})
    BY <1>1, <1>3, <1>6, PutTwice
  <2>5. Put(shape, <<>>, shape[<<>>]) = shape
    BY <1>4, <2>3, PutSame
  <2>6. Sightings(result) = seen
    BY <1>1, <1>6
  <2> QED BY <2>3, <2>4, <2>5, <2>6 DEF shape
<1>7. CASE Wrapper(result) # <<>>
  <2>1. Above(WrapperSighting, seen) /\ ~WrapperSighting.closed
    BY <1>7, WrapperIsAbove DEF WrapperSighting
  <2>2. WrapperSighting.at = <<>> /\ WrapperSighting.type = "object"
    BY DEF WrapperSighting
  <2>3. Shape(seen \cup {WrapperSighting}) =
          Put(Shape(seen), WrapperSighting.at, {WrapperSighting.type} \cup NullAt(WrapperSighting.at))
    <3> HIDE DEF seen
    <3> QED BY <2>1, ShapeOfOpen
  <2>4. {WrapperSighting.type} \cup NullAt(WrapperSighting.at) = {"object"}
    BY <2>2 DEF NullAt
  <2>5. types = shape[s.at]
    <3> HIDE DEF s, shape
    <3> QED BY <1>1, <1>2, <1>5, <1>7 DEF NullAt
  <2> HIDE DEF s, types
  <2>6. Put(shape, s.at, types) = shape
    <3> HIDE DEF shape
    <3> QED BY <1>2, <1>4, <2>5, PutSame
  <2>7. Sightings(result) = seen \cup {WrapperSighting}
    BY <1>1, <1>7
  <2>8. SchemaForResult(result) = Put(Shape(seen), <<>>, {"object"})
    BY <1>3, <2>6
  <2> HIDE DEF seen, shape
  <2> QED BY <2>2, <2>3, <2>4, <2>7, <2>8
<1> QED BY <1>6, <1>7

-----------------------------------------------------------------------------
(* The captures.                                                           *)

LEMMA ShapesAreSound ==
  ASSUME NEW results, \A result \in results : IsTree(result)
  PROVE  Sound(UNION {Sightings(result) : result \in results}, 0)
<1> DEFINE sets == [result \in results |-> Sightings(result)]
<1>1. \A result \in results : Sound(sets[result], 0)
  BY SightingsAreSound
<1>2. UNION {Sightings(result) : result \in results} = UNION {sets[result] : result \in results}
  OBVIOUS
<1> HIDE DEF sets
<1>3. 0 \in Nat
  OBVIOUS
<1>4. Sound(UNION {sets[result] : result \in results}, 0)
  BY <1>1, <1>3, SoundUnions
<1> QED BY <1>2, <1>4

LEMMA ShapeOfNothing == ShapeOf({}) = EmptyDict
<1>1. UNION {Sightings(result) : result \in {}} = {}
  OBVIOUS
<1> QED BY <1>1, NothingIsSound DEF ShapeOf

\* A capture adds its result to those a schema stands for.
LEMMA CaptureAdds ==
  ASSUME NEW results, \A r \in results : IsTree(r), NEW result, IsTree(result)
  PROVE  MergeSchemas(ShapeOf(results), SchemaForResult(result)) = ShapeOf(results \cup {result})
<1> DEFINE S == UNION {Sightings(r) : r \in results}
           T == Sightings(result)
<1>1. Sound(S, 0) /\ Sound(T, 0) /\ 0 \in Nat
  BY ShapesAreSound, SightingsAreSound
<1>2. UNION {Sightings(r) : r \in results \cup {result}} = S \cup T
  OBVIOUS
<1>3. SchemaForResult(result) = Shape(T)
  BY SchemaForResultIsShape
<1> HIDE DEF S, T
<1>4. MergeSchemas(Shape(S), Shape(T)) = Shape(S \cup T)
  BY <1>1, MergeOfShapes
<1>5. ShapeOf(results) = Shape(S) /\ ShapeOf(results \cup {result}) = Shape(S \cup T)
  BY <1>2 DEF ShapeOf, S
<1> QED BY <1>3, <1>4, <1>5

\* The schemas are those of the tools that were captured, each the shape of the
\* results of its tool.
Distilled(schemas, results) ==
  /\ DOMAIN schemas = DOMAIN results /\ DOMAIN results \subseteq ReadTool
  /\ \A tool \in DOMAIN results :
       results[tool] \subseteq ResultsOf[tool] /\ schemas[tool] = ShapeOf(results[tool])

LEMMA NothingDistilled == Distilled(EmptyDict, EmptyDict)
BY DEF Distilled, EmptyDict

LEMMA CaptureDistills ==
  ASSUME NEW schemas, NEW results, Distilled(schemas, results),
         NEW tool \in ReadTool, NEW result \in ResultsOf[tool]
  PROVE  Distilled(Put(schemas, tool, MergeSchemas(Get(schemas, tool, EmptyDict),
                                                   SchemaForResult(result))),
                   Put(results, tool, Get(results, tool, {}) \cup {result}))
<1> DEFINE old == Get(results, tool, {})
           schema == MergeSchemas(Get(schemas, tool, EmptyDict), SchemaForResult(result))
           after == Put(results, tool, old \cup {result})
           merged == Put(schemas, tool, schema)
<1>1. \A r \in ResultsOf[tool] : IsTree(r)
  BY OutputConstants DEF OutputConstants
<1>2. old \subseteq ResultsOf[tool] /\ Get(schemas, tool, EmptyDict) = ShapeOf(old)
  <2>1. CASE tool \in DOMAIN results
    BY <2>1 DEF Distilled, Get
  <2>2. CASE tool \notin DOMAIN results
    <3>1. old = {} /\ Get(schemas, tool, EmptyDict) = EmptyDict
      BY <2>2 DEF Distilled, Get
    <3> HIDE DEF old
    <3> QED BY <3>1, ShapeOfNothing
  <2> QED BY <2>1, <2>2
<1> HIDE DEF old
<1>3. schema = ShapeOf(old \cup {result})
  <2>1. IsTree(result) /\ \A r \in old : IsTree(r)
    BY <1>1, <1>2
  <2>2. MergeSchemas(ShapeOf(old), SchemaForResult(result)) = ShapeOf(old \cup {result})
    BY <2>1, CaptureAdds
  <2> QED BY <1>2, <2>2
<1> HIDE DEF schema
<1>4. /\ DOMAIN merged = DOMAIN schemas \cup {tool} /\ DOMAIN after = DOMAIN results \cup {tool}
      /\ merged[tool] = schema /\ after[tool] = old \cup {result}
      /\ \A other \in DOMAIN results : other # tool =>
           after[other] = results[other] /\ merged[other] = schemas[other]
  BY DEF Put, Distilled
<1> HIDE DEF merged, after
<1>5. DOMAIN merged = DOMAIN after /\ DOMAIN after \subseteq ReadTool
  BY <1>4 DEF Distilled
<1>6. ASSUME NEW other \in DOMAIN after
      PROVE  after[other] \subseteq ResultsOf[other] /\ merged[other] = ShapeOf(after[other])
  <2>1. CASE other = tool
    BY <1>2, <1>3, <1>4, <2>1
  <2>2. CASE other # tool
    <3>1. other \in DOMAIN results
      BY <1>4, <2>2
    <3> QED BY <1>4, <2>2, <3>1 DEF Distilled
  <2> QED BY <2>1, <2>2
<1>7. Distilled(merged, after)
  BY <1>5, <1>6 DEF Distilled
<1> QED BY <1>7 DEF merged, after, old, schema

Running ==
  /\ capture = [running |-> TRUE, left |-> capture.left, schemas |-> capture.schemas,
                results |-> capture.results]
  /\ capture.left \subseteq ReadTool
  /\ DOMAIN capture.results \cap capture.left = {}
  /\ Distilled(capture.schemas, observed.run)

\* The inductive invariant: the file and the run are distilled each from what
\* was observed for it, and a torn file stands for nothing.
OutputInv ==
  /\ schemaFile = [whole |-> schemaFile.whole, schemas |-> schemaFile.schemas]
  /\ schemaFile.whole \in BOOLEAN
  /\ observed = [file |-> observed.file, run |-> observed.run]
  /\ captures \in 0..MaxCaptures
  /\ Distilled(schemaFile.schemas, observed.file)
  /\ ~schemaFile.whole => DOMAIN observed.file = {}
  /\ capture = NoCapture \/ Running

LEMMA OutputInvInit == OutputInit => OutputInv
<1> SUFFICES ASSUME OutputInit PROVE OutputInv
  OBVIOUS
<1>1. schemaFile = [whole |-> TRUE, schemas |-> EmptyDict] /\ observed = [file |-> EmptyDict, run |-> EmptyDict]
  BY DEF OutputInit, NoFile
<1>2. capture = NoCapture /\ captures = 0 /\ 0 \in 0..MaxCaptures
  BY OutputConstants DEF OutputInit, OutputConstants
<1>3. Distilled(schemaFile.schemas, observed.file)
  BY <1>1, NothingDistilled
<1> QED BY <1>1, <1>2, <1>3 DEF OutputInv

LEMMA OutputInvNext == OutputInv /\ [OutputNext]_outputVars => OutputInv'
<1> SUFFICES ASSUME OutputInv, [OutputNext]_outputVars PROVE OutputInv'
  OBVIOUS
<1>1. ~NoCapture.running
  BY DEF NoCapture
<1>2. CASE StartCapture
  <2>1. /\ capture' = [running |-> TRUE, left |-> ReadTool, schemas |-> schemaFile.schemas,
                       results |-> EmptyDict]
        /\ captures' = captures + 1 /\ captures < MaxCaptures
        /\ observed' = [observed EXCEPT !.run = observed.file]
        /\ schemaFile' = schemaFile
    BY <1>2 DEF StartCapture
  <2>2. observed' = [file |-> observed.file, run |-> observed.file]
    BY <2>1 DEF OutputInv
  <2>3. captures' \in 0..MaxCaptures
    BY <2>1, OutputConstants DEF OutputInv, OutputConstants
  <2>4. DOMAIN EmptyDict = {}
    BY DEF EmptyDict
  <2>5. Running'
    BY <2>1, <2>2, <2>4 DEF OutputInv, Running
  <2> QED BY <2>1, <2>2, <2>3, <2>5 DEF OutputInv
<1>3. ASSUME NEW tool \in ReadTool, SkipOrFail(tool) PROVE OutputInv'
  <2>1. /\ capture' = [capture EXCEPT !.left = @ \ {tool}]
        /\ schemaFile' = schemaFile /\ captures' = captures /\ observed' = observed
        /\ capture.running
    BY <1>3 DEF SkipOrFail, Reached
  <2>2. Running
    BY <1>1, <2>1 DEF OutputInv
  <2>3. Running'
    BY <2>1, <2>2 DEF Running
  <2> QED BY <2>1, <2>3 DEF OutputInv
<1>4. ASSUME NEW tool \in ReadTool, NEW result \in ResultsOf[tool], CaptureTool(tool, result)
      PROVE  OutputInv'
  <2> DEFINE schema == MergeSchemas(Get(capture.schemas, tool, EmptyDict), SchemaForResult(result))
             schemas == Put(capture.schemas, tool, schema)
             run == Put(observed.run, tool, Get(observed.run, tool, {}) \cup {result})
             results == Put(capture.results, tool, result)
  <2>1. /\ capture' = [capture EXCEPT !.left = @ \ {tool}, !.results = results, !.schemas = schemas]
        /\ observed' = [observed EXCEPT !.run = run]
        /\ schemaFile' = schemaFile /\ captures' = captures
        /\ capture.running
    BY <1>4 DEF CaptureTool, Reached
  <2>2. Running
    BY <1>1, <2>1 DEF OutputInv
  <2>3. Distilled(schemas, run)
    BY <2>2, CaptureDistills DEF Running
  <2>4. DOMAIN results = DOMAIN capture.results \cup {tool}
    BY DEF Put
  <2> HIDE DEF schemas, run, results
  <2>5. capture' = [running |-> TRUE, left |-> capture.left \ {tool}, schemas |-> schemas,
                    results |-> results]
    BY <2>1, <2>2 DEF Running
  <2>6. observed' = [file |-> observed.file, run |-> run]
    BY <2>1 DEF OutputInv
  <2>7. Running'
    BY <2>2, <2>3, <2>4, <2>5, <2>6 DEF Running
  <2> QED BY <2>1, <2>6, <2>7 DEF OutputInv
<1>5. CASE WriteSchemas
  <2>1. /\ schemaFile' = [whole |-> TRUE, schemas |-> capture.schemas]
        /\ capture' = NoCapture /\ captures' = captures
        /\ observed' = [file |-> observed.run, run |-> EmptyDict]
        /\ capture.running
    BY <1>5 DEF WriteSchemas
  <2>2. Running
    BY <1>1, <2>1 DEF OutputInv
  <2> QED BY <2>1, <2>2 DEF OutputInv, Running
<1>6. CASE KillCapture
  <2>1. capture' = NoCapture /\ captures' = captures
    BY <1>6 DEF KillCapture
  <2>2. CASE UNCHANGED <<schemaFile, observed>>
    BY <2>1, <2>2 DEF OutputInv
  <2>3. CASE /\ schemaFile' = [whole |-> FALSE, schemas |-> EmptyDict]
             /\ observed' = [file |-> EmptyDict, run |-> EmptyDict]
    <3>1. DOMAIN EmptyDict = {}
      BY DEF EmptyDict
    <3> QED BY <2>1, <2>3, <3>1, NothingDistilled DEF OutputInv
  <2> QED BY <1>6, <2>2, <2>3 DEF KillCapture
<1>7. CASE DeleteTornFile
  <2>1. /\ ~schemaFile.whole
        /\ schemaFile' = [whole |-> TRUE, schemas |-> EmptyDict]
        /\ capture' = capture /\ captures' = captures /\ observed' = observed
    BY <1>7 DEF DeleteTornFile, NoFile
  <2>2. Distilled(EmptyDict, observed.file)
    <3>1. DOMAIN observed.file = {} /\ DOMAIN EmptyDict = {}
      BY <2>1 DEF OutputInv, EmptyDict
    <3> QED BY <3>1 DEF Distilled
  <2>3. capture = NoCapture \/ Running'
    BY <2>1 DEF OutputInv, Running
  <2> QED BY <2>1, <2>2, <2>3 DEF OutputInv
<1>8. CASE UNCHANGED outputVars
  BY <1>8 DEF outputVars, OutputInv, Running
<1> QED BY <1>2, <1>3, <1>4, <1>5, <1>6, <1>7, <1>8 DEF OutputNext

LEMMA OutputInvariant == OutputSpec => []OutputInv
BY OutputInvInit, OutputInvNext, PTL DEF OutputSpec

\* The file has schemas of read tools only, and no run captures a tool twice.
THEOREM OutputTypes == OutputSpec => []OutputTypeOK
<1>1. OutputInv => OutputTypeOK
  <2> SUFFICES ASSUME OutputInv PROVE OutputTypeOK
    OBVIOUS
  <2>1. DOMAIN schemaFile.schemas \subseteq ReadTool
    BY DEF OutputInv, Distilled
  <2>2. CASE capture = NoCapture
    BY <2>1, <2>2 DEF OutputInv, OutputTypeOK, NoCapture
  <2>3. CASE Running
    BY <2>1, <2>3 DEF OutputInv, OutputTypeOK, Running
  <2> QED BY <2>2, <2>3 DEF OutputInv
<1> QED BY <1>1, OutputInvariant, PTL

\* merge_schemas over any results, captured in any order in any number of runs
\* with kills between them, comes to what the set of the results determines.
THEOREM SchemasDoNotDependOnOrder == OutputSpec => []SchemasAreOrderFree
<1>1. OutputInv => SchemasAreOrderFree
  <2> SUFFICES ASSUME OutputInv PROVE SchemasAreOrderFree
    OBVIOUS
  <2>1. \A tool \in DOMAIN observed.file : schemaFile.schemas[tool] = ShapeOf(observed.file[tool])
    BY DEF OutputInv, Distilled
  <2>2. capture.running => \A tool \in DOMAIN observed.run :
          capture.schemas[tool] = ShapeOf(observed.run[tool])
    BY DEF OutputInv, NoCapture, Running, Distilled
  <2> QED BY <2>1, <2>2 DEF SchemasAreOrderFree
<1> QED BY <1>1, OutputInvariant, PTL

\* A shape accepts each of the results it is of, when they were seen in full.
LEMMA ShapeAccepts ==
  ASSUME NEW results, NEW result \in results, IsTree(result), FullySampled(result)
  PROVE  Accepts(ShapeOf(results), result)
<1> DEFINE seen == UNION {Sightings(r) : r \in results}
           schema == Shape(seen)
<1>1. Sightings(result) \subseteq seen
  OBVIOUS
<1>2. ASSUME NEW s \in Sightings(result), s.at \in DOMAIN schema PROVE s.type \in schema[s.at]
  <2>1. s \in seen
    BY <1>1
  <2> HIDE DEF seen
  <2>2. schema[s.at] = {t.type : t \in {t \in seen : t.at = s.at}} \cup NullAt(s.at)
    BY <1>2, ShapeFacts
  <2> QED BY <2>1, <2>2
<1> HIDE DEF schema
<1>3. ASSUME NEW path \in DOMAIN result, Wrapper(result) \o Place(path) \in DOMAIN schema
      PROVE  \E type \in schema[Wrapper(result) \o Place(path)] : KindIs(result[path], type)
  <2> DEFINE s == Sighting(result, path)
  <2>1. Sampled(path)
    BY DEF FullySampled
  <2>2. s \in Sightings(result)
    BY <2>1 DEF Sightings
  <2>3. s.at = Wrapper(result) \o Place(path) /\ s.type = JsonType(result[path])
    BY DEF Sighting
  <2> HIDE DEF s
  <2>4. JsonType(result[path]) \in schema[Wrapper(result) \o Place(path)]
    BY <1>2, <1>3, <2>2, <2>3
  <2>5. KindIs(result[path], JsonType(result[path]))
    BY DEF KindIs, JsonType
  <2> QED BY <2>4, <2>5
<1>4. ASSUME <<>> \in DOMAIN schema PROVE "object" \in schema[<<>>]
  <2>1. \E s \in Sightings(result) : s.at = <<>> /\ s.type = "object"
    <3>1. CASE Wrapper(result) = <<>>
      <4>1. result[<<>>].kind = "object"
        BY <3>1 DEF Wrapper
      <4>2. <<>> \in DOMAIN result /\ Sighting(result, <<>>).at = <<>>
        BY <3>1, SeenInResult
      <4>3. Sighting(result, <<>>) \in Sightings(result)
        BY <4>2 DEF Sightings, FullySampled
      <4>4. Sighting(result, <<>>).type = "object"
        BY <4>1 DEF Sighting, JsonType
      <4> QED BY <4>2, <4>3, <4>4
    <3>2. CASE Wrapper(result) # <<>>
      <4>1. WrapperSighting \in Sightings(result)
        BY <3>2 DEF Sightings
      <4>2. WrapperSighting.at = <<>> /\ WrapperSighting.type = "object"
        BY DEF WrapperSighting
      <4> QED BY <4>1, <4>2
    <3> QED BY <3>1, <3>2
  <2> QED BY <1>2, <1>4, <2>1
<1>5. Accepts(schema, result)
  BY <1>3, <1>4 DEF Accepts
<1> QED BY <1>5 DEF schema, ShapeOf

\* The advertised output schema of a tool accepts every result it was distilled
\* from, whatever the tools return and however the captures went.
THEOREM CapturedResultsConform == OutputSpec => []ResultsConform
<1>1. OutputInv => ResultsConform
  <2> SUFFICES ASSUME OutputInv, NEW tool \in DOMAIN observed.file,
                      NEW result \in observed.file[tool], FullySampled(result)
               PROVE  Accepts(Advertised(tool), result)
    BY DEF ResultsConform
  <2>1. /\ tool \in DOMAIN schemaFile.schemas /\ tool \in ReadTool
        /\ observed.file[tool] \subseteq ResultsOf[tool]
        /\ schemaFile.schemas[tool] = ShapeOf(observed.file[tool])
    BY DEF OutputInv, Distilled
  <2>2. schemaFile.whole
    BY DEF OutputInv
  <2>3. Advertised(tool) = ShapeOf(observed.file[tool])
    BY <2>1, <2>2 DEF Advertised, Get
  <2>4. IsTree(result)
    BY <2>1, OutputConstants DEF OutputConstants
  <2> QED BY <2>3, <2>4, ShapeAccepts
<1> QED BY <1>1, OutputInvariant, PTL

=============================================================================
