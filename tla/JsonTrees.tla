----------------------------- MODULE JsonTrees -----------------------------
(***************************************************************************)
(* JSON as trees.  A value is the function from its paths, sequences of    *)
(* steps into objects and arrays, to the node found there: an atom, or the *)
(* kind alone of an object or an array.  A schema that says nothing but    *)
(* "type", "properties" and "items" is the function from its places to the *)
(* types each allows: the path of a value leads to a place, where one      *)
(* schema stands for all the items of an array.                            *)
(***************************************************************************)
EXTENDS Naturals, FiniteSets, SequencesExt, Dicts, JsonAtoms

CONSTANT FieldName     \* the keys of objects

Key(name) == <<"key", name>>
Item(i) == <<"item", i>>
AnyItem == Item(0)     \* "items"
Step == ({"key"} \X FieldName) \cup ({"item"} \X Nat)
IsKey(step) == step[1] = "key"

Children(tree, path) == {child \in DOMAIN tree : child # <<>> /\ Front(child) = path}

\* A JSON value: whatever has a child is an object or an array, and the items
\* of an array are numbered from 1.
IsTree(tree) ==
  /\ IsFiniteSet(DOMAIN tree) /\ <<>> \in DOMAIN tree
  /\ \A path \in DOMAIN tree :
       /\ path \in Seq(Step)
       /\ \A n \in DOMAIN path :
            LET above == SubSeq(path, 1, n - 1)
            IN  /\ above \in DOMAIN tree
                /\ tree[above].kind = IF IsKey(path[n]) THEN "object" ELSE "array"
       /\ tree[path].kind = "array" =>
            Children(tree, path) =
              {Append(path, Item(i)) : i \in 1..Cardinality(Children(tree, path))}

\* Where a schema speaks of what is at a path.
Place(path) == [n \in DOMAIN path |-> IF IsKey(path[n]) THEN path[n] ELSE AnyItem]

\* The places of the objects a place is a property of, or lies in.
Enclosing(place) == {SubSeq(place, 1, n - 1) : n \in {m \in DOMAIN place : IsKey(place[m])}}

\* The "properties" an object has in a schema.
PropertiesAt(schema, place) == {p \in DOMAIN schema : p # <<>> /\ Front(p) = place /\ IsKey(Last(p))}

=============================================================================
