------------------------------- MODULE Dicts -------------------------------
(***************************************************************************)
(* The Python dictionaries of the two services, as functions whose domain  *)
(* is the set of keys present.  Only the operations the code performs on   *)
(* them are here; each returns the dictionary after the operation.         *)
(***************************************************************************)
EXTENDS Functions

\* {}
EmptyDict == [k \in {} |-> k]

\* dict[key] = value
Put(dict, key, value) ==
  [k \in DOMAIN dict \cup {key} |-> IF k = key THEN value ELSE dict[k]]

\* for key in keys: dict.pop(key, None)
Pop(dict, keys) == Restrict(dict, DOMAIN dict \ keys)

\* {k: v for k, v in dict.items() if k in keys}
Keep(dict, keys) == Restrict(dict, DOMAIN dict \cap keys)

\* dict.get(key, default)
Get(dict, key, default) == IF key \in DOMAIN dict THEN dict[key] ELSE default

=============================================================================
