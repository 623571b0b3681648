--------------------------------- MODULE Dicts ---------------------------------
(***************************************************************************)
(* Python's dictionaries, as functions from their keys.                    *)
(***************************************************************************)

\* d[key] = value
WithEntry(d, key, value) == [k \in DOMAIN d \cup {key} |-> IF k = key THEN value ELSE d[k]]

\* d.pop(key, None)
WithoutEntry(d, key) == [k \in DOMAIN d \ {key} |-> d[k]]

\* d.get(key, default)
Lookup(d, key, default) == IF key \in DOMAIN d THEN d[key] ELSE default
================================================================================
