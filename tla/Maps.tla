-------------------------------- MODULE Maps --------------------------------
(***************************************************************************)
(* std::unordered_map as a partial function: its keys are the DOMAIN.      *)
(***************************************************************************)

EmptyMap == [k \in {} |-> k]

\* m[key] = value: inserts or overwrites.
Put(m, key, value) ==
  [k \in DOMAIN m \cup {key} |-> IF k = key THEN value ELSE m[k]]

\* m[key] = value, for every entry of news.
PutAll(m, news) ==
  [k \in DOMAIN m \cup DOMAIN news |-> IF k \in DOMAIN news THEN news[k] ELSE m[k]]

\* emplace(key, value): what is there already stays.
Emplace(m, key, value) == IF key \in DOMAIN m THEN m ELSE Put(m, key, value)

\* erase, for every key in keys.
Erase(m, keys) == [k \in DOMAIN m \ keys |-> m[k]]
=============================================================================
