-------------------------- MODULE IdentityRegistry --------------------------
(***************************************************************************)
(* What the server promises about player identities, without peers, slots  *)
(* tables or heartbeats: a name gets an identity the first time it signs   *)
(* in, keeps it for the life of the process, and at most one signed-in     *)
(* name uses an identity at a time.                                        *)
(*                                                                         *)
(* SessionManager is shown to implement this module.                       *)
(***************************************************************************)

CONSTANTS Names, Ids

VARIABLES
  identity,   \* the identity of every name that ever signed in
  online      \* the names signed in now

vars == <<identity, online>>

Init ==
  /\ identity = [n \in {} |-> n]
  /\ online = {}

InUse(id) == \E m \in online : identity[m] = id

\* A known name gets its identity back, a new one any identity not in use.
SignIn(n, id) ==
  /\ n \notin online
  /\ ~InUse(id)
  /\ n \in DOMAIN identity => identity[n] = id
  /\ online' = online \cup {n}
  /\ identity' = [m \in DOMAIN identity \cup {n} |->
                    IF m = n THEN id ELSE identity[m]]

\* Any number of names may leave together: one by one when they hang up, many
\* at once when they have fallen silent.
SignOut(S) ==
  /\ S \subseteq online
  /\ online' = online \ S
  /\ UNCHANGED identity

Next ==
  \/ \E n \in Names, id \in Ids : SignIn(n, id)
  \/ \E S \in SUBSET Names : SignOut(S)

Spec == Init /\ [][Next]_vars
=============================================================================
