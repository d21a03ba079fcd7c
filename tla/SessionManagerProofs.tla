------------------------ MODULE SessionManagerProofs ------------------------
(***************************************************************************)
(* SessionManager, for any sets of peers and names, any number of slots    *)
(* and any timeout: the inductive invariant SessionInv, the safety         *)
(* properties that follow, and the implementation of IdentityRegistry.     *)
(***************************************************************************)
EXTENDS SessionManager, TLAPS

USE SessionAssumption

\* A newcomer is offered a free slot, and the remembered one if there is one.
LEMMA SlotsForFree ==
  ASSUME NEW name, NEW slot \in SlotsFor(name)
  PROVE  /\ slot \in Slots
         /\ SlotIsFree(slot)
         /\ name \in DOMAIN slot_by_player_name => slot = slot_by_player_name[name]
  BY DEF SlotsFor

\* Ending the sessions of S keeps the invariant, whichever peers S holds.
LEMMA EndSessionsKeepsSessionInv ==
  ASSUME SessionInv, NEW S, S \subseteq DOMAIN sessions_by_peer, EndSessions(S)
  PROVE  SessionInv'
<1> USE DEF SessionInv, EndSessions, Erase
<1>1. TypeOK'
  BY DEF TypeOK
<1>2. SlotsMatchSessions'
  BY DEF TypeOK, SlotsMatchSessions, SessionRecord, SlotIsFree, Joined
<1>3. SessionsKeepTheirName'
  BY DEF TypeOK, SessionsKeepTheirName
<1> QED
  BY <1>1, <1>2, <1>3

\* A session gains or loses silence and nothing else.
LEMMA SilenceKeepsSessionInv ==
  ASSUME SessionInv,
         UNCHANGED <<slot_owners, slot_by_player_name>>,
         DOMAIN sessions_by_peer' = DOMAIN sessions_by_peer,
         sessions_by_peer' \in [DOMAIN sessions_by_peer -> SessionRecord],
         \A p \in DOMAIN sessions_by_peer :
           /\ sessions_by_peer'[p].player_id = sessions_by_peer[p].player_id
           /\ sessions_by_peer'[p].player_name = sessions_by_peer[p].player_name
  PROVE  SessionInv'
  BY DEF SessionInv, TypeOK, SlotsMatchSessions, SessionsKeepTheirName, SlotIsFree, Joined

\* Admitting a peer under a free slot keeps the invariant.
LEMMA JoinKeepsSessionInv ==
  ASSUME SessionInv, NEW peer \in Peers, NEW name \in Names, JoinAccepted(peer, name)
  PROVE  SessionInv'
<1>1. PICK slot \in SlotsFor(name) :
        /\ slot_owners' = [slot_owners EXCEPT ![slot] = peer]
        /\ slot_by_player_name' = Put(slot_by_player_name, name, slot)
        /\ sessions_by_peer' =
             Put(sessions_by_peer, peer,
                 [player_id |-> slot, player_name |-> name, silent |-> 0])
  BY DEF JoinAccepted
<1>2. /\ slot \in Slots
      /\ SlotIsFree(slot)
      /\ name \in DOMAIN slot_by_player_name => slot = slot_by_player_name[name]
  BY SlotsForFree
<1>3. name \in ValidNames /\ ~Joined(peer)
  BY DEF JoinAccepted
<1> DEFINE new == [player_id |-> slot, player_name |-> name, silent |-> 0]
<1>4. new \in SessionRecord
  BY <1>2, <1>3 DEF SessionRecord, Silence
<1>5. sessions_by_peer' =
        [p \in DOMAIN sessions_by_peer \cup {peer} |->
           IF p = peer THEN new ELSE sessions_by_peer[p]]
  BY <1>1, <1>3 DEF Put
<1>6. slot_by_player_name' =
        [n \in DOMAIN slot_by_player_name \cup {name} |->
           IF n = name THEN slot ELSE slot_by_player_name[n]]
  BY <1>1 DEF Put
<1> HIDE DEF new
<1>7. TypeOK'
  BY <1>1, <1>2, <1>3, <1>4, <1>5, <1>6 DEF SessionInv, TypeOK
<1>8. SlotsMatchSessions'
  BY <1>1, <1>2, <1>3, <1>5
     DEF SessionInv, TypeOK, SlotsMatchSessions, SlotIsFree, Joined, SessionRecord, new
<1>9. SessionsKeepTheirName'
  BY <1>2, <1>5, <1>6 DEF SessionInv, TypeOK, SessionsKeepTheirName, SessionRecord, new
<1> QED
  BY <1>7, <1>8, <1>9 DEF SessionInv

\* SessionInv is inductive.
LEMMA SessionInvInductive == SessionInv /\ [Next]_vars => SessionInv'
<1> SUFFICES ASSUME SessionInv, [Next]_vars PROVE SessionInv'
  OBVIOUS
<1>1. ASSUME NEW peer \in Peers, NEW name \in Names, JoinAccepted(peer, name)
      PROVE  SessionInv'
  BY <1>1, JoinKeepsSessionInv
<1>2. ASSUME NEW peer \in Peers, NEW name \in Names, JoinRepeated(peer, name)
      PROVE  SessionInv'
  <2>1. sessions_by_peer' \in [DOMAIN sessions_by_peer -> SessionRecord]
    BY <1>2 DEF JoinRepeated, Joined, SessionInv, TypeOK, SessionRecord, Silence
  <2> QED
    BY <1>2, <2>1, SilenceKeepsSessionInv DEF JoinRepeated, SessionInv, TypeOK, SessionRecord
<1>3. ASSUME NEW peer \in Peers, HandleHeartbeat(peer)
      PROVE  SessionInv'
  <2>1. sessions_by_peer' \in [DOMAIN sessions_by_peer -> SessionRecord]
    BY <1>3 DEF HandleHeartbeat, Joined, SessionInv, TypeOK, SessionRecord, Silence
  <2> QED
    BY <1>3, <2>1, SilenceKeepsSessionInv DEF HandleHeartbeat, SessionInv, TypeOK, SessionRecord
<1>4. ASSUME NEW peer \in Peers, HandleDisconnect(peer)
      PROVE  SessionInv'
  BY <1>4, EndSessionsKeepsSessionInv DEF HandleDisconnect, Joined
<1>5. CASE CollectTimedOut
  BY <1>5, EndSessionsKeepsSessionInv DEF CollectTimedOut, TimedOut
<1>6. CASE ClockAdvances
  <2>1. sessions_by_peer' \in [DOMAIN sessions_by_peer -> SessionRecord]
    BY <1>6 DEF ClockAdvances, SessionInv, TypeOK, SessionRecord, Silence
  <2> QED
    BY <1>6, <2>1, SilenceKeepsSessionInv DEF ClockAdvances, SessionInv, TypeOK, SessionRecord
<1>7. CASE UNCHANGED vars
  BY <1>7 DEF vars, SessionInv, TypeOK, SlotsMatchSessions, SessionsKeepTheirName,
              SlotIsFree, Joined
<1> QED
  BY <1>1, <1>2, <1>3, <1>4, <1>5, <1>6, <1>7 DEF Next, JoinRejected

LEMMA SessionInvInitially == Init => SessionInv
  BY DEF Init, SessionInv, TypeOK, SlotsMatchSessions, SessionsKeepTheirName,
         SlotIsFree, EmptyMap

\* The inductive invariant holds of every reachable state.
THEOREM SessionInvariant == Spec => []SessionInv
  BY SessionInvInitially, SessionInvInductive, PTL DEF Spec

\* The tables of SessionManager always have their types.
THEOREM SessionTypes == Spec => []TypeOK
<1>1. SessionInv => TypeOK
  BY DEF SessionInv
<1> QED
  BY <1>1, SessionInvariant, PTL

\* The slot table and the session table always agree.
THEOREM SlotTableAgrees == Spec => []SlotsMatchSessions
<1>1. SessionInv => SlotsMatchSessions
  BY DEF SessionInv
<1> QED
  BY <1>1, SessionInvariant, PTL

\* No name is ever connected twice: two sessions of one name would own the slot
\* remembered for it, and a slot has one owner.
THEOREM NamesConnectOnce == Spec => []OneSessionPerName
<1>1. SessionInv => OneSessionPerName
  BY DEF SessionInv, OneSessionPerName, SlotsMatchSessions, SessionsKeepTheirName
<1> QED
  BY <1>1, SessionInvariant, PTL

-----------------------------------------------------------------------------
(* Implementation of the identity registry *)

\* Names are online exactly as long as their sessions: what ends sessions signs
\* their names out.
LEMMA EndSessionsSignsOut ==
  ASSUME SessionInv, NEW S, S \subseteq DOMAIN sessions_by_peer, EndSessions(S)
  PROVE  \E T \in SUBSET ValidNames : Registry!SignOut(T)
<1> DEFINE T == {sessions_by_peer[p].player_name : p \in S}
<1>1. T \subseteq OnlineNames /\ T \subseteq ValidNames
  BY DEF OnlineNames, SessionInv, TypeOK, SessionRecord
<1>2. \A p, q \in DOMAIN sessions_by_peer :
        sessions_by_peer[p].player_name = sessions_by_peer[q].player_name => p = q
  BY DEF SessionInv, SlotsMatchSessions, SessionsKeepTheirName
<1>3. OnlineNames' = OnlineNames \ T
  BY <1>2 DEF OnlineNames, EndSessions, Erase
<1>4. UNCHANGED slot_by_player_name
  BY DEF EndSessions
<1> QED
  BY <1>1, <1>3, <1>4 DEF Registry!SignOut

\* An accepted join signs the name in under an identity nobody online uses.
LEMMA JoinSignsIn ==
  ASSUME SessionInv, NEW peer \in Peers, NEW name \in Names, JoinAccepted(peer, name)
  PROVE  \E n \in ValidNames, id \in Slots : Registry!SignIn(n, id)
<1>1. PICK slot \in SlotsFor(name) :
        /\ slot_by_player_name' = Put(slot_by_player_name, name, slot)
        /\ sessions_by_peer' =
             Put(sessions_by_peer, peer,
                 [player_id |-> slot, player_name |-> name, silent |-> 0])
  BY DEF JoinAccepted
<1>2. /\ slot \in Slots
      /\ SlotIsFree(slot)
      /\ name \in DOMAIN slot_by_player_name => slot = slot_by_player_name[name]
  BY SlotsForFree
<1>3. name \in ValidNames /\ peer \notin DOMAIN sessions_by_peer
  BY DEF JoinAccepted, Joined
<1>4. \A p \in DOMAIN sessions_by_peer : sessions_by_peer[p].player_id # slot
  BY <1>2 DEF SessionInv, TypeOK, SlotsMatchSessions, SlotIsFree
<1>5. ~Registry!InUse(slot)
  BY <1>4 DEF Registry!InUse, OnlineNames, SessionInv, SessionsKeepTheirName
<1>6. name \notin OnlineNames
  BY <1>2, <1>4 DEF OnlineNames, SessionInv, SessionsKeepTheirName
<1>7. OnlineNames' = OnlineNames \cup {name}
  <2>1. DOMAIN sessions_by_peer' = DOMAIN sessions_by_peer \cup {peer}
    BY <1>1 DEF Put
  <2>2. sessions_by_peer'[peer].player_name = name
    BY <1>1 DEF Put
  <2>3. \A p \in DOMAIN sessions_by_peer :
          sessions_by_peer'[p] = sessions_by_peer[p]
    BY <1>1, <1>3 DEF Put
  <2> QED
    BY <2>1, <2>2, <2>3 DEF OnlineNames
<1>8. slot_by_player_name' =
        [n \in DOMAIN slot_by_player_name \cup {name} |->
           IF n = name THEN slot ELSE slot_by_player_name[n]]
  BY <1>1 DEF Put
<1>9. Registry!SignIn(name, slot)
  BY <1>2, <1>5, <1>6, <1>7, <1>8 DEF Registry!SignIn
<1> QED
  BY <1>2, <1>3, <1>9

\* Silence is invisible to the registry.
LEMMA SilenceStutters ==
  ASSUME UNCHANGED slot_by_player_name,
         DOMAIN sessions_by_peer' = DOMAIN sessions_by_peer,
         \A p \in DOMAIN sessions_by_peer :
           sessions_by_peer'[p].player_name = sessions_by_peer[p].player_name
  PROVE  UNCHANGED <<slot_by_player_name, OnlineNames>>
  BY DEF OnlineNames

\* Every step of the session manager is a step of the registry or a stutter.
LEMMA StepImplementsRegistry ==
  SessionInv /\ [Next]_vars => [Registry!Next]_(Registry!vars)
<1> SUFFICES ASSUME SessionInv, [Next]_vars
             PROVE  Registry!Next \/ UNCHANGED <<slot_by_player_name, OnlineNames>>
  BY DEF Registry!vars
<1>1. ASSUME NEW peer \in Peers, NEW name \in Names, JoinAccepted(peer, name)
      PROVE  Registry!Next
  BY <1>1, JoinSignsIn DEF Registry!Next
<1>2. ASSUME NEW peer \in Peers, NEW name \in Names, JoinRepeated(peer, name)
      PROVE  UNCHANGED <<slot_by_player_name, OnlineNames>>
  BY <1>2, SilenceStutters DEF JoinRepeated, SessionInv, TypeOK, SessionRecord
<1>3. ASSUME NEW peer \in Peers, HandleHeartbeat(peer)
      PROVE  UNCHANGED <<slot_by_player_name, OnlineNames>>
  BY <1>3, SilenceStutters DEF HandleHeartbeat, SessionInv, TypeOK, SessionRecord
<1>4. ASSUME NEW peer \in Peers, HandleDisconnect(peer)
      PROVE  Registry!Next
  BY <1>4, EndSessionsSignsOut DEF HandleDisconnect, Joined, Registry!Next
<1>5. ASSUME CollectTimedOut
      PROVE  Registry!Next
  BY <1>5, EndSessionsSignsOut DEF CollectTimedOut, TimedOut, Registry!Next
<1>6. ASSUME ClockAdvances
      PROVE  UNCHANGED <<slot_by_player_name, OnlineNames>>
  BY <1>6, SilenceStutters DEF ClockAdvances, SessionInv, TypeOK, SessionRecord
<1>7. ASSUME UNCHANGED vars
      PROVE  UNCHANGED <<slot_by_player_name, OnlineNames>>
  BY <1>7 DEF vars, OnlineNames
<1> QED
  BY <1>1, <1>2, <1>3, <1>4, <1>5, <1>6, <1>7 DEF Next, JoinRejected

\* The session manager implements the identity registry.
THEOREM SessionsImplementRegistry == Spec => ImplementsRegistry
<1>1. Init => Registry!Init
  BY DEF Init, Registry!Init, OnlineNames, EmptyMap
<1> QED
  BY <1>1, StepImplementsRegistry, SessionInvariant, PTL
     DEF Spec, ImplementsRegistry, Registry!Spec
=============================================================================
