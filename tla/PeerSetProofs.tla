--------------------------- MODULE PeerSetProofs ---------------------------
(***************************************************************************)
(* The safety of the connection table, for any number of connections,      *)
(* addresses and slots.                                                    *)
(*                                                                         *)
(* The invariant says what an entry can be: it lies under the remote       *)
(* address of its connection, and that connection has a reader or is one   *)
(* the node has dialled.                                                   *)
(***************************************************************************)
EXTENDS PeerSet, FiniteSetTheorems, TLAPS

Entries ==
  \A k \in Key : peers[k] # None =>
    /\ remote[peers[k]] = k
    /\ \/ pc[peers[k]] \in {"read", "stuck"}
       \/ pc[peers[k]] \in {"start", "done"} /\ peers[k] \in dialled

TableInv ==
  /\ TypeOK /\ PeersBounded /\ ReaderOwnsEntry /\ NoOpenOrphan
  /\ Entries
  /\ \A d \in dialling : want[d] # <<>>

\* Registering a connection that addPeer does not refuse keeps the bound.
LEMMA RegisterBound ==
  ASSUME TypeOK, NEW k \in Key, NEW c \in Conn, ~Refuses(k),
         peers' = [peers EXCEPT ![k] = c]
  PROVE  PeersBounded'
  <1>1. IsFiniteSet(Registered)
    <2>1. Registered \subseteq Key
      BY DEF Registered
    <2> QED BY <2>1, PeerAssumption, FS_Subset
  <1>2. Registered' = Registered \cup {k}
    BY PeerAssumption DEF Registered, TypeOK
  <1>3. k \notin Registered /\ ~(Cardinality(Registered) >= MaxPeers)
    BY DEF Refuses, Full, Registered
  <1>4. Cardinality(Registered) \in Nat
    BY <1>1, FS_CardinalityType
  <1>5. Cardinality(Registered \cup {k}) = Cardinality(Registered) + 1
    BY Zenon, <1>1, <1>3, FS_AddElement
  <1> QED BY <1>2, <1>3, <1>4, <1>5, PeerAssumption DEF PeersBounded

\* Removing an entry keeps it.
LEMMA RemoveBound ==
  ASSUME TypeOK, PeersBounded, NEW k \in Key, peers' = [peers EXCEPT ![k] = None]
  PROVE  PeersBounded'
  <1>1. Registered' \subseteq Registered
    BY DEF Registered, TypeOK
  <1>2. IsFiniteSet(Registered)
    <2>1. Registered \subseteq Key
      BY DEF Registered
    <2> QED BY <2>1, PeerAssumption, FS_Subset
  <1>3. /\ Cardinality(Registered') <= Cardinality(Registered)
        /\ Cardinality(Registered') \in Nat /\ Cardinality(Registered) \in Nat
    BY <1>1, <1>2, FS_Subset, FS_CardinalityType
  <1> QED BY <1>3, PeerAssumption DEF PeersBounded

LEMMA TableInit == Init => TableInv
  <1> SUFFICES ASSUME Init PROVE TableInv
    OBVIOUS
  <1>1. TypeOK
    BY PeerAssumption DEF Init, TypeOK, Dialler
  <1>2. Registered = {}
    BY DEF Init, Registered
  <1>3. PeersBounded
    BY <1>2, PeerAssumption, FS_EmptySet DEF PeersBounded
  <1> QED BY <1>1, <1>3 DEF Init, TableInv, ReaderOwnsEntry, NoOpenOrphan, Entries

LEMMA TableStep == TableInv /\ [Next]_vars => TableInv'
  <1> SUFFICES ASSUME TableInv, [Next]_vars PROVE TableInv'
    OBVIOUS
  <1> USE DEF TableInv
  <1>n. None \notin Conn /\ Main \notin Conn
    BY PeerAssumption
  <1>b. ASSUME peers' = peers PROVE PeersBounded'
    BY <1>b DEF PeersBounded, Registered
  <1>1. ASSUME NEW c \in Conn, NEW k \in Ephemeral, Accept(c, k) PROVE TableInv'
    <2>1. k \in Key /\ pc[c] = "none" /\ peers' = peers /\ dialled' = dialled
          /\ want' = want /\ dialling' = dialling
          /\ remote' = [remote EXCEPT ![c] = k]
      BY <1>1 DEF Accept, Key
    <2>2. open' = open \cup {c} /\ pc' = [pc EXCEPT ![c] = "greet"]
      BY <1>1 DEF Accept
    <2>3. TypeOK'
      BY <2>1, <2>2 DEF TypeOK
    <2>4. ReaderOwnsEntry' /\ NoOpenOrphan'
      BY <2>1, <2>2 DEF ReaderOwnsEntry, NoOpenOrphan, TypeOK
    <2>5. Entries'
      BY <2>1, <2>2, <1>n DEF Entries, TypeOK
    <2> QED BY <2>1, <2>3, <2>4, <2>5, <1>b
  <1>2. ASSUME NEW c \in Conn, OnConn(c) PROVE TableInv'
    <2>0. /\ pc[c] = "start" /\ remote[c] \in Key
          /\ UNCHANGED <<remote, want, dialling, dialled>>
      BY <1>2 DEF OnConn, TypeOK
    <2>1. CASE Refuses(remote[c])
      <3>1. open' = open \ {c} /\ pc' = [pc EXCEPT ![c] = "done"] /\ peers' = peers
        BY <1>2, <2>1 DEF OnConn
      <3>2. TypeOK' /\ ReaderOwnsEntry' /\ NoOpenOrphan'
        BY <2>0, <3>1 DEF TypeOK, ReaderOwnsEntry, NoOpenOrphan
      <3>3. Entries'
        BY <2>0, <3>1, <1>n DEF Entries, TypeOK
      <3> QED BY <2>0, <3>1, <3>2, <3>3, <1>b
    <2>2. CASE ~Refuses(remote[c])
      <3>1. /\ peers' = [peers EXCEPT ![remote[c]] = c]
            /\ pc' = [pc EXCEPT ![c] = "read"] /\ open' = open
        BY <1>2, <2>2 DEF OnConn
      <3>2. TypeOK' /\ NoOpenOrphan'
        BY <2>0, <3>1 DEF TypeOK, NoOpenOrphan
      <3>3. peers[remote[c]] = None
        BY <2>2 DEF Refuses
      <3>4. ReaderOwnsEntry'
        BY <2>0, <3>1, <3>3, <1>n DEF ReaderOwnsEntry, TypeOK
      <3>5. Entries'
        BY <2>0, <3>1, <1>n DEF Entries, TypeOK
      <3>6. PeersBounded'
        BY Zenon, <2>0, <2>2, <3>1, RegisterBound
      <3> QED BY <2>0, <3>2, <3>4, <3>5, <3>6
    <2> QED BY <2>1, <2>2
  <1>3. ASSUME NEW c \in Conn, ReadFails(c) PROVE TableInv'
    <2>1. /\ pc[c] = "read" /\ remote[c] \in Key /\ peers[remote[c]] = c
          /\ peers' = [peers EXCEPT ![remote[c]] = None] /\ open' = open \ {c}
          /\ pc' = [pc EXCEPT ![c] = "done"]
          /\ UNCHANGED <<remote, want, dialling, dialled>>
      BY <1>3 DEF ReadFails, Forget, TypeOK, ReaderOwnsEntry
    <2>2. TypeOK' /\ NoOpenOrphan'
      BY <2>1 DEF TypeOK, NoOpenOrphan
    <2>3. ReaderOwnsEntry'
      BY <2>1 DEF ReaderOwnsEntry, TypeOK
    <2>4. Entries'
      BY <2>1, <1>n DEF Entries, TypeOK
    <2>5. PeersBounded'
      BY Zenon, <2>1, RemoveBound
    <2> QED BY <2>1, <2>2, <2>3, <2>4, <2>5
  <1>4. ASSUME NEW c \in Conn, NEW n \in 1 .. MaxList, NEW list \in [1 .. n -> Address],
               ReadAddresses(c, list)
        PROVE  TableInv'
    <2>1. /\ want[c] = <<>> /\ want' = [want EXCEPT ![c] = list]
          /\ UNCHANGED <<peers, open, remote, pc, dialling, dialled>>
      BY <1>4 DEF ReadAddresses
    <2>2. list \in Seq(Address) /\ list # <<>>
      BY PeerAssumption
    <2>3. TypeOK' /\ (\A d \in dialling' : want'[d] # <<>>)
      BY Zenon, <2>1, <2>2 DEF TypeOK
    <2> QED BY <2>1, <2>3, <1>b DEF ReaderOwnsEntry, NoOpenOrphan, Entries
  <1>5. ASSUME NEW d \in Dialler, CheckRoom(d) PROVE TableInv'
    <2>1. /\ want[d] # <<>> /\ d \notin dialling
          /\ UNCHANGED <<peers, open, remote, pc, dialled>>
          /\ \/ want' = [want EXCEPT ![d] = Tail(want[d])] /\ dialling' = dialling
             \/ want' = [want EXCEPT ![d] = <<>>] /\ dialling' = dialling
             \/ dialling' = dialling \cup {d} /\ want' = want
      BY <1>5 DEF CheckRoom
    <2>2. Tail(want[d]) \in Seq(Address) /\ <<>> \in Seq(Address)
      BY <2>1 DEF TypeOK
    <2>3. TypeOK' /\ (\A x \in dialling' : want'[x] # <<>>)
      BY Zenon, <2>1, <2>2 DEF TypeOK
    <2> QED BY <2>1, <2>3, <1>b DEF ReaderOwnsEntry, NoOpenOrphan, Entries
  <1>d. ASSUME NEW d \in Dialler, Dialled(d)
        PROVE  /\ Head(want[d]) \in Address
               /\ want' \in [Dialler -> Seq(Address)] /\ dialling' \in SUBSET Dialler
               /\ \A x \in dialling' : want'[x] # <<>>
    BY <1>d DEF Dialled, TypeOK
  <1>6. ASSUME NEW d \in Dialler, DialFails(d) PROVE TableInv'
    <2>1. Dialled(d) /\ UNCHANGED <<peers, open, remote, pc, dialled>>
      BY <1>6 DEF DialFails
    <2>2. TypeOK' /\ (\A x \in dialling' : want'[x] # <<>>)
      BY <2>1, <1>d DEF TypeOK
    <2> QED BY <2>1, <2>2, <1>b DEF ReaderOwnsEntry, NoOpenOrphan, Entries
  <1>7. ASSUME NEW d \in Dialler, NEW c \in Conn, DialSucceeds(d, c) PROVE TableInv'
    <2>1. PICK k \in Key : k = Head(want[d])
      BY <1>7, <1>d DEF DialSucceeds, Key
    <2>2. /\ Dialled(d) /\ pc[c] = "none" /\ dialled' = dialled \cup {c}
          /\ remote' = [remote EXCEPT ![c] = k]
      BY <1>7, <2>1 DEF DialSucceeds
    <2>3. /\ want' \in [Dialler -> Seq(Address)] /\ dialling' \in SUBSET Dialler
          /\ \A x \in dialling' : want'[x] # <<>>
      BY <2>2, <1>d
    <2>4. CASE Refuses(k)
      <3>1. pc' = [pc EXCEPT ![c] = "done"] /\ UNCHANGED <<peers, open>>
        BY <1>7, <2>1, <2>4 DEF DialSucceeds
      <3>2. TypeOK'
        BY <2>2, <2>3, <3>1 DEF TypeOK
      <3>3. ReaderOwnsEntry' /\ NoOpenOrphan'
        BY <2>2, <3>1 DEF ReaderOwnsEntry, NoOpenOrphan, TypeOK
      <3>4. Entries'
        BY <2>2, <3>1, <1>n DEF Entries, TypeOK
      <3> QED BY <2>3, <3>1, <3>2, <3>3, <3>4, <1>b
    <2>5. CASE ~Refuses(k)
      <3>1. /\ peers' = [peers EXCEPT ![k] = c] /\ open' = open \cup {c}
            /\ pc' = [pc EXCEPT ![c] = "start"]
        BY <1>7, <2>1, <2>5 DEF DialSucceeds
      <3>2. TypeOK'
        BY <2>2, <2>3, <3>1 DEF TypeOK
      <3>3. peers[k] = None
        BY <2>5 DEF Refuses
      <3>4. ReaderOwnsEntry' /\ NoOpenOrphan'
        BY <2>2, <3>1, <3>3, <1>n DEF ReaderOwnsEntry, NoOpenOrphan, TypeOK
      <3>5. Entries'
        BY <2>2, <3>1, <1>n DEF Entries, TypeOK
      <3>6. PeersBounded'
        BY Zenon, <2>5, <3>1, RegisterBound
      <3> QED BY <2>3, <3>2, <3>4, <3>5, <3>6
    <2> QED BY <2>4, <2>5
  <1>8. ASSUME NEW c \in Conn, Break(c) PROVE TableInv'
    BY <1>8, <1>b DEF Break, TypeOK, ReaderOwnsEntry, NoOpenOrphan, Entries
  <1>9. ASSUME NEW k \in Key, SendFails(k) PROVE TableInv'
    BY <1>9, <1>b DEF SendFails, TypeOK, ReaderOwnsEntry, NoOpenOrphan, Entries
  <1>10. ASSUME NEW c \in Conn, Greet(c) PROVE TableInv'
    <2>1. /\ pc[c] = "greet" /\ UNCHANGED <<peers, remote, want, dialling, dialled>>
          /\ \/ pc' = [pc EXCEPT ![c] = "start"] /\ open' = open
             \/ pc' = [pc EXCEPT ![c] = "done"] /\ open' = open \ {c}
      BY <1>10 DEF Greet
    <2>2. TypeOK' /\ ReaderOwnsEntry' /\ NoOpenOrphan'
      BY <2>1 DEF TypeOK, ReaderOwnsEntry, NoOpenOrphan
    <2>3. Entries'
      BY <2>1, <1>n DEF Entries, TypeOK
    <2> QED BY <2>1, <2>2, <2>3, <1>b
  <1>11. ASSUME NEW c \in Conn, HandlerStuck(c) PROVE TableInv'
    <2>1. /\ pc[c] = "read" /\ UNCHANGED <<peers, open, remote, want, dialling, dialled>>
          /\ pc' = [pc EXCEPT ![c] = "stuck"]
      BY <1>11 DEF HandlerStuck
    <2>2. TypeOK' /\ ReaderOwnsEntry' /\ NoOpenOrphan'
      BY <2>1 DEF TypeOK, ReaderOwnsEntry, NoOpenOrphan
    <2>3. Entries'
      BY <2>1, <1>n DEF Entries, TypeOK
    <2> QED BY <2>1, <2>2, <2>3, <1>b
  <1>12. CASE UNCHANGED vars
    BY <1>12, <1>b DEF vars, TypeOK, ReaderOwnsEntry, NoOpenOrphan, Entries
  <1> QED BY <1>1, <1>2, <1>3, <1>4, <1>5, <1>6, <1>7, <1>8, <1>9, <1>10, <1>11, <1>12
          DEF Next, DiallerStep

\* What a state of the invariant guarantees.
LEMMA TableGuarantees ==
  TableInv => PeersBounded /\ ReaderOwnsEntry /\ NoOpenOrphan /\ OnlyDialledStale
  BY DEF TableInv, Entries, OnlyDialledStale, Registered

\* However many goroutines have found room and dial at once, the table of
\* Manager stays within MaxPeers.
THEOREM BoundCorrect == Spec => []PeersBounded
  BY TableGuarantees, TableInit, TableStep, PTL DEF Spec

\* Whatever connections come, go and break, the RemovePeer a reader calls when
\* it ends can only remove its own connection.
THEOREM OwnerCorrect == Spec => []ReaderOwnsEntry
  BY TableGuarantees, TableInit, TableStep, PTL DEF Spec

\* Whichever way out of onConn, addPeer or the accept loop is taken, no
\* connection stays open with no goroutine at hand.
THEOREM OrphanCorrect == Spec => []NoOpenOrphan
  BY TableGuarantees, TableInit, TableStep, PTL DEF Spec

\* Only a connection the node dialled itself can leave its entry behind when
\* its goroutine ends.
THEOREM StaleCorrect == Spec => []OnlyDialledStale
  BY TableGuarantees, TableInit, TableStep, PTL DEF Spec
=============================================================================
