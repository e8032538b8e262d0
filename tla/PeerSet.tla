------------------------------ MODULE PeerSet ------------------------------
(***************************************************************************)
(* The connections of one node: the table of package p2p (PeerSet), the    *)
(* accept loop, the goroutines that dial, and the goroutine onConn that    *)
(* reads each connection (cmd/node/main.go).                               *)
(*                                                                         *)
(* PeerSet.mu protects the table but is not held while dialling, so a      *)
(* dialler checks for room, dials, and then tries to register what it got. *)
(* A connection may break, time out or be closed by a failed Send at any   *)
(* moment.  Handlers of messages that do not dial change nothing here, but *)
(* they may not return: the one that accepts a block stays in              *)
(* Chain.SetTip with Chain.mu and blockMu, and then whoever needs either   *)
(* waits for ever, the accept loop included.                               *)
(*                                                                         *)
(* An unused operator just before the one it resembles is a mistake the    *)
(* code might have made; the properties must tell the two apart.           *)
(***************************************************************************)
EXTENDS Integers, Sequences, FiniteSets

CONSTANTS
  Conn,        \* bound: connections ever made or accepted
  Address,     \* addresses a node may be asked to dial
  Listen,      \* the node's own listen address
  Ephemeral,   \* remote addresses of incoming connections
  Seeds,       \* the -p2p-seeds
  MaxPeers,    \* 50 in the code
  MaxList,     \* bound: addresses in one Peers message
  Main, None   \* the goroutine that dials the seeds; no connection

Key == Address \cup Ephemeral
Dialler == Conn \cup {Main}

ASSUME PeerAssumption ==
  /\ IsFiniteSet(Conn) /\ Main \notin Conn /\ None \notin Conn
  /\ IsFiniteSet(Key) /\ Key # {}
  /\ Seeds \in Seq(Address) /\ MaxPeers \in Nat /\ MaxList \in Nat

VARIABLES
  peers,    \* PeerSet.peers: the connection registered under a remote address
  open,     \* connections usable at both ends
  remote,   \* the remote address of a connection
  pc,       \* accept loop and onConn: none (no such connection), greet, start,
            \* read, stuck (in a handler that does not return), done
  want,     \* the addresses a dialler still has to try
  dialling, \* diallers that found room and dial the first of them
  dialled   \* history: connections this node made

vars == <<peers, open, remote, pc, want, dialling, dialled>>

-----------------------------------------------------------------------------
Registered == {k \in Key : peers[k] # None}
Full == Cardinality(Registered) >= MaxPeers

\* addPeer refuses a connection and closes it.
RefusesIfFull(k) == Full
RefusesIfKnown(k) == peers[k] # None
Refuses(k) == Full \/ peers[k] # None

Init ==
  /\ peers = [k \in Key |-> None]
  /\ open = {} /\ dialled = {}
  /\ remote = [c \in Conn |-> CHOOSE k \in Key : TRUE]
  /\ pc = [c \in Conn |-> "none"]
  /\ want = [d \in Dialler |-> IF d = Main THEN Seeds ELSE <<>>]
  /\ dialling = {}

\* acceptLoop, one connection after the other.  Two open connections from
\* one remote address cannot exist.
Accept(c, k) ==
  /\ pc[c] = "none" /\ \A d \in Conn : pc[d] # "greet"
  /\ \A d \in open : remote[d] # k
  /\ remote' = [remote EXCEPT ![c] = k]
  /\ open' = open \cup {c} /\ pc' = [pc EXCEPT ![c] = "greet"]
  /\ UNCHANGED <<peers, want, dialling, dialled>>

\* The height for the greeting takes Chain.mu.  The greeting is sent and
\* onConn started, or it fails and the connection is closed.
Halted == \E c \in Conn : pc[c] = "stuck"
Greet(c) ==
  /\ pc[c] = "greet" /\ ~Halted
  /\ \/ pc' = [pc EXCEPT ![c] = "start"] /\ UNCHANGED open
     \/ pc' = [pc EXCEPT ![c] = "done"] /\ open' = open \ {c}
  /\ UNCHANGED <<peers, remote, want, dialling, dialled>>

RefusedStaysOpen(c) ==
  /\ pc[c] = "start"
  /\ pc' = [pc EXCEPT ![c] = IF Refuses(remote[c]) THEN "done" ELSE "read"]
  /\ peers' = IF Refuses(remote[c]) THEN peers ELSE [peers EXCEPT ![remote[c]] = c]
  /\ UNCHANGED <<open, remote, want, dialling, dialled>>

\* onConn begins by registering its connection; if it is refused it returns.
\* A connection the node dialled is registered already and thus refused.
OnConn(c) ==
  /\ pc[c] = "start"
  /\ \/ /\ Refuses(remote[c])
        /\ open' = open \ {c} /\ pc' = [pc EXCEPT ![c] = "done"]
        /\ UNCHANGED peers
     \/ /\ ~Refuses(remote[c])
        /\ peers' = [peers EXCEPT ![remote[c]] = c] /\ pc' = [pc EXCEPT ![c] = "read"]
        /\ UNCHANGED open
  /\ UNCHANGED <<remote, want, dialling, dialled>>

\* A Hello with its listen address, or a Peers message: the reader dials the
\* addresses one after the other before it reads on.  The message may still
\* be in the reader's buffer when the connection is closed.
ReadAddresses(c, list) ==
  /\ pc[c] = "read" /\ want[c] = <<>>
  /\ want' = [want EXCEPT ![c] = list]
  /\ UNCHANGED <<peers, open, remote, pc, dialling, dialled>>

\* A block is accepted and its handler never comes out of SetTip; from then
\* on no handler of GetBlocks, Blocks or NewBlock comes to its end.
HandlerStuck(c) ==
  /\ pc[c] = "read" /\ want[c] = <<>>
  /\ pc' = [pc EXCEPT ![c] = "stuck"]
  /\ UNCHANGED <<peers, open, remote, want, dialling, dialled>>

\* RemovePeer: whatever is registered under the address is closed and removed.
Forget(k) ==
  /\ peers' = [peers EXCEPT ![k] = None]
  /\ open' = open \ {peers[k]}

ReturnsWithoutRemove(c) ==
  /\ pc[c] = "read" /\ want[c] = <<>>
  /\ pc' = [pc EXCEPT ![c] = "done"] /\ open' = open \ {c}
  /\ UNCHANGED <<peers, remote, want, dialling, dialled>>

\* ReadMessage fails: the connection is broken or closed, or 30 seconds have
\* passed without a message.  The deferred RemovePeer runs.
ReadFails(c) ==
  /\ pc[c] = "read" /\ want[c] = <<>>
  /\ Forget(remote[c])
  /\ pc' = [pc EXCEPT ![c] = "done"]
  /\ UNCHANGED <<remote, want, dialling, dialled>>

-----------------------------------------------------------------------------
(* TryConnect and ConnectToSeeds. *)

\* The first half, under PeerSet.mu: is there room?  ConnectToSeeds gives up
\* when there is none, TryConnect is called again for the next address.
CheckRoom(d) ==
  /\ want[d] # <<>> /\ d \notin dialling
  /\ \/ /\ Head(want[d]) = Listen
        /\ want' = [want EXCEPT ![d] = Tail(@)]
        /\ UNCHANGED dialling
     \/ /\ Head(want[d]) # Listen /\ Full
        /\ want' = [want EXCEPT ![d] = IF d = Main THEN <<>> ELSE Tail(@)]
        /\ UNCHANGED dialling
     \/ /\ Head(want[d]) # Listen /\ ~Full
        /\ dialling' = dialling \cup {d}
        /\ UNCHANGED want
  /\ UNCHANGED <<peers, open, remote, pc, dialled>>

Dialled(d) ==
  /\ d \in dialling
  /\ dialling' = dialling \ {d}
  /\ want' = [want EXCEPT ![d] = Tail(@)]

DialFails(d) ==
  /\ Dialled(d)
  /\ UNCHANGED <<peers, open, remote, pc, dialled>>

\* The second half: the dial succeeded, addPeer checks again, and onConn is
\* started for a connection it has registered.
DialSucceeds(d, c) ==
  /\ Dialled(d)
  /\ pc[c] = "none"
  /\ LET k == Head(want[d])
     IN  /\ remote' = [remote EXCEPT ![c] = k]
         /\ \/ /\ Refuses(k)
               /\ pc' = [pc EXCEPT ![c] = "done"]
               /\ UNCHANGED <<peers, open>>
            \/ /\ ~Refuses(k)
               /\ peers' = [peers EXCEPT ![k] = c]
               /\ open' = open \cup {c}
               /\ pc' = [pc EXCEPT ![c] = "start"]
  /\ dialled' = dialled \cup {c}

-----------------------------------------------------------------------------
\* The other end closes the connection, or the network loses it.
Break(c) ==
  /\ c \in open
  /\ open' = open \ {c}
  /\ UNCHANGED <<peers, remote, pc, want, dialling, dialled>>

\* A goroutine of Broadcast cannot send to a registered peer and closes the
\* connection; the entry stays.
SendFails(k) ==
  /\ peers[k] \in open
  /\ open' = open \ {peers[k]}
  /\ UNCHANGED <<peers, remote, pc, want, dialling, dialled>>

DiallerStep(d) == CheckRoom(d) \/ DialFails(d) \/ \E c \in Conn : DialSucceeds(d, c)

Next ==
  \/ \E c \in Conn, k \in Ephemeral : Accept(c, k)
  \/ \E c \in Conn : Greet(c) \/ OnConn(c) \/ HandlerStuck(c) \/ ReadFails(c) \/ Break(c)
  \/ \E c \in Conn, n \in 1 .. MaxList : \E list \in [1 .. n -> Address] : ReadAddresses(c, list)
  \/ \E d \in Dialler : DiallerStep(d)
  \/ \E k \in Key : SendFails(k)

Spec == Init /\ [][Next]_vars

\* Goroutines run; a dial ends after 5 seconds at the latest, a Send after 10;
\* reading from a connection that is not open fails once the buffer, which is
\* finite, has no more messages.
FairSpec ==
  /\ Spec
  /\ \A c \in Conn : WF_vars(OnConn(c)) /\ SF_vars(c \notin open /\ ReadFails(c))
  /\ \A d \in Dialler : WF_vars(DiallerStep(d))

-----------------------------------------------------------------------------
(* Properties. *)

TypeOK ==
  /\ peers \in [Key -> Conn \cup {None}]
  /\ open \in SUBSET Conn /\ dialled \in SUBSET Conn
  /\ remote \in [Conn -> Key]
  /\ pc \in [Conn -> {"none", "greet", "start", "read", "stuck", "done"}]
  /\ want \in [Dialler -> Seq(Address)] /\ dialling \in SUBSET Dialler

\* The table never holds more than MaxPeers entries, although several
\* goroutines may each have found room for one more before they dialled.
PeersBounded == Cardinality(Registered) <= MaxPeers

\* A connection that is being read, or whose reader is stuck, is the one
\* registered under its remote address: broadcasts reach it, and the
\* RemovePeer its reader will call removes and closes no other connection.
ReaderOwnsEntry == \A c \in Conn : pc[c] \in {"read", "stuck"} => peers[remote[c]] = c

\* No connection is left open that no goroutine has in hand, whichever of the
\* ways out of onConn, addPeer or the accept loop was taken.
NoOpenOrphan == \A c \in open : pc[c] \in {"greet", "start", "read", "stuck"}

\* An entry whose goroutine has ended belongs to a connection the node dialled
\* itself: an incoming peer never leaves one behind.
OnlyDialledStale ==
  \A k \in Registered : pc[peers[k]] = "done" => peers[k] \in dialled

\* The slot of a peer that has gone away becomes free, whatever its reader is
\* dialling just then, unless the last the peer sent is a message whose
\* handler does not return.
ReaderCleansUp ==
  \A c \in Conn :
    (pc[c] = "read" /\ c \notin open) ~> (pc[c] = "stuck" \/ \A k \in Key : peers[k] # c)

\* p2p/peers.go, of a seed that was added: "onNewPeer runs the read loop in a
\* goroutine".  A connection the node has dialled and registered gets read.
DialledIsRead == \A c \in Conn : c \in dialled /\ pc[c] = "start" ~> pc[c] = "read"
=============================================================================
