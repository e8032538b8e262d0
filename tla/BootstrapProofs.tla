-------------------------- MODULE BootstrapProofs ---------------------------
(***************************************************************************)
(* Theorems about Bootstrap, for any number of keys, processes and deaths. *)
(***************************************************************************)
EXTENDS Bootstrap, TLAPS

RunPc == {"off", "load", "seed", "append", "truncMeta", "writeMeta", "open", "key",
          "running", "truncTip", "writeTip"}
\* -run is past its genesis; it has a tip, in memory or in chain.json.
Rooted == {"open", "key", "running", "truncTip", "writeTip"}

\* A command knows its genesis; a database that holds blocks has a chain.json
\* beside it, and the only -run found none only if there were no blocks.
GenesisInv ==
  /\ TypeOK
  /\ rpc \in [Runner -> RunPc]
  /\ ipc # "off" => igen \in Genesis /\ ikey \in Key
  /\ dirty => meta # None
  /\ raced => misused
  /\ ~raced => \A r, q \in Runner : r = q \/ rpc[r] = "off" \/ rpc[q] = "off"
  /\ \A r \in Runner :
       /\ rpc[r] \in Rooted => meta # None
       /\ rpc[r] \in Rooted \cup {"truncMeta", "writeMeta"} => rtip[r] \in Genesis
       /\ rpc[r] = "load" /\ rtip[r] # None => meta # None
       /\ rpc[r] = "load" /\ rtip[r] = None /\ ~raced => ~dirty
  /\ GenesisOnce

\* How far the first commands have come.  A key is written, then a genesis;
\* the database follows genesis.json, chain.json follows the database.
StoreInv ==
  ~misused =>
    /\ ipc # "off" => NoneRuns(Runner)
    /\ ipc \in {"truncKey", "writeKey", "truncGenesis", "writeGenesis", "open",
                "apply", "chain", "truncMeta"} => meta = None
    /\ ipc = "writeMeta" => meta = Torn
    /\ ipc \in {"open", "apply", "chain", "truncMeta", "writeMeta"} => genesisFile = igen
    /\ ipc \in {"truncKey", "writeKey"} /\ Joining => genesisFile = igen
    /\ ipc \in {"chain", "truncMeta", "writeMeta"} => seed = igen
    /\ meta \in Genesis => genesisFile = meta /\ seed = meta
    /\ \A r \in Runner :
         /\ rpc[r] = "load" /\ rtip[r] # None => genesisFile = rtip[r] /\ seed = rtip[r]
         /\ rpc[r] = "load" /\ rtip[r] = None => meta = None
         /\ rpc[r] \in {"seed", "append", "truncMeta", "writeMeta"} \cup Rooted =>
              rgen[r] = genesisFile
         /\ rpc[r] \in {"append", "truncMeta", "writeMeta"} \cup Rooted => seed = genesisFile
         /\ rpc[r] \in {"truncMeta", "writeMeta"} \cup Rooted => rtip[r] = genesisFile

\* Without -init-join every genesis has a key of this directory.
KeyInv ==
  ~joined =>
    /\ ipc # "off" => igen \in used
    /\ genesisFile \in used \cup {None, Torn}

\* A key that is generated was never used.
LEMMA KeyIsNew == used \subseteq Key /\ used # Key => NewKey \in Key /\ NewKey \notin used
  BY DEF NewKey

\* Every step of a command keeps chain.json ahead of the first block.
LEMMA GenesisStep == GenesisInv /\ [Next]_vars => GenesisInv'
  <1> SUFFICES ASSUME GenesisInv, [Next]_vars PROVE GenesisInv'
    OBVIOUS
  <1> USE BootstrapAssumption
      DEF GenesisInv, TypeOK, GenesisOnce, NoneRuns, RunPc, Rooted, Genesis
  <1>1. CASE RunInit \/ RunInitJoin
    <2>1. misused => misused'
      <3>1. misused' = (misused \/ meta # None \/ ~NoneRuns(Runner))
        BY <1>1 DEF RunInit, RunInitJoin, Begin
      <3> QED BY Zenon, <3>1
    <2>2. /\ ikey' \in Key /\ igen' \in Genesis /\ used' \subseteq Key
          /\ UNCHANGED <<files, db, runner, raced, faults>>
      BY <1>1, KeyIsNew DEF RunInit, RunInitJoin, Begin
    <2> QED BY <2>1, <2>2 DEF files, db, runner
  <1>2. CASE SaveKey
    BY <1>2 DEF SaveKey, Goto, db, InitOnly, runner
  <1>3. CASE WriteGenesisFile
    BY <1>3 DEF WriteGenesisFile, Goto, db, InitOnly, runner
  <1>4. CASE InitOpen
    BY <1>4 DEF InitOpen, Goto, Exit, files, db, InitOnly, runner
  <1>5. CASE InitApply
    BY <1>5 DEF InitApply, Goto, files, InitOnly, runner
  <1>6. CASE InitChain
    BY <1>6 DEF InitChain, Goto, Exit, files, db, InitOnly, runner
  <1>7. CASE InitAppend
    BY <1>7 DEF InitAppend, Goto, Exit, db, InitOnly, runner
  <1>8. CASE InitDies
    BY <1>8 DEF InitDies, Exit, files, db, runner
  <1>9. ASSUME NEW r \in Runner, StartRun(r) PROVE GenesisInv'
    <2>1. (raced' => misused') /\ (~raced' => ~raced /\ NoneRuns(Runner))
      BY Zenon, <1>9 DEF StartRun
    <2>2. /\ meta # Torn /\ Becomes(r, "load", meta, None, None)
          /\ UNCHANGED <<files, db, initer, used, joined, faults>>
      BY Zenon, <1>9 DEF StartRun, AcceptsMeta
    <2> QED BY <2>1, <2>2 DEF Becomes, files, db, initer
  <1>10. ASSUME NEW r \in Runner, LoadGenesis(r) PROVE GenesisInv'
    BY <1>10 DEF LoadGenesis, Becomes, Stop, files, db, RunOnly, initer
  <1>11. ASSUME NEW r \in Runner, RunApply(r) PROVE GenesisInv'
    BY <1>11 DEF RunApply, Becomes, Proceed, Stop, files, RunOnly, initer
  <1>12. ASSUME NEW r \in Runner, RunAppend(r) PROVE GenesisInv'
    BY <1>12 DEF RunAppend, Becomes, Stop, files, db, RunOnly, initer
  <1>13. ASSUME NEW r \in Runner, RunSave(r) PROVE GenesisInv'
    BY <1>13 DEF RunSave, Proceed, db, RunOnly, initer
  <1>14. ASSUME NEW r \in Runner, RunOpen(r) PROVE GenesisInv'
    BY <1>14 DEF RunOpen, Becomes, Proceed, Stop, files, db, RunOnly, initer
  <1>15. ASSUME NEW r \in Runner, LoadKey(r) PROVE GenesisInv'
    BY <1>15 DEF LoadKey, Becomes, Stop, files, db, RunOnly, initer
  <1>16. ASSUME NEW r \in Runner, ApplyBlock(r) PROVE GenesisInv'
    BY <1>16 DEF ApplyBlock, Proceed, files, RunOnly, initer
  <1>17. ASSUME NEW r \in Runner, RunDies(r) PROVE GenesisInv'
    BY <1>17 DEF RunDies, Becomes, Stop, files, db, initer
  <1>18. CASE UNCHANGED vars
    BY <1>18 DEF vars, files, db, initer, runner
  <1> QED BY Zenon, <1>1, <1>2, <1>3, <1>4, <1>5, <1>6, <1>7, <1>8, <1>9, <1>10, <1>11,
             <1>12, <1>13, <1>14, <1>15, <1>16, <1>17, <1>18
          DEF Next, InitStep, RunStep

\* Every step keeps files, database and chain on one genesis.
LEMMA StoreStep == GenesisInv /\ StoreInv /\ [Next]_vars => StoreInv'
  <1> SUFFICES ASSUME GenesisInv, StoreInv, [Next]_vars PROVE StoreInv'
    OBVIOUS
  <1> USE BootstrapAssumption
      DEF GenesisInv, TypeOK, StoreInv, NoneRuns, RunPc, Rooted, Genesis, Joining
  <1>1. CASE RunInit \/ RunInitJoin
    <2>1. ~misused' => ~misused /\ meta = None /\ NoneRuns(Runner)
      BY Zenon, <1>1 DEF RunInit, RunInitJoin, Begin
    <2>2. /\ \/ ipc' = "truncKey" /\ igen' \in Key
             \/ ipc' = "truncGenesis"
          /\ UNCHANGED <<files, db, runner>>
      BY <1>1, KeyIsNew DEF RunInit, RunInitJoin, Begin
    <2> QED BY <2>1, <2>2 DEF files, db, runner
  <1>2. CASE SaveKey
    BY <1>2 DEF SaveKey, Goto, db, InitOnly, runner
  <1>3. CASE WriteGenesisFile
    BY <1>3 DEF WriteGenesisFile, Goto, db, InitOnly, runner
  <1>4. CASE InitOpen
    BY <1>4 DEF InitOpen, Goto, Exit, files, db, InitOnly, runner
  <1>5. CASE InitApply
    BY <1>5 DEF InitApply, Goto, files, InitOnly, runner
  <1>6. CASE InitChain
    BY <1>6 DEF InitChain, Goto, Exit, files, db, InitOnly, runner
  <1>7. CASE InitAppend
    BY <1>7 DEF InitAppend, Goto, Exit, db, InitOnly, runner
  <1>8. CASE InitDies
    BY <1>8 DEF InitDies, Exit, files, db, runner
  <1>9. ASSUME NEW r \in Runner, StartRun(r) PROVE StoreInv'
    <2> SUFFICES ASSUME ~misused' PROVE StoreInv'
      BY Zenon DEF StoreInv
    <2>1. ~misused /\ ipc = "off" /\ (\A q \in Runner : rpc[q] = "off") /\ meta # Torn
      BY Zenon, <1>9 DEF StartRun, AcceptsMeta
    <2>2. rpc' = [rpc EXCEPT ![r] = "load"] /\ rtip' = [rtip EXCEPT ![r] = meta]
      BY Zenon, <1>9, <2>1 DEF StartRun, Becomes
    <2>3. UNCHANGED <<genesisFile, meta, seed, ipc>>
      BY Zenon, <1>9 DEF StartRun, files, db, initer
    <2>4. meta = None \/ (genesisFile = meta /\ seed = meta)
      BY Zenon, <2>1
    <2>5. ASSUME NEW q \in Runner
          PROVE  rpc'[q] = "off" \/ (rpc'[q] = "load" /\ rtip'[q] = meta)
      BY Zenon, <2>1, <2>2
    <2> QED BY <2>1, <2>3, <2>4, <2>5
  <1>10. ASSUME NEW r \in Runner, LoadGenesis(r) PROVE StoreInv'
    BY <1>10 DEF LoadGenesis, Becomes, Stop, files, db, RunOnly, initer
  <1>11. ASSUME NEW r \in Runner, RunApply(r) PROVE StoreInv'
    BY <1>11 DEF RunApply, Becomes, Proceed, Stop, files, RunOnly, initer
  <1>12. ASSUME NEW r \in Runner, RunAppend(r) PROVE StoreInv'
    BY <1>12 DEF RunAppend, Becomes, Stop, files, db, RunOnly, initer
  <1>13. ASSUME NEW r \in Runner, RunSave(r) PROVE StoreInv'
    BY <1>13 DEF RunSave, Proceed, db, RunOnly, initer
  <1>14. ASSUME NEW r \in Runner, RunOpen(r) PROVE StoreInv'
    BY <1>14 DEF RunOpen, Becomes, Proceed, Stop, files, db, RunOnly, initer
  <1>15. ASSUME NEW r \in Runner, LoadKey(r) PROVE StoreInv'
    BY <1>15 DEF LoadKey, Becomes, Stop, files, db, RunOnly, initer
  <1>16. ASSUME NEW r \in Runner, ApplyBlock(r) PROVE StoreInv'
    BY <1>16 DEF ApplyBlock, Proceed, files, RunOnly, initer
  <1>17. ASSUME NEW r \in Runner, RunDies(r) PROVE StoreInv'
    BY <1>17 DEF RunDies, Becomes, Stop, files, db, initer
  <1>18. CASE UNCHANGED vars
    BY <1>18 DEF vars, files, db, initer, runner
  <1> QED BY Zenon, <1>1, <1>2, <1>3, <1>4, <1>5, <1>6, <1>7, <1>8, <1>9, <1>10, <1>11,
             <1>12, <1>13, <1>14, <1>15, <1>16, <1>17, <1>18
          DEF Next, InitStep, RunStep

\* Every genesis written comes from a key generated here.
LEMMA KeyStep == GenesisInv /\ KeyInv /\ [Next]_vars => KeyInv'
  <1> SUFFICES ASSUME GenesisInv, KeyInv, [Next]_vars PROVE KeyInv'
    OBVIOUS
  <1> USE BootstrapAssumption DEF GenesisInv, TypeOK, KeyInv, Genesis
  <1>1. CASE RunInit \/ RunInitJoin
    BY <1>1, KeyIsNew DEF RunInit, RunInitJoin, Begin, files, db, runner
  <1>2. CASE SaveKey
    BY <1>2 DEF SaveKey, Goto, db, InitOnly, runner
  <1>3. CASE WriteGenesisFile
    BY <1>3 DEF WriteGenesisFile, Goto, db, InitOnly, runner
  <1>4. CASE InitOpen
    BY <1>4 DEF InitOpen, Goto, Exit, files, db, InitOnly, runner
  <1>5. CASE InitApply
    BY <1>5 DEF InitApply, Goto, files, InitOnly, runner
  <1>6. CASE InitChain
    BY <1>6 DEF InitChain, Goto, Exit, files, db, InitOnly, runner
  <1>7. CASE InitAppend
    BY <1>7 DEF InitAppend, Goto, Exit, db, InitOnly, runner
  <1>8. CASE InitDies
    BY <1>8 DEF InitDies, Exit, files, db, runner
  <1>9. ASSUME NEW r \in Runner, StartRun(r) PROVE KeyInv'
    BY <1>9 DEF StartRun, AcceptsMeta, Becomes, files, db, initer
  <1>10. ASSUME NEW r \in Runner, LoadGenesis(r) PROVE KeyInv'
    BY <1>10 DEF LoadGenesis, Becomes, Stop, files, db, RunOnly, initer
  <1>11. ASSUME NEW r \in Runner, RunApply(r) PROVE KeyInv'
    BY <1>11 DEF RunApply, Becomes, Proceed, Stop, files, RunOnly, initer
  <1>12. ASSUME NEW r \in Runner, RunAppend(r) PROVE KeyInv'
    BY <1>12 DEF RunAppend, Becomes, Stop, files, db, RunOnly, initer
  <1>13. ASSUME NEW r \in Runner, RunSave(r) PROVE KeyInv'
    BY <1>13 DEF RunSave, Proceed, db, RunOnly, initer
  <1>14. ASSUME NEW r \in Runner, RunOpen(r) PROVE KeyInv'
    BY <1>14 DEF RunOpen, Becomes, Proceed, Stop, files, db, RunOnly, initer
  <1>15. ASSUME NEW r \in Runner, LoadKey(r) PROVE KeyInv'
    BY <1>15 DEF LoadKey, Becomes, Stop, files, db, RunOnly, initer
  <1>16. ASSUME NEW r \in Runner, ApplyBlock(r) PROVE KeyInv'
    BY <1>16 DEF ApplyBlock, Proceed, files, RunOnly, initer
  <1>17. ASSUME NEW r \in Runner, RunDies(r) PROVE KeyInv'
    BY <1>17 DEF RunDies, Becomes, Stop, files, db, initer
  <1>18. CASE UNCHANGED vars
    BY <1>18 DEF vars, files, db, initer, runner
  <1> QED BY Zenon, <1>1, <1>2, <1>3, <1>4, <1>5, <1>6, <1>7, <1>8, <1>9, <1>10, <1>11,
             <1>12, <1>13, <1>14, <1>15, <1>16, <1>17, <1>18
          DEF Next, InitStep, RunStep

\* A -run that overlaps no other -run writes no genesis over a database that
\* holds blocks.
THEOREM GenesisOnceCorrect == Spec => []GenesisOnce
  <1>1. Init => GenesisInv
    BY BootstrapAssumption DEF Init, GenesisInv, TypeOK, GenesisOnce, RunPc, Rooted, Genesis
  <1>2. GenesisInv => GenesisOnce
    BY DEF GenesisInv
  <1> QED BY <1>1, <1>2, GenesisStep, PTL DEF Spec

\* A running node has one genesis in genesis.json, database and chain, and
\* the key of its validator if no other key was ever made.
THEOREM BootstrapCorrect == Spec => []Bootstrapped
  <1>1. Init => GenesisInv /\ StoreInv /\ KeyInv
    BY BootstrapAssumption
       DEF Init, GenesisInv, TypeOK, GenesisOnce, RunPc, Rooted, Genesis, StoreInv, KeyInv
  <1>2. GenesisInv /\ StoreInv /\ KeyInv => Bootstrapped
    BY BootstrapAssumption DEF GenesisInv, TypeOK, StoreInv, KeyInv, Rooted, Genesis, Bootstrapped
  <1> QED BY <1>1, <1>2, GenesisStep, StoreStep, KeyStep, PTL DEF Spec
=============================================================================
