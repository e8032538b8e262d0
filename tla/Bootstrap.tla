----------------------------- MODULE Bootstrap ------------------------------
(***************************************************************************)
(* A data directory from its first command to a running node: -init,       *)
(* -init-join and the start of -run (cmd/node/main.go), with the files and *)
(* the database they write one after the other.  Every os.WriteFile is a   *)
(* truncation and a write, a process may die between any two steps, and    *)
(* the operator may then give any command again.                           *)
(*                                                                         *)
(* A genesis is known by the key of its validator, since everything else   *)
(* in genesis.json is the same for all.  The database is the genesis last  *)
(* written to it and whether it holds blocks; chain.json is the genesis of *)
(* the tip.  LevelDB lets one process at a time open the database, but     *)
(* -run reads chain.json and genesis.json before it opens it: two of them  *)
(* can be under way at once.                                               *)
(*                                                                         *)
(* An unused operator just before the one it resembles is a mistake the    *)
(* code might have made; the properties must tell the two apart.           *)
(***************************************************************************)
EXTENDS Naturals

CONSTANTS
  Key,         \* bound: the keys commands generate, one per command
  Runner,      \* bound: processes given -run
  Foreign,     \* validator of the genesis -init-join copies
  None,        \* no file, no genesis
  Torn,        \* a file between truncation and write
  MaxFaults    \* bound: deaths of a process

ASSUME BootstrapAssumption ==
  /\ Foreign \notin Key /\ None \notin Key \cup {Foreign}
  /\ Torn \notin Key \cup {Foreign, None} /\ MaxFaults \in Nat

Genesis == Key \cup {Foreign}

VARIABLES
  keyFile, genesisFile, meta,   \* validator_key.json, genesis.json, chain.json
  seed, dirty,                  \* the database: its genesis; it holds blocks
  ipc, ikey, igen,              \* -init or -init-join: its key and genesis
  rpc, rtip, rgen, rkey,        \* -run: Chain.LastHash, genesis and key read
  \* history: keys used, whether a genesis was copied; whether a directory in
  \* use was initialised again or two commands ran at once; whether the two
  \* were -run; faults so far
  used, joined, misused, raced, faults

files  == <<keyFile, genesisFile, meta>>
db     == <<seed, dirty>>
initer == <<ipc, ikey, igen>>
runner == <<rpc, rtip, rgen, rkey>>
vars   == <<files, db, initer, runner, used, joined, misused, raced, faults>>

Init ==
  /\ keyFile = None /\ genesisFile = None /\ meta = None
  /\ seed = None /\ dirty = FALSE
  /\ ipc = "off" /\ ikey = None /\ igen = None
  /\ rpc = [r \in Runner |-> "off"]
  /\ rtip = [r \in Runner |-> None] /\ rgen = [r \in Runner |-> None]
  /\ rkey = [r \in Runner |-> None]
  /\ used = {} /\ joined = FALSE /\ misused = FALSE /\ raced = FALSE /\ faults = 0

\* The database is open in the process that initialises, or in one that runs.
InitHoldsState == ipc \in {"apply", "chain", "truncMeta", "writeMeta"}
RunHoldsState(R) ==
  \E r \in R : rpc[r] \in {"append", "truncMeta", "writeMeta", "key",
                           "running", "truncTip", "writeTip"}

NoneRuns(R) == \A r \in R : rpc[r] = "off"

-----------------------------------------------------------------------------
(* -init and -init-join. *)

\* crypto.GenerateKey.  One new key is as good as another.
NewKey == CHOOSE k \in Key : k \notin used

Begin(first, k, g) ==
  /\ ipc = "off" /\ used # Key
  /\ ipc' = first /\ ikey' = k /\ igen' = g
  /\ used' = used \cup {k}
  /\ misused' = (misused \/ meta # None \/ ~NoneRuns(Runner))
  /\ UNCHANGED <<files, db, runner, raced, faults>>

\* runInit writes the key first, runInitJoin the genesis it copies.
RunInit == Begin("truncKey", NewKey, NewKey) /\ UNCHANGED joined
RunInitJoin == Begin("truncGenesis", NewKey, Foreign) /\ joined' = TRUE
Joining == igen = Foreign

\* One step of the command, and its end.
Goto(step) == ipc' = step /\ UNCHANGED <<ikey, igen>>
Exit == ipc' = "off" /\ ikey' = None /\ igen' = None
InitOnly == <<runner, used, joined, misused, raced, faults>>

SaveKey ==
  /\ \/ ipc = "truncKey" /\ keyFile' = Torn /\ Goto("writeKey")
     \/ /\ ipc = "writeKey" /\ keyFile' = ikey
        /\ Goto(IF Joining THEN "open" ELSE "truncGenesis")
  /\ UNCHANGED <<genesisFile, meta, db, InitOnly>>

WriteGenesisOnce ==
  /\ \/ /\ ipc = "truncGenesis" /\ genesisFile = None
        /\ genesisFile' = Torn /\ Goto("writeGenesis")
     \/ /\ ipc = "writeGenesis" /\ genesisFile' = igen
        /\ Goto(IF Joining THEN "truncKey" ELSE "open")
  /\ UNCHANGED <<keyFile, meta, db, InitOnly>>
WriteGenesisFile ==
  /\ \/ ipc = "truncGenesis" /\ genesisFile' = Torn /\ Goto("writeGenesis")
     \/ /\ ipc = "writeGenesis" /\ genesisFile' = igen
        /\ Goto(IF Joining THEN "truncKey" ELSE "open")
  /\ UNCHANGED <<keyFile, meta, db, InitOnly>>

\* state.Open: an error when the other process has the database open.
InitOpen ==
  /\ ipc = "open"
  /\ IF RunHoldsState(Runner) THEN Exit ELSE Goto("apply")
  /\ UNCHANGED <<files, db, InitOnly>>

\* Genesis is written over whatever the database holds.
InitLeavesGenesisToRun ==
  /\ ipc = "apply"
  /\ Goto("chain")
  /\ UNCHANGED <<files, db, InitOnly>>
InitApply ==
  /\ ipc = "apply"
  /\ seed' = igen
  /\ Goto("chain")
  /\ UNCHANGED <<files, dirty, InitOnly>>

\* NewChain refuses a torn chain.json.
InitChain ==
  /\ ipc = "chain"
  /\ IF meta = Torn THEN Exit ELSE Goto("truncMeta")
  /\ UNCHANGED <<files, db, InitOnly>>

\* AppendBlock of the genesis block, and its Save.
InitAppend ==
  /\ \/ ipc = "truncMeta" /\ meta' = Torn /\ Goto("writeMeta")
     \/ ipc = "writeMeta" /\ meta' = igen /\ Exit
  /\ UNCHANGED <<keyFile, genesisFile, db, InitOnly>>

InitDies ==
  /\ ipc # "off" /\ faults < MaxFaults
  /\ faults' = faults + 1
  /\ Exit /\ UNCHANGED <<files, db, runner, used, joined, misused, raced>>

-----------------------------------------------------------------------------
(* -run. *)

Becomes(r, step, tip, gen, key) ==
  /\ rpc' = [rpc EXCEPT ![r] = step] /\ rtip' = [rtip EXCEPT ![r] = tip]
  /\ rgen' = [rgen EXCEPT ![r] = gen] /\ rkey' = [rkey EXCEPT ![r] = key]
Proceed(r, step) == rpc' = [rpc EXCEPT ![r] = step] /\ UNCHANGED <<rtip, rgen, rkey>>
Stop(r) == Becomes(r, "off", None, None, None)
RunOnly == <<initer, used, joined, misused, raced, faults>>
OthersHold(r) == InitHoldsState \/ RunHoldsState(Runner \ {r})

\* NewChain.
AcceptsTorn == TRUE
AcceptsMeta == meta # Torn
StartRun(r) ==
  /\ rpc[r] = "off" /\ AcceptsMeta
  /\ Becomes(r, "load", IF meta = Torn THEN None ELSE meta, None, None)
  /\ misused' = (misused \/ ipc # "off" \/ ~NoneRuns(Runner))
  /\ raced' = (raced \/ ~NoneRuns(Runner))
  /\ UNCHANGED <<files, db, initer, used, joined, faults>>

LoadGenesis(r) ==
  /\ rpc[r] = "load"
  /\ IF genesisFile \in Genesis
     THEN Becomes(r, IF rtip[r] = None THEN "seed" ELSE "open", rtip[r], genesisFile, None)
     ELSE Stop(r)
  /\ UNCHANGED <<files, db, RunOnly>>

\* No tip: genesis is applied, then its block appended.
RunApply(r) ==
  /\ rpc[r] = "seed"
  /\ IF OthersHold(r) THEN Stop(r) /\ UNCHANGED seed
     ELSE seed' = rgen[r] /\ Proceed(r, "append")
  /\ UNCHANGED <<files, dirty, RunOnly>>

\* The block is read from genesis.json again; the error is ignored and
\* AppendBlock then dereferences nil.
RunAppend(r) ==
  /\ rpc[r] = "append"
  /\ IF genesisFile \in Genesis
     THEN Becomes(r, "truncMeta", genesisFile, rgen[r], None)
     ELSE Stop(r)
  /\ UNCHANGED <<files, db, RunOnly>>

\* Save: of the genesis block, after which the database is closed, or of a
\* block of the running node.
RunSave(r) ==
  /\ \/ rpc[r] = "truncMeta" /\ meta' = Torn /\ Proceed(r, "writeMeta")
     \/ rpc[r] = "writeMeta" /\ meta' = rtip[r] /\ Proceed(r, "open")
     \/ rpc[r] = "truncTip" /\ meta' = Torn /\ Proceed(r, "writeTip")
     \/ rpc[r] = "writeTip" /\ meta' = rtip[r] /\ Proceed(r, "running")
  /\ UNCHANGED <<keyFile, genesisFile, db, RunOnly>>

RunOpen(r) ==
  /\ rpc[r] = "open"
  /\ IF OthersHold(r) THEN Stop(r) ELSE Proceed(r, "key")
  /\ UNCHANGED <<files, db, RunOnly>>

LoadKey(r) ==
  /\ rpc[r] = "key"
  /\ IF keyFile \in Key THEN Becomes(r, "running", rtip[r], rgen[r], keyFile) ELSE Stop(r)
  /\ UNCHANGED <<files, db, RunOnly>>

\* The running node makes a block: the database, then chain.json.
ApplyBlock(r) ==
  /\ rpc[r] = "running"
  /\ dirty' = TRUE /\ Proceed(r, "truncTip")
  /\ UNCHANGED <<files, seed, RunOnly>>

RunDies(r) ==
  /\ rpc[r] # "off" /\ faults < MaxFaults
  /\ faults' = faults + 1
  /\ Stop(r) /\ UNCHANGED <<files, db, initer, used, joined, misused, raced>>

-----------------------------------------------------------------------------
InitStep == SaveKey \/ WriteGenesisFile \/ InitOpen \/ InitApply \/ InitChain \/ InitAppend
RunStep(r) ==
  LoadGenesis(r) \/ RunApply(r) \/ RunAppend(r) \/ RunSave(r) \/ RunOpen(r) \/ LoadKey(r)

Next ==
  \/ RunInit \/ RunInitJoin \/ InitStep \/ InitDies
  \/ \E r \in Runner : StartRun(r) \/ RunStep(r) \/ ApplyBlock(r) \/ RunDies(r)

Spec == Init /\ [][Next]_vars

\* No command is running.
Quiet == ipc = "off" /\ NoneRuns(Runner)

\* Commands run to their end, and the operator repeats them: -init as long as
\* there is no chain, -run once there is one.
FairSpec ==
  /\ Spec
  /\ WF_vars(InitStep) /\ \A r \in Runner : WF_vars(RunStep(r))
  /\ SF_vars(Quiet /\ meta = None /\ RunInit)
  /\ WF_vars(Quiet /\ meta # None /\ \E r \in Runner : StartRun(r))

-----------------------------------------------------------------------------
(* Properties. *)

TypeOK ==
  /\ keyFile \in Key \cup {None, Torn} /\ genesisFile \in Genesis \cup {None, Torn}
  /\ meta \in Genesis \cup {None, Torn}
  /\ seed \in Genesis \cup {None}
  /\ ikey \in Key \cup {None} /\ igen \in Genesis \cup {None}
  /\ rtip \in [Runner -> Genesis \cup {None}] /\ rgen \in [Runner -> Genesis \cup {None}]
  /\ rkey \in [Runner -> Key \cup {None}]
  /\ used \subseteq Key /\ faults \in Nat

\* However often -init, -init-join and the first -run died on the way, a node
\* that runs has the genesis of genesis.json in its database and at the root
\* of its chain; and when one -init was all it took, its key is that genesis's
\* validator.  A directory whose chain exists must not be initialised again,
\* and commands must not overlap.
Bootstrapped ==
  ~misused => \A r \in Runner : rpc[r] = "running" =>
    /\ rgen[r] = genesisFile /\ seed = genesisFile /\ rtip[r] = genesisFile
    /\ used = {rkey[r]} /\ ~joined => rkey[r] = genesisFile

\* -run writes no genesis over a database that holds blocks, not even after a
\* death inside Save or beside an -init: a torn chain.json stops it, an absent
\* one means that no block was ever applied.  Nothing ensures it when two -run
\* overlap: one that found no chain.json may open the database after the other
\* has applied blocks and died.
GenesisOnce == ~raced => \A r \in Runner : rpc[r] = "seed" => ~dirty

\* An operator who repeats the commands gets a running node, with two
\* exceptions.  Nothing repairs a chain.json torn by a death inside Save.  And
\* when -init or -init-join dies with genesis.json written but no key, a -run
\* makes the chain before it misses the key; it never runs, and initialising
\* again is no longer safe.
Recovers ==
  []~misused =>
    []<>(\/ \E r \in Runner : rpc[r] = "running"
         \/ meta = Torn \/ (meta # None /\ keyFile \notin Key))
=============================================================================
