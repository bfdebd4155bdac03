----------------------------- MODULE StoreVault -----------------------------
(***************************************************************************)
(* The key store on disk and its master key: how a process comes by the    *)
(* key (keyvault.rs), how it opens the encrypted store (keystore.rs), and  *)
(* how migrate-encrypt (migrate.rs) replaces a plaintext store by an       *)
(* encrypted one.  Gateways and admin commands may start at any time, also *)
(* two at once and in the middle of a migration; any process may die       *)
(* between two steps.  RocksDB's LOCK file lives in the directory it       *)
(* guards and moves with it.  One migration runs at a time.                *)
(***************************************************************************)
EXTENDS Naturals, FiniteSets

CONSTANTS
  Procs,        \* gateways and admin commands
  Rows,         \* data rows of a store
  KnownRows,    \* the rows whose namespace and value migrate-encrypt knows
  EnvKey,       \* the key the operator may put into GATEWAY_STORE_KEY
  NewKeys,      \* bound: the keys that are generated, each of them once
  Missing,      \* a directory that does not exist
  MaxStarts     \* bound: starts of a process in a behaviour

MasterKeys == NewKeys \cup {EnvKey}
NoKey == "none"

\* A directory: the key of the meta:enc marker, for every row the key it is
\* sealed under, "plain" or "none", and who holds the LOCK.
Stores == [marker : MasterKeys \cup {NoKey}, rows : [Rows -> MasterKeys \cup {"plain", "none"}],
           owner : Procs \cup {"nobody", "migrate"}]

\* Keys, processes and directories are none of the marks used beside them.
ASSUME ConstantsAssumption ==
  /\ KnownRows \subseteq Rows
  /\ MaxStarts \in Nat
  /\ EnvKey \notin NewKeys \cup {"malformed", "unset"}
  /\ \A k \in MasterKeys : k \notin {NoKey, "plain", "empty", "absent", "error"}
  /\ \A p \in Procs : p \notin {"nobody", "migrate"}
  /\ Missing \notin Stores

Blank == [marker |-> NoKey, rows |-> [r \in Rows |-> "none"], owner |-> "nobody"]

VARIABLES
  env,       \* GATEWAY_STORE_KEY: EnvKey, "malformed" or "unset"
  keyFile,   \* the key file: a key, "empty" or "absent"
  minted,    \* the keys generated so far
  path,      \* the directory at the configured path
  staging,   \* <path>.migrating
  backups,   \* <path>.pre-encrypt-<timestamp>
  starts,    \* starts so far
  proc,      \* proc[p]: where a gateway or admin command stands, and its key
  mig,       \* the same for migrate-encrypt
  written    \* history: rows that were acknowledged to somebody

fileVars == <<keyFile, path, staging, backups>>
vars == <<env, fileVars, minted, starts, proc, mig, written>>

Off == [pc |-> "off", key |-> NoKey]
MigOff == [pc |-> "off", key |-> NoKey, dry |-> FALSE]

-----------------------------------------------------------------------------
(* Sourcing the master key: load_store_key.                                *)

\* What the environment and the key file yield without generating a key: a
\* key, "error" (malformed, unreadable), or "absent".
SourcedKey ==
  CASE env = "malformed"  -> "error"
    [] env = EnvKey       -> EnvKey
    [] keyFile = "empty"  -> "error"
    [] OTHER              -> keyFile

Start(p) ==
  /\ proc[p] = Off
  /\ starts < MaxStarts
  /\ starts' = starts + 1
  /\ proc' = [proc EXCEPT ![p].pc = "sourcing"]
  /\ UNCHANGED <<env, fileVars, minted, mig, written>>

\* Environment before file; only if there is neither, a key is generated.
SourceKey(p) ==
  /\ proc[p].pc = "sourcing"
  /\ SourcedKey # "error"
  /\ proc' = [proc EXCEPT ![p] =
                IF SourcedKey = "absent" THEN [pc |-> "generating", key |-> NoKey]
                ELSE [pc |-> "opening", key |-> SourcedKey]]
  /\ UNCHANGED <<env, fileVars, minted, starts, mig, written>>

\* Mutant: the key file is opened with create instead of create_new.
CanCreate == TRUE

\* write_key_file opens with create_new: it never replaces a file.
CanCreateNew == keyFile = "absent"

CreateKeyFile(p) ==
  /\ proc[p].pc = "generating"
  /\ CanCreateNew
  /\ keyFile' = "empty"
  /\ \E k \in NewKeys \ minted :
       /\ minted' = minted \cup {k}
       /\ proc' = [proc EXCEPT ![p] = [pc |-> "writing", key |-> k]]
  /\ UNCHANGED <<env, path, staging, backups, starts, mig, written>>

\* The key is written and synced before it seals anything.
WriteKeyFile(p) ==
  /\ proc[p].pc = "writing"
  /\ keyFile' = proc[p].key
  /\ proc' = [proc EXCEPT ![p].pc = "opening"]
  /\ UNCHANGED <<env, minted, path, staging, backups, starts, mig, written>>

-----------------------------------------------------------------------------
(* Opening and using the store: PersistentKeyStore.                        *)

\* check_or_init_enc_marker: the marker opens under the key, or there is no
\* marker and no row yet.  Anything else is refused.
OpensUnder(store, key) ==
  store # Missing => store = Blank \/ store.marker = key

Free(store) == store # Missing => store.owner = "nobody"

\* DB::open takes the LOCK and creates a missing store; the marker is
\* written, synced, into an empty one.
OpenStore(p) ==
  LET k == proc[p].key IN
  /\ proc[p].pc = "opening"
  /\ Free(path)
  /\ OpensUnder(path, k)
  /\ path' = [(IF path = Missing THEN Blank ELSE path) EXCEPT !.marker = k, !.owner = p]
  /\ proc' = [proc EXCEPT ![p].pc = "running"]
  /\ UNCHANGED <<env, keyFile, minted, staging, backups, starts, mig, written>>

\* Died between creating the directory and writing the marker.
DieCreating(p) ==
  /\ proc[p].pc = "opening"
  /\ path = Missing
  /\ path' = Blank
  /\ proc' = [proc EXCEPT ![p] = Off]
  /\ UNCHANGED <<env, keyFile, minted, staging, backups, starts, mig, written>>

\* put_val: the value is sealed under the master key and goes into the
\* directory the process opened, wherever that has been renamed to.
Put(store, p, r) ==
  IF store # Missing /\ store.owner = p THEN [store EXCEPT !.rows[r] = proc[p].key] ELSE store

PutRow(p, r) ==
  /\ proc[p].pc = "running"
  /\ path' = Put(path, p, r)
  /\ backups' = {Put(d, p, r) : d \in backups}
  /\ written' = written \cup {r}
  /\ UNCHANGED <<env, keyFile, minted, staging, starts, proc, mig>>

Release(store, who) ==
  IF store # Missing /\ store.owner = who THEN [store EXCEPT !.owner = "nobody"] ELSE store

\* An error ends the start, the command ends, or the process is killed; the
\* operating system releases the LOCK.
Exit(p) ==
  /\ proc[p] # Off
  /\ proc' = [proc EXCEPT ![p] = Off]
  /\ path' = Release(path, p)
  /\ backups' = {Release(d, p) : d \in backups}
  /\ UNCHANGED <<env, keyFile, minted, staging, starts, mig, written>>

-----------------------------------------------------------------------------
(* migrate-encrypt.                                                        *)

\* Mutant: a dry run generates a key as well.
MayGenerateAlways == TRUE

\* A dry run does without a key rather than generate one.
MayGenerate == ~mig.dry

MigStart(dry) ==
  /\ mig = MigOff
  /\ starts < MaxStarts
  /\ starts' = starts + 1
  /\ mig' = [pc |-> "sourcing", key |-> NoKey, dry |-> dry]
  /\ UNCHANGED <<env, fileVars, minted, proc, written>>

MigSourceKey ==
  /\ mig.pc = "sourcing"
  /\ SourcedKey # "error"
  /\ mig' = IF SourcedKey # "absent" THEN [mig EXCEPT !.pc = "opening", !.key = SourcedKey]
            ELSE IF MayGenerate THEN [mig EXCEPT !.pc = "generating"]
            ELSE [mig EXCEPT !.pc = "opening"]
  /\ UNCHANGED <<env, fileVars, minted, starts, proc, written>>

MigCreateKeyFile ==
  /\ mig.pc = "generating"
  /\ CanCreateNew
  /\ keyFile' = "empty"
  /\ \E k \in NewKeys \ minted :
       /\ minted' = minted \cup {k}
       /\ mig' = [mig EXCEPT !.pc = "writing", !.key = k]
  /\ UNCHANGED <<env, path, staging, backups, starts, proc, written>>

MigWriteKeyFile ==
  /\ mig.pc = "writing"
  /\ keyFile' = mig.key
  /\ mig' = [mig EXCEPT !.pc = "opening"]
  /\ UNCHANGED <<env, minted, path, staging, backups, starts, proc, written>>

\* (1) Take the LOCK of an existing store.  Only a dry run has no key.
MigOpen ==
  /\ mig.pc = "opening"
  /\ mig.key # NoKey \/ mig.dry
  /\ path # Missing
  /\ Free(path)
  /\ path' = [path EXCEPT !.owner = "migrate"]
  /\ mig' = [mig EXCEPT !.pc = "scanning"]
  /\ UNCHANGED <<env, keyFile, minted, staging, backups, starts, proc, written>>

\* Mutant: rows of an unknown kind are skipped.
MigratableKnown ==
  path.marker = NoKey /\ \A r \in KnownRows : path.rows[r] \in {"plain", "none"}

\* (2), (3) No marker, and every row parses as the plaintext schema.
Migratable ==
  /\ path.marker = NoKey
  /\ \A r \in Rows : \/ path.rows[r] = "none"
                     \/ path.rows[r] = "plain" /\ r \in KnownRows

\* A dry run stops after the scan, as does a run on any other store.
MigScan ==
  /\ mig.pc = "scanning"
  /\ IF Migratable /\ ~mig.dry
     THEN /\ mig' = [mig EXCEPT !.pc = "clearing"]
          /\ UNCHANGED path
     ELSE /\ mig' = MigOff
          /\ path' = Release(path, "migrate")
  /\ UNCHANGED <<env, keyFile, minted, staging, backups, starts, proc, written>>

\* (4) Remove the leftover of an earlier run, open a fresh staging store.
MigClear ==
  /\ mig.pc = "clearing"
  /\ staging' = [Blank EXCEPT !.marker = mig.key]
  /\ mig' = [mig EXCEPT !.pc = "copying"]
  /\ UNCHANGED <<env, keyFile, minted, path, backups, starts, proc, written>>

MigCopy(r) ==
  /\ mig.pc = "copying"
  /\ path.rows[r] = "plain"
  /\ r \in KnownRows
  /\ staging.rows[r] = "none"
  /\ staging' = [staging EXCEPT !.rows[r] = mig.key]
  /\ UNCHANGED <<env, keyFile, minted, path, backups, starts, proc, mig, written>>

\* (5) Every row scanned reads back from the staging store.
Verified ==
  \A r \in KnownRows : path.rows[r] = "plain" => staging.rows[r] = mig.key

\* Both stores are closed before the swap.
MigVerify ==
  /\ mig.pc = "copying"
  /\ Verified
  /\ path' = Release(path, "migrate")
  /\ mig' = [mig EXCEPT !.pc = "swapping"]
  /\ UNCHANGED <<env, keyFile, minted, staging, backups, starts, proc, written>>

\* (6) Two renames.  The first fails if there is nothing at path any more ...
MigSetAside ==
  /\ mig.pc = "swapping"
  /\ path # Missing
  /\ backups' = backups \cup {path}
  /\ path' = Missing
  /\ mig' = [mig EXCEPT !.pc = "installing"]
  /\ UNCHANGED <<env, keyFile, minted, staging, starts, proc, written>>

\* ... and the second if a store came into being there meanwhile.
PathFree == path = Missing

MigInstall ==
  /\ mig.pc = "installing"
  /\ PathFree
  /\ path' = staging
  /\ staging' = Missing
  /\ mig' = MigOff
  /\ UNCHANGED <<env, keyFile, minted, backups, starts, proc, written>>

\* An error ends the migration, or it is killed.
MigExit ==
  /\ mig # MigOff
  /\ mig' = MigOff
  /\ path' = Release(path, "migrate")
  /\ UNCHANGED <<env, keyFile, minted, staging, backups, starts, proc, written>>

-----------------------------------------------------------------------------
\* The operator edits the unit file.
SetEnv(e) ==
  /\ e # env
  /\ env' = e
  /\ UNCHANGED <<fileVars, minted, starts, proc, mig, written>>

\* A new installation, or one with a store from before encryption.
Init ==
  /\ env = "unset"
  /\ keyFile = "absent"
  /\ minted = {}
  /\ \/ path = Missing
     \/ \E R \in (SUBSET Rows) \ {{}} :
          path = [Blank EXCEPT !.rows = [r \in Rows |-> IF r \in R THEN "plain" ELSE "none"]]
  /\ staging = Missing
  /\ backups = {}
  /\ starts = 0
  /\ proc = [p \in Procs |-> Off]
  /\ mig = MigOff
  /\ written = IF path = Missing THEN {} ELSE {r \in Rows : path.rows[r] = "plain"}

MigStep ==
  \/ \E dry \in BOOLEAN : MigStart(dry)
  \/ MigSourceKey \/ MigCreateKeyFile \/ MigWriteKeyFile \/ MigOpen \/ MigScan
  \/ MigClear \/ MigVerify \/ MigSetAside \/ MigInstall \/ MigExit
  \/ \E r \in Rows : MigCopy(r)

Next ==
  \/ \E p \in Procs :
       \/ Start(p) \/ SourceKey(p) \/ CreateKeyFile(p) \/ WriteKeyFile(p)
       \/ OpenStore(p) \/ DieCreating(p) \/ Exit(p)
       \/ \E r \in Rows : PutRow(p, r)
  \/ MigStep
  \/ \E e \in {EnvKey, "malformed", "unset"} : SetEnv(e)

Spec == Init /\ [][Next]_vars

-----------------------------------------------------------------------------
(* Properties.                                                             *)

Directories == {d \in backups \cup {path, staging} : d # Missing}

TypeOK ==
  /\ env \in {EnvKey, "malformed", "unset"}
  /\ keyFile \in MasterKeys \cup {"empty", "absent"}
  /\ minted \subseteq NewKeys
  /\ Directories \subseteq Stores
  /\ starts \in 0..MaxStarts
  /\ proc \in [Procs -> [pc : {"off", "sourcing", "generating", "writing", "opening", "running"},
                         key : MasterKeys \cup {NoKey}]]
  /\ mig \in [pc : {"off", "sourcing", "generating", "writing", "opening", "scanning",
                    "clearing", "copying", "swapping", "installing"},
              key : MasterKeys \cup {NoKey}, dry : BOOLEAN]
  /\ written \subseteq Rows

\* NoMixedStore: no directory, not even one a crash leaves behind, holds
\* plaintext beside sealed rows or rows under two keys; the marker says
\* under which (keystore.rs: "encrypted from its first row").
NoMixedStore ==
  \A d \in Directories :
    \A r \in Rows : d.rows[r] \in (IF d.marker = NoKey THEN {"plain"} ELSE {d.marker}) \cup {"none"}

\* KeyNeverLost: whatever is sealed anywhere is sealed under the operator's
\* key or under the key in the key file: racing first starts and crashes
\* never leave data under a generated key that was not kept
\* (write_key_file: "can't silently overwrite each other's key").
KeyNeverLost ==
  \A d \in Directories : d.marker \in {NoKey, EnvKey, keyFile}

\* RunningStoreReadable: a running process holds the LOCK of a directory and
\* its key opens every row of it, whatever other processes, migrations and
\* changes of the key's source went on since it started.
RunningStoreReadable ==
  \A p \in Procs :
    proc[p].pc = "running" =>
      \E d \in Directories :
        /\ d.owner = p
        /\ d.marker = proc[p].key
        /\ \A r \in Rows : d.rows[r] \in {proc[p].key, "none"}

\* VaultInv: every directory can be read by who runs on it, and always with
\* a key that still exists.
VaultInv == TypeOK /\ NoMixedStore /\ KeyNeverLost /\ RunningStoreReadable

\* SwapIsSafe: when migrate-encrypt is about to rename, every row of the
\* store at path is sealed in the staging store, and no process has opened
\* the store at path, although the LOCK is given up before the first rename
\* (migrate.rs: "a live gateway makes this fail instead of racing it").  A
\* store without rows is exempt: a gateway does open one, and its directory
\* is then renamed from under it.
SwapIsSafe ==
  mig.pc = "swapping" =>
    LET Sealed == {r \in Rows : staging.rows[r] = mig.key} IN
    /\ path # Missing
    /\ Sealed # {} => path.owner = "nobody"
    /\ path.owner = "nobody" /\ path.marker = NoKey =>
         {r \in Rows : path.rows[r] # "none"} = Sealed

\* NoRowLost: every row that was there or acknowledged is still in one of
\* the directories (migrate.rs: a crash between the renames "loses
\* nothing").
NoRowLost ==
  \A r \in written : \E d \in Directories : d.rows[r] # "none"

\* MigrationInv: migrate-encrypt swaps in what it copied, and loses nothing
\* however it is interrupted.
MigrationInv == SwapIsSafe /\ NoRowLost

\* DryRunWritesNothing: no step of a dry run changes a file, not even the
\* key file (citrate-gateway-admin.rs: "Dry runs never write"); the LOCK it
\* takes is given back.
Contents(store) == Release(store, "migrate")
DryRunWritesNothing ==
  [][mig.dry /\ MigStep =>
       /\ UNCHANGED <<keyFile, staging, backups>>
       /\ Contents(path') = Contents(path)]_vars
=============================================================================
