----------------------------- MODULE RocksStore -----------------------------
(***************************************************************************)
(* The RocksDB instance under PersistentKeyStore, as far as the gateway    *)
(* depends on it.  db is the content every reader sees.  A write with      *)
(* default options reaches the operating system but not the disk; a synced *)
(* write flushes the log, and with it every earlier write.  A process      *)
(* crash therefore loses nothing, and a power loss falls back to the state *)
(* after some prefix of the unsynced writes: survivors is the set of the   *)
(* contents that a power loss now could leave behind.                      *)
(***************************************************************************)
VARIABLES db, survivors

storeVars == <<db, survivors>>

\* put_opt with WriteOptions::default(): visible at once, durable later.
WriteUnsynced(new) ==
  /\ db' = new
  /\ survivors' = survivors \cup {new}

\* put_opt / write_opt with synced(): one atomic, durable commit.
WriteSynced(new) ==
  /\ db' = new
  /\ survivors' = {new}

\* The machine stops and the log is replayed up to what reached the disk.
LosePower ==
  \E s \in survivors :
    /\ db' = s
    /\ survivors' = {s}
=============================================================================
