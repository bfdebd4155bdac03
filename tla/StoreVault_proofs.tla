------------------------- MODULE StoreVault_proofs -------------------------
(***************************************************************************)
(* Proofs about StoreVault, for any processes, rows and keys and any       *)
(* number of starts: no process, migration or death between two steps      *)
(* leaves a mixed store, loses the master key or loses a row, and a dry    *)
(* run of the migration changes nothing; and, at the end, about MemberKeys,*)
(* whose rows that store holds.                                            *)
(***************************************************************************)
EXTENDS StoreVault, MemberKeys, FiniteSetTheorems, Totals_proofs

-----------------------------------------------------------------------------
(* The inductive invariant.                                                *)

\* The types, but for the directories.
Shape ==
  /\ env \in {EnvKey, "malformed", "unset"}
  /\ keyFile \in MasterKeys \cup {"empty", "absent"}
  /\ minted \subseteq NewKeys
  /\ starts \in 0..MaxStarts
  /\ proc \in [Procs -> [pc : {"off", "sourcing", "generating", "writing", "opening", "running"},
                         key : MasterKeys \cup {NoKey}]]
  /\ mig \in [pc : {"off", "sourcing", "generating", "writing", "opening", "scanning",
                    "clearing", "copying", "swapping", "installing"},
              key : MasterKeys \cup {NoKey}, dry : BOOLEAN]
  /\ written \subseteq Rows

\* The operator has the key, or the key file does.
Kept(k) == k \in MasterKeys /\ k \in {EnvKey, keyFile}

\* A key is kept before it is used; while one is on its way into the key
\* file, the file is empty and nobody else writes it.
KeyPart ==
  /\ \A p \in Procs :
       /\ proc[p].pc \in {"opening", "running"} => Kept(proc[p].key)
       /\ proc[p].pc = "writing" => keyFile = "empty" /\ proc[p].key \in NewKeys
       /\ proc[p].pc = "writing" => mig.pc # "writing"
       /\ \A q \in Procs : proc[p].pc = "writing" /\ proc[q].pc = "writing" => p = q
  /\ mig.pc = "writing" => keyFile = "empty" /\ mig.key \in NewKeys
  /\ mig.pc \in {"opening", "scanning"} => Kept(mig.key) \/ mig.dry
  /\ mig.pc \in {"clearing", "copying", "swapping", "installing"} => Kept(mig.key)

\* What holds of every directory: its marker names a kept key, its rows are
\* sealed under it, and a process that owns it runs with that key.
Sound(d) ==
  /\ d \in Stores
  /\ d.marker \in {NoKey, EnvKey, keyFile}
  /\ \A r \in Rows : d.rows[r] \in (IF d.marker = NoKey THEN {"plain"} ELSE {d.marker}) \cup {"none"}
  /\ d.owner \in Procs => proc[d.owner].pc = "running" /\ proc[d.owner].key = d.marker

DirectoryPart ==
  /\ path # Missing => Sound(path)
  /\ staging # Missing => Sound(staging) /\ staging.owner = "nobody"
  /\ \A d \in backups : Sound(d) /\ d.owner # "migrate"

\* A running process holds the LOCK of a directory.
LockPart ==
  \A p \in Procs : proc[p].pc = "running" =>
    (path # Missing /\ path.owner = p) \/ \E d \in backups : d.owner = p

\* How far the migration has come.
MigrationPart ==
  /\ mig.dry => mig.pc \in {"sourcing", "opening", "scanning"}
  /\ IF mig.pc \in {"scanning", "clearing", "copying"}
     THEN path # Missing /\ path.owner = "migrate"
     ELSE path # Missing => path.owner # "migrate"
  /\ mig.pc \in {"clearing", "copying"} => Migratable
  /\ mig.pc \in {"copying", "swapping", "installing"} =>
       staging # Missing /\ staging.marker = mig.key
  /\ mig.pc = "copying" => \A r \in Rows : staging.rows[r] # "none" => path.rows[r] = "plain"
  /\ mig.pc = "swapping" =>
       /\ path # Missing
       /\ \/ /\ path.marker = NoKey /\ path.owner = "nobody"
             /\ \A r \in Rows : path.rows[r] # "none" <=> staging.rows[r] = mig.key
          \/ /\ path.marker # NoKey
             /\ \A r \in Rows : staging.rows[r] # mig.key

\* Nothing is lost: the staging store is never the only place of a row.
RowPart ==
  \A r \in written : \/ path # Missing /\ path.rows[r] # "none"
                     \/ \E d \in backups : d.rows[r] # "none"

IInv == Shape /\ KeyPart /\ DirectoryPart /\ LockPart /\ MigrationPart /\ RowPart

-----------------------------------------------------------------------------
(* Directories.                                                            *)

LEMMA BlankIs ==
  /\ Blank \in Stores /\ Blank.marker = NoKey /\ Blank.owner = "nobody"
  /\ \A r \in Rows : Blank.rows[r] = "none"
BY DEF Blank, Stores

LEMMA NotMissing ==
  ASSUME NEW d \in Stores
  PROVE  d # Missing
BY ConstantsAssumption

\* Taking and giving back the LOCK.
LEMMA OwnerUpdate ==
  ASSUME NEW d \in Stores, NEW o \in Procs \cup {"nobody", "migrate"}
  PROVE  /\ [d EXCEPT !.owner = o] \in Stores
         /\ [d EXCEPT !.owner = o].owner = o
         /\ [d EXCEPT !.owner = o].marker = d.marker
         /\ [d EXCEPT !.owner = o].rows = d.rows
BY DEF Stores

LEMMA ReleaseIs ==
  ASSUME NEW d \in Stores, NEW who
  PROVE  /\ Release(d, who) \in Stores
         /\ Release(d, who).owner = IF d.owner = who THEN "nobody" ELSE d.owner
         /\ Release(d, who).marker = d.marker
         /\ Release(d, who).rows = d.rows
BY OwnerUpdate, NotMissing DEF Release

\* A row is written under a key.
LEMMA RowUpdate ==
  ASSUME NEW d \in Stores, NEW r \in Rows, NEW k \in MasterKeys
  PROVE  /\ [d EXCEPT !.rows[r] = k] \in Stores
         /\ [d EXCEPT !.rows[r] = k].owner = d.owner
         /\ [d EXCEPT !.rows[r] = k].marker = d.marker
         /\ \A q \in Rows : [d EXCEPT !.rows[r] = k].rows[q] = IF q = r THEN k ELSE d.rows[q]
<1>1. d.rows \in [Rows -> MasterKeys \cup {"plain", "none"}]
  BY DEF Stores
<1>2. PICK f : f = [d.rows EXCEPT ![r] = k]
  OBVIOUS
<1>3. /\ f \in [Rows -> MasterKeys \cup {"plain", "none"}]
      /\ \A q \in Rows : f[q] = IF q = r THEN k ELSE d.rows[q]
  BY <1>1, <1>2
<1>4. [d EXCEPT !.rows[r] = k] = [d EXCEPT !.rows = f]
  BY <1>2
<1>5. /\ [d EXCEPT !.rows = f] \in Stores
      /\ [d EXCEPT !.rows = f].owner = d.owner
      /\ [d EXCEPT !.rows = f].marker = d.marker
      /\ [d EXCEPT !.rows = f].rows = f
  BY <1>3 DEF Stores
<1>6. QED
  BY <1>3, <1>4, <1>5

-----------------------------------------------------------------------------
(* Frames.                                                                 *)

\* A key that is kept stays kept, and a directory sound, while the key file
\* holds no key or keeps its key, and the directory's owner goes on.
LEMMA KeptStays ==
  ASSUME keyFile' = keyFile \/ keyFile \in {"empty", "absent"}
  PROVE  \A k \in MasterKeys : k \in {EnvKey, keyFile} => k \in {EnvKey, keyFile'}
BY ConstantsAssumption

LEMMA SoundStays ==
  ASSUME NEW d, Sound(d), keyFile' = keyFile \/ keyFile \in {"empty", "absent"},
         d.owner \in Procs => proc'[d.owner] = proc[d.owner]
  PROVE  Sound(d)'
<1>1. d.marker \in MasterKeys \cup {NoKey}
  BY DEF Sound, Stores
<1>2. d.marker \in {NoKey, EnvKey, keyFile'}
  BY <1>1, ConstantsAssumption DEF Sound, NoKey
<1>3. QED
  BY <1>2 DEF Sound

\* The parts by name, and the shapes they use.
LEMMA Parts ==
  ASSUME IInv
  PROVE  /\ Shape /\ KeyPart /\ DirectoryPart /\ LockPart /\ MigrationPart /\ RowPart
         /\ path # Missing => path \in Stores
         /\ staging # Missing => staging \in Stores
         /\ \A d \in backups : d \in Stores
BY DEF IInv, DirectoryPart, Sound

\* Steps that leave every file and every running process as it is.
LEMMA FilesKept ==
  ASSUME IInv, UNCHANGED <<fileVars, written>>, Shape', KeyPart', MigrationPart',
         \A p \in Procs : /\ proc[p].pc = "running" => proc'[p] = proc[p]
                          /\ proc'[p].pc = "running" => proc[p].pc = "running"
  PROVE  IInv'
<1> USE DEF fileVars
<1>1. \A d : Sound(d) => Sound(d)'
  BY SoundStays DEF Sound
<1>2. DirectoryPart'
  BY <1>1, Parts DEF DirectoryPart
<1>3. LockPart' /\ RowPart'
  BY Parts DEF LockPart, RowPart
<1>4. QED
  BY <1>2, <1>3 DEF IInv

\* What a process is after a step of p.
LEMMA ProcUpdate ==
  ASSUME Shape, NEW p \in Procs,
         NEW s \in [pc : {"off", "sourcing", "generating", "writing", "opening", "running"},
                    key : MasterKeys \cup {NoKey}],
         proc' = [proc EXCEPT ![p] = s]
  PROVE  /\ proc' \in [Procs -> [pc : {"off", "sourcing", "generating", "writing", "opening",
                                       "running"},
                                 key : MasterKeys \cup {NoKey}]]
         /\ proc'[p] = s
         /\ \A q \in Procs : q # p => proc'[q] = proc[q]
BY DEF Shape

-----------------------------------------------------------------------------
(* A process comes by its key.                                             *)

LEMMA StartStep ==
  ASSUME IInv, NEW p \in Procs, Start(p)
  PROVE  IInv'
<1> USE DEF fileVars
<1>0. /\ starts < MaxStarts /\ starts' = starts + 1
      /\ UNCHANGED <<env, fileVars, minted, mig, written>>
  BY DEF Start
<1>1. PICK s : s = [proc[p] EXCEPT !.pc = "sourcing"]
  OBVIOUS
<1>2. /\ s \in [pc : {"off", "sourcing", "generating", "writing", "opening", "running"},
                key : MasterKeys \cup {NoKey}]
      /\ s.pc = "sourcing" /\ proc[p].pc = "off"
  BY <1>1, Parts DEF Start, Shape, Off
<1>3. proc' = [proc EXCEPT ![p] = s]
  BY <1>1 DEF Start
<1>4. /\ proc' \in [Procs -> [pc : {"off", "sourcing", "generating", "writing", "opening",
                                    "running"},
                              key : MasterKeys \cup {NoKey}]]
      /\ proc'[p] = s /\ \A q \in Procs : q # p => proc'[q] = proc[q]
  BY <1>2, <1>3, Parts, ProcUpdate
<1>5. Shape'
  <2>1. starts' \in 0..MaxStarts
    BY <1>0, Parts, ConstantsAssumption DEF Shape
  <2>2. QED
    BY <1>0, <1>4, <2>1, Parts DEF Shape
<1>6. KeyPart'
  BY <1>0, <1>2, <1>4, Parts DEF KeyPart, Kept
<1>7. MigrationPart'
  BY <1>0, Parts DEF MigrationPart, Migratable
<1>8. QED
  BY <1>0, <1>2, <1>4, <1>5, <1>6, <1>7, FilesKept

\* load_store_key yields a key that is kept.
LEMMA SourcedIsKept ==
  ASSUME Shape, SourcedKey # "error", SourcedKey # "absent"
  PROVE  Kept(SourcedKey)
BY ConstantsAssumption DEF Shape, SourcedKey, Kept, MasterKeys

LEMMA SourceKeyStep ==
  ASSUME IInv, NEW p \in Procs, SourceKey(p)
  PROVE  IInv'
<1> USE DEF fileVars
<1>0. /\ proc[p].pc = "sourcing" /\ SourcedKey # "error"
      /\ UNCHANGED <<env, fileVars, minted, starts, mig, written>>
  BY DEF SourceKey
<1>1. PICK s : s = IF SourcedKey = "absent" THEN [pc |-> "generating", key |-> NoKey]
                   ELSE [pc |-> "opening", key |-> SourcedKey]
  OBVIOUS
<1>2. /\ s \in [pc : {"off", "sourcing", "generating", "writing", "opening", "running"},
                key : MasterKeys \cup {NoKey}]
      /\ s.pc \in {"generating", "opening"}
      /\ s.pc = "opening" => Kept(s.key)
  <2>1. CASE SourcedKey = "absent"
    BY <1>1, <2>1
  <2>2. CASE SourcedKey # "absent"
    <3>1. Kept(SourcedKey)
      BY <1>0, <2>2, Parts, SourcedIsKept
    <3>2. s = [pc |-> "opening", key |-> SourcedKey]
      BY <1>1, <2>2
    <3>3. QED
      BY <3>1, <3>2 DEF Kept
  <2>3. QED
    BY <2>1, <2>2
<1>3. proc' = [proc EXCEPT ![p] = s]
  BY <1>1 DEF SourceKey
<1>4. /\ proc' \in [Procs -> [pc : {"off", "sourcing", "generating", "writing", "opening",
                                    "running"},
                              key : MasterKeys \cup {NoKey}]]
      /\ proc'[p] = s /\ \A q \in Procs : q # p => proc'[q] = proc[q]
  BY <1>2, <1>3, Parts, ProcUpdate
<1>5. Shape'
  BY <1>0, <1>4, Parts DEF Shape
<1>6. KeyPart'
  BY <1>0, <1>2, <1>4, Parts DEF KeyPart, Kept
<1>7. MigrationPart'
  BY <1>0, Parts DEF MigrationPart, Migratable
<1>8. QED
  BY <1>0, <1>2, <1>4, <1>5, <1>6, <1>7, FilesKept

\* create_new: the file was not there, so nobody writes it and no key of it
\* is in use.
LEMMA CreateKeyFileStep ==
  ASSUME IInv, NEW p \in Procs, CreateKeyFile(p)
  PROVE  IInv'
<1>0. /\ proc[p].pc = "generating" /\ keyFile = "absent" /\ keyFile' = "empty"
      /\ UNCHANGED <<env, path, staging, backups, starts, mig, written>>
  BY DEF CreateKeyFile, CanCreateNew
<1>1. PICK k \in NewKeys : /\ minted' = minted \cup {k}
                           /\ proc' = [proc EXCEPT ![p] = [pc |-> "writing", key |-> k]]
  BY DEF CreateKeyFile
<1>2. PICK s : s = [pc |-> "writing", key |-> k]
  OBVIOUS
<1>3. /\ s \in [pc : {"off", "sourcing", "generating", "writing", "opening", "running"},
                key : MasterKeys \cup {NoKey}]
      /\ s.pc = "writing" /\ s.key = k
  BY <1>2 DEF MasterKeys
<1>4. /\ proc' \in [Procs -> [pc : {"off", "sourcing", "generating", "writing", "opening",
                                    "running"},
                              key : MasterKeys \cup {NoKey}]]
      /\ proc'[p] = s /\ \A q \in Procs : q # p => proc'[q] = proc[q]
  BY <1>1, <1>2, <1>3, Parts, ProcUpdate
<1>5. Shape'
  BY <1>0, <1>1, <1>4, Parts DEF Shape
<1>6. \A x \in MasterKeys : x \in {EnvKey, keyFile} => x \in {EnvKey, keyFile'}
  BY <1>0, KeptStays
<1>7. KeyPart'
  <2>1. \A q \in Procs : proc[q].pc # "writing"
    BY <1>0, Parts DEF KeyPart
  <2>2. mig.pc # "writing"
    BY <1>0, Parts DEF KeyPart
  <2>3. \A q \in Procs : proc'[q].pc \in {"opening", "running"} => Kept(proc[q].key)'
    BY <1>3, <1>4, <1>6, Parts DEF KeyPart, Kept
  <2>4. QED
    BY <1>0, <1>3, <1>4, <1>6, <2>1, <2>2, <2>3, Parts DEF KeyPart, Kept
<1>8. \A d : Sound(d) => Sound(d)'
  BY <1>0, <1>4, SoundStays DEF Sound
<1>9. DirectoryPart'
  BY <1>0, <1>8, Parts DEF DirectoryPart
<1>10. LockPart' /\ RowPart'
  BY <1>0, <1>3, <1>4, Parts DEF LockPart, RowPart
<1>11. MigrationPart'
  BY <1>0, Parts DEF MigrationPart, Migratable
<1>12. QED
  BY <1>5, <1>7, <1>9, <1>10, <1>11 DEF IInv

\* The only writer puts its key into the empty file.
LEMMA WriteKeyFileStep ==
  ASSUME IInv, NEW p \in Procs, WriteKeyFile(p)
  PROVE  IInv'
<1>0. /\ proc[p].pc = "writing" /\ keyFile' = proc[p].key
      /\ UNCHANGED <<env, minted, path, staging, backups, starts, mig, written>>
  BY DEF WriteKeyFile
<1>1. PICK k \in NewKeys : k = proc[p].key
  BY <1>0, Parts DEF KeyPart
<1>2. keyFile = "empty" /\ mig.pc # "writing" /\ \A q \in Procs : q # p => proc[q].pc # "writing"
  BY <1>0, Parts DEF KeyPart
<1>3. PICK s : s = [proc[p] EXCEPT !.pc = "opening"]
  OBVIOUS
<1>4. /\ s \in [pc : {"off", "sourcing", "generating", "writing", "opening", "running"},
                key : MasterKeys \cup {NoKey}]
      /\ s.pc = "opening" /\ s.key = k
  BY <1>1, <1>3, Parts DEF Shape
<1>5. proc' = [proc EXCEPT ![p] = s]
  BY <1>3 DEF WriteKeyFile
<1>6. /\ proc' \in [Procs -> [pc : {"off", "sourcing", "generating", "writing", "opening",
                                    "running"},
                              key : MasterKeys \cup {NoKey}]]
      /\ proc'[p] = s /\ \A q \in Procs : q # p => proc'[q] = proc[q]
  BY <1>4, <1>5, Parts, ProcUpdate
<1>7. Shape'
  BY <1>0, <1>1, <1>6, Parts DEF Shape, MasterKeys
<1>8. \A x \in MasterKeys : x \in {EnvKey, keyFile} => x \in {EnvKey, keyFile'}
  BY <1>2, KeptStays
<1>9. Kept(k)'
  BY <1>0, <1>1 DEF Kept, MasterKeys
<1>10. KeyPart'
  <2>1. \A q \in Procs : proc'[q].pc \in {"opening", "running"} => Kept(proc[q].key)'
    BY <1>4, <1>6, <1>8, <1>9, Parts DEF KeyPart, Kept
  <2>2. \A q \in Procs : proc'[q].pc # "writing"
    BY <1>2, <1>4, <1>6
  <2>3. QED
    BY <1>0, <1>2, <1>8, <2>1, <2>2, Parts DEF KeyPart, Kept
<1>11. \A d : Sound(d) => Sound(d)'
  BY <1>0, <1>2, <1>6, SoundStays DEF Sound
<1>12. DirectoryPart'
  BY <1>0, <1>11, Parts DEF DirectoryPart
<1>13. LockPart' /\ RowPart'
  BY <1>0, <1>4, <1>6, Parts DEF LockPart, RowPart
<1>14. MigrationPart'
  BY <1>0, Parts DEF MigrationPart, Migratable
<1>15. QED
  BY <1>7, <1>10, <1>12, <1>13, <1>14 DEF IInv

-----------------------------------------------------------------------------
(* A process opens and uses the store.                                     *)

\* A store opens under the key it is sealed with, or is new.
LEMMA OpenStoreStep ==
  ASSUME IInv, NEW p \in Procs, OpenStore(p)
  PROVE  IInv'
<1>0. /\ proc[p].pc = "opening" /\ Free(path) /\ OpensUnder(path, proc[p].key)
      /\ UNCHANGED <<env, keyFile, minted, staging, backups, starts, mig, written>>
  BY DEF OpenStore
<1>1. Kept(proc[p].key)
  BY <1>0, Parts DEF KeyPart
<1>2. PICK k \in MasterKeys : k = proc[p].key /\ k \in {EnvKey, keyFile} /\ k # NoKey
  BY <1>1, ConstantsAssumption DEF Kept
<1>3. PICK b : b = IF path = Missing THEN Blank ELSE path
  OBVIOUS
<1>4. /\ b \in Stores
      /\ path # Missing => b = path
      /\ \A r \in Rows : b.rows[r] \in {k, "none"}
  <2>1. CASE path = Missing \/ path = Blank
    BY <1>3, <2>1, BlankIs
  <2>2. CASE path # Missing /\ path # Blank
    <3>1. path.marker = k /\ Sound(path)
      BY <1>0, <1>2, <2>2, Parts DEF OpensUnder, DirectoryPart
    <3>2. QED
      BY <1>2, <1>3, <2>2, <3>1 DEF Sound
  <2>3. QED
    BY <2>1, <2>2
<1>5. PICK e, n : e = [b EXCEPT !.marker = k] /\ n = [e EXCEPT !.owner = p]
  OBVIOUS
<1>6. n \in Stores /\ n.owner = p /\ n.marker = k /\ n.rows = b.rows /\ n # Missing
  <2>1. n \in Stores /\ n.owner = p /\ n.marker = k /\ n.rows = b.rows
    <3>1. e \in Stores /\ e.marker = k /\ e.rows = b.rows
      BY <1>4, <1>5 DEF Stores
    <3>2. QED
      BY <1>5, <3>1, OwnerUpdate
  <2>2. QED
    BY <2>1, NotMissing
<1>7. path' = n
  BY <1>2, <1>3, <1>5 DEF OpenStore
<1>8. PICK s : s = [proc[p] EXCEPT !.pc = "running"]
  OBVIOUS
<1>9. /\ s \in [pc : {"off", "sourcing", "generating", "writing", "opening", "running"},
                key : MasterKeys \cup {NoKey}]
      /\ s.pc = "running" /\ s.key = k
  BY <1>2, <1>8, Parts DEF Shape
<1>10. proc' = [proc EXCEPT ![p] = s]
  BY <1>8 DEF OpenStore
<1>11. /\ proc' \in [Procs -> [pc : {"off", "sourcing", "generating", "writing", "opening",
                                     "running"},
                               key : MasterKeys \cup {NoKey}]]
       /\ proc'[p] = s /\ \A q \in Procs : q # p => proc'[q] = proc[q]
  BY <1>9, <1>10, Parts, ProcUpdate
<1>12. Shape'
  BY <1>0, <1>11, Parts DEF Shape
<1>13. KeyPart'
  <2>1. \A q \in Procs : proc'[q].pc \in {"opening", "running"} => Kept(proc[q].key)'
    BY <1>0, <1>2, <1>9, <1>11, Parts DEF KeyPart, Kept
  <2>2. QED
    BY <1>0, <1>9, <1>11, <2>1, Parts DEF KeyPart, Kept
<1>14. \A d : Sound(d) => Sound(d)'
  BY <1>0, <1>11, SoundStays DEF Sound
<1>15. Sound(path)'
  BY <1>0, <1>2, <1>4, <1>6, <1>7, <1>9, <1>11 DEF Sound
<1>16. DirectoryPart'
  BY <1>0, <1>14, <1>15, Parts DEF DirectoryPart
<1>17. path # Missing => path.owner = "nobody"
  BY <1>0 DEF Free
<1>18. LockPart'
  BY <1>0, <1>6, <1>7, <1>11, <1>17, Parts, ConstantsAssumption DEF LockPart
<1>19. RowPart'
  BY <1>0, <1>4, <1>6, <1>7, Parts DEF RowPart
<1>20. MigrationPart'
  <2>1. mig.pc \notin {"scanning", "clearing", "copying"}
    BY <1>17, Parts DEF MigrationPart
  <2>2. path'.owner # "migrate"
    BY <1>6, <1>7, ConstantsAssumption
  <2>3. mig.pc = "swapping" => \A r \in Rows : staging.rows[r] # mig.key
    <3>1. SUFFICES ASSUME mig.pc = "swapping", NEW r \in Rows PROVE staging.rows[r] # mig.key
      OBVIOUS
    <3>2. CASE path.marker # NoKey
      BY <3>1, <3>2, Parts DEF MigrationPart
    <3>3. CASE path.marker = NoKey
      <4>1. path = Blank
        BY <1>0, <1>2, <3>1, <3>3, Parts DEF OpensUnder, MigrationPart
      <4>2. QED
        BY <3>1, <3>3, <4>1, Parts, BlankIs DEF MigrationPart
    <3>4. QED
      BY <3>2, <3>3
  <2>4. QED
    BY <1>0, <1>2, <1>6, <1>7, <2>1, <2>2, <2>3, Parts DEF MigrationPart
<1>21. QED
  BY <1>12, <1>13, <1>16, <1>18, <1>19, <1>20 DEF IInv

\* A process that stops holds nothing any more.
LEMMA OffUpdate ==
  ASSUME IInv, NEW p \in Procs, proc' = [proc EXCEPT ![p] = Off],
         UNCHANGED <<env, keyFile, minted, starts, mig, written>>
  PROVE  /\ Shape' /\ KeyPart'
         /\ proc'[p].pc = "off" /\ \A q \in Procs : q # p => proc'[q] = proc[q]
<1>1. /\ Off \in [pc : {"off", "sourcing", "generating", "writing", "opening", "running"},
                  key : MasterKeys \cup {NoKey}]
      /\ Off.pc = "off"
  BY DEF Off
<1>2. /\ proc' \in [Procs -> [pc : {"off", "sourcing", "generating", "writing", "opening",
                                    "running"},
                              key : MasterKeys \cup {NoKey}]]
      /\ proc'[p].pc = "off" /\ \A q \in Procs : q # p => proc'[q] = proc[q]
  BY <1>1, Parts, ProcUpdate
<1>3. Shape'
  BY <1>2, Parts DEF Shape
<1>4. KeyPart'
  BY <1>2, Parts DEF KeyPart, Kept
<1>5. QED
  BY <1>2, <1>3, <1>4

LEMMA DieCreatingStep ==
  ASSUME IInv, NEW p \in Procs, DieCreating(p)
  PROVE  IInv'
<1>0. /\ proc[p].pc = "opening" /\ path = Missing /\ path' = Blank
      /\ proc' = [proc EXCEPT ![p] = Off]
      /\ UNCHANGED <<env, keyFile, minted, staging, backups, starts, mig, written>>
  BY DEF DieCreating
<1>1. /\ Shape' /\ KeyPart'
      /\ proc'[p].pc = "off" /\ \A q \in Procs : q # p => proc'[q] = proc[q]
  BY <1>0, OffUpdate
<1>2. \A d : Sound(d) => Sound(d)'
  BY <1>0, <1>1, SoundStays DEF Sound
<1>3. Sound(path)'
  BY <1>0, BlankIs, ConstantsAssumption DEF Sound
<1>4. DirectoryPart'
  BY <1>0, <1>2, <1>3, Parts DEF DirectoryPart
<1>5. LockPart' /\ RowPart'
  BY <1>0, <1>1, Parts DEF LockPart, RowPart
<1>6. MigrationPart'
  BY <1>0, Parts, BlankIs DEF MigrationPart
<1>7. QED
  BY <1>1, <1>4, <1>5, <1>6 DEF IInv

\* put_val, into the directory the process holds.
LEMMA PutRowStep ==
  ASSUME IInv, NEW p \in Procs, NEW r \in Rows, PutRow(p, r)
  PROVE  IInv'
<1>0. /\ proc[p].pc = "running"
      /\ path' = Put(path, p, r) /\ backups' = {Put(d, p, r) : d \in backups}
      /\ written' = written \cup {r}
      /\ UNCHANGED <<env, keyFile, minted, staging, starts, proc, mig>>
  BY DEF PutRow
<1>1. PICK k \in MasterKeys : k = proc[p].key /\ k # NoKey /\ k # "none"
  <2>1. Kept(proc[p].key)
    BY <1>0, Parts DEF KeyPart
  <2>2. QED
    BY <2>1, ConstantsAssumption DEF Kept, NoKey
<1>2. ASSUME NEW d \in Stores
      PROVE  /\ Put(d, p, r) \in Stores /\ Put(d, p, r) # Missing
             /\ Put(d, p, r).owner = d.owner /\ Put(d, p, r).marker = d.marker
             /\ \A q \in Rows : Put(d, p, r).rows[q] = IF q = r /\ d.owner = p THEN k ELSE d.rows[q]
             /\ d.owner # p => Put(d, p, r) = d
  <2>1. CASE d.owner = p
    <3>1. Put(d, p, r) = [d EXCEPT !.rows[r] = k]
      BY <1>1, <2>1, NotMissing DEF Put
    <3>2. QED
      BY <2>1, <3>1, RowUpdate, NotMissing
  <2>2. CASE d.owner # p
    BY <2>2, NotMissing DEF Put
  <2>3. QED
    BY <2>1, <2>2
<1>3. path = Missing => path' = Missing
  BY <1>0 DEF Put
<1>4. ASSUME NEW d, Sound(d)
      PROVE  Sound(Put(d, p, r))
  <2>1. PICK e : e = Put(d, p, r)
    OBVIOUS
  <2>2. /\ d \in Stores /\ e \in Stores /\ e.owner = d.owner /\ e.marker = d.marker
        /\ \A q \in Rows : e.rows[q] = IF q = r /\ d.owner = p THEN k ELSE d.rows[q]
    BY <1>2, <1>4, <2>1 DEF Sound
  <2>3. d.owner = p => d.marker = k
    BY <1>1, <1>4 DEF Sound
  <2>4. Sound(e)
    BY <1>1, <1>4, <2>2, <2>3 DEF Sound
  <2>5. QED
    BY <2>1, <2>4
<1>5. Shape'
  BY <1>0, Parts DEF Shape
<1>6. KeyPart'
  BY <1>0, Parts DEF KeyPart, Kept
<1>7. DirectoryPart'
  <2>1. path' # Missing => Sound(path')
    BY <1>0, <1>3, <1>4, Parts DEF DirectoryPart
  <2>2. \A e \in backups' : Sound(e) /\ e.owner # "migrate"
    <3>1. TAKE e \in backups'
    <3>2. PICK d \in backups : e = Put(d, p, r)
      BY <1>0
    <3>3. Sound(d) /\ d.owner # "migrate" /\ d \in Stores
      BY Parts DEF DirectoryPart, Sound
    <3>4. Sound(Put(d, p, r)) /\ Put(d, p, r).owner = d.owner
      BY <1>2, <1>4, <3>3
    <3>5. QED
      BY <3>2, <3>3, <3>4
  <2>3. QED
    BY <1>0, <2>1, <2>2, Parts DEF DirectoryPart, Sound
<1>8. LockPart'
  <2>1. \A d \in backups : Put(d, p, r) \in backups' /\ Put(d, p, r).owner = d.owner
    BY <1>0, <1>2, Parts
  <2>2. path # Missing => path' # Missing /\ path'.owner = path.owner
    BY <1>0, <1>2, Parts
  <2>3. QED
    BY <1>0, <2>1, <2>2, Parts DEF LockPart
<1>9. RowPart'
  <2>1. \A d \in backups : \A q \in Rows :
          d.rows[q] # "none" \/ (q = r /\ d.owner = p) => Put(d, p, r).rows[q] # "none"
    BY <1>1, <1>2, Parts
  <2>2. \A q \in Rows :
          path # Missing /\ (path.rows[q] # "none" \/ (q = r /\ path.owner = p)) =>
            path' # Missing /\ path'.rows[q] # "none"
    BY <1>0, <1>1, <1>2, Parts
  <2>3. \A d \in backups : Put(d, p, r) \in backups'
    BY <1>0
  <2>4. SUFFICES ASSUME NEW q \in written'
                 PROVE  (path' # Missing /\ path'.rows[q] # "none")
                          \/ \E e \in backups' : e.rows[q] # "none"
    BY DEF RowPart
  <2>5. q \in Rows
    BY <1>5 DEF Shape
  <2>6. CASE q = r
    BY <1>0, <2>1, <2>2, <2>3, <2>5, <2>6, Parts DEF LockPart
  <2>7. CASE q # r
    BY <1>0, <2>1, <2>2, <2>3, <2>5, <2>7, Parts DEF RowPart
  <2>8. QED
    BY <2>6, <2>7
<1>10. MigrationPart'
  <2>1. path # Missing /\ path.owner # p => path' = path
    BY <1>0, <1>2, Parts
  <2>2. path # Missing => path' # Missing /\ path'.owner = path.owner /\ path'.marker = path.marker
    BY <1>0, <1>2, Parts
  <2>3. p # "migrate" /\ p # "nobody"
    BY ConstantsAssumption
  <2>4. mig.pc \in {"scanning", "clearing", "copying"} => path' = path
    BY <2>1, <2>3, Parts DEF MigrationPart
  <2>5. QED
    BY <1>0, <1>3, <2>1, <2>2, <2>3, <2>4, Parts DEF MigrationPart, Migratable
<1>11. QED
  BY <1>5, <1>6, <1>7, <1>8, <1>9, <1>10 DEF IInv

\* An exit releases the LOCK and nothing else.
LEMMA ExitStep ==
  ASSUME IInv, NEW p \in Procs, Exit(p)
  PROVE  IInv'
<1>0. /\ proc' = [proc EXCEPT ![p] = Off]
      /\ path' = Release(path, p) /\ backups' = {Release(d, p) : d \in backups}
      /\ UNCHANGED <<env, keyFile, minted, staging, starts, mig, written>>
  BY DEF Exit
<1>1. /\ Shape' /\ KeyPart'
      /\ proc'[p].pc = "off" /\ \A q \in Procs : q # p => proc'[q] = proc[q]
  BY <1>0, OffUpdate
<1>2. path = Missing => path' = Missing
  BY <1>0 DEF Release
<1>3. path # Missing =>
        /\ path' \in Stores /\ path' # Missing
        /\ path'.owner = (IF path.owner = p THEN "nobody" ELSE path.owner)
        /\ path'.marker = path.marker /\ path'.rows = path.rows
  BY <1>0, Parts, ReleaseIs, NotMissing
<1>4. \A d \in backups :
        /\ Release(d, p) \in backups' /\ Release(d, p) \in Stores
        /\ Release(d, p).owner = (IF d.owner = p THEN "nobody" ELSE d.owner)
        /\ Release(d, p).marker = d.marker /\ Release(d, p).rows = d.rows
  BY <1>0, Parts, ReleaseIs
<1>5. p # "migrate" /\ p # "nobody" /\ "nobody" \notin Procs
  BY ConstantsAssumption
<1>6. ASSUME NEW d, NEW e \in Stores, Sound(d),
             e.owner = IF d.owner = p THEN "nobody" ELSE d.owner,
             e.marker = d.marker, e.rows = d.rows
      PROVE  Sound(e)'
  BY <1>0, <1>1, <1>5, <1>6 DEF Sound
<1>7. DirectoryPart'
  <2>1. path' # Missing => Sound(path)'
    <3>1. SUFFICES ASSUME path # Missing PROVE Sound(path)'
      BY <1>2
    <3>2. PICK d, e : d = path /\ e = path'
      OBVIOUS
    <3>3. Sound(d)
      BY <3>1, <3>2, Parts DEF DirectoryPart
    <3>4. Sound(e)'
      BY <1>3, <1>6, <3>1, <3>2, <3>3
    <3>5. QED
      BY <3>2, <3>4 DEF Sound
  <2>2. \A e \in backups' : Sound(e)' /\ e.owner # "migrate"
    <3>1. TAKE e \in backups'
    <3>2. PICK d \in backups : e = Release(d, p)
      BY <1>0
    <3>3. Sound(d) /\ d.owner # "migrate"
      BY Parts DEF DirectoryPart
    <3>4. /\ e \in Stores /\ e.owner = (IF d.owner = p THEN "nobody" ELSE d.owner)
          /\ e.marker = d.marker /\ e.rows = d.rows
      BY <1>4, <3>2
    <3>5. QED
      BY <1>6, <3>3, <3>4
  <2>3. staging' # Missing => Sound(staging)' /\ staging'.owner = "nobody"
    BY <1>0, <1>5, Parts DEF DirectoryPart, Sound
  <2>4. QED
    BY <2>1, <2>2, <2>3 DEF DirectoryPart
<1>8. LockPart'
  BY <1>1, <1>2, <1>3, <1>4, Parts DEF LockPart
<1>9. RowPart'
  BY <1>0, <1>3, <1>4, Parts DEF RowPart
<1>10. MigrationPart'
  BY <1>0, <1>2, <1>3, <1>5, Parts DEF MigrationPart, Migratable
<1>11. QED
  BY <1>1, <1>7, <1>8, <1>9, <1>10 DEF IInv

-----------------------------------------------------------------------------
(* The migration.                                                          *)

\* The migration only comes by its key: no directory changes.
LEMMA MigStartStep ==
  ASSUME IInv, NEW dry \in BOOLEAN, MigStart(dry)
  PROVE  IInv'
<1> USE DEF fileVars
<1>0. /\ mig = MigOff /\ starts < MaxStarts /\ starts' = starts + 1
      /\ mig' = [pc |-> "sourcing", key |-> NoKey, dry |-> dry]
      /\ UNCHANGED <<env, fileVars, minted, proc, written>>
  BY DEF MigStart
<1>1. mig.pc = "off" /\ mig'.pc = "sourcing"
  BY <1>0 DEF MigOff
<1>2. Shape'
  <2>1. starts' \in 0..MaxStarts
    BY <1>0, Parts, ConstantsAssumption DEF Shape
  <2>2. QED
    BY <1>0, <2>1, Parts DEF Shape
<1>3. KeyPart'
  BY <1>0, <1>1, Parts DEF KeyPart, Kept
<1>4. MigrationPart'
  BY <1>0, <1>1, Parts DEF MigrationPart
<1>5. QED
  BY <1>0, <1>2, <1>3, <1>4, FilesKept

\* What the migration is after a step that keeps its mode.
LEMMA MigPcUpdate ==
  ASSUME Shape,
         NEW pc \in {"off", "sourcing", "generating", "writing", "opening", "scanning",
                     "clearing", "copying", "swapping", "installing"},
         mig' = [mig EXCEPT !.pc = pc]
  PROVE  /\ mig' \in [pc : {"off", "sourcing", "generating", "writing", "opening", "scanning",
                            "clearing", "copying", "swapping", "installing"},
                      key : MasterKeys \cup {NoKey}, dry : BOOLEAN]
         /\ mig'.pc = pc /\ mig'.key = mig.key /\ mig'.dry = mig.dry
BY DEF Shape

LEMMA MigKeyUpdate ==
  ASSUME Shape, NEW pc \in {"writing", "opening"}, NEW k \in MasterKeys,
         mig' = [mig EXCEPT !.pc = pc, !.key = k]
  PROVE  /\ mig' \in [pc : {"off", "sourcing", "generating", "writing", "opening", "scanning",
                            "clearing", "copying", "swapping", "installing"},
                      key : MasterKeys \cup {NoKey}, dry : BOOLEAN]
         /\ mig'.pc = pc /\ mig'.key = k /\ mig'.dry = mig.dry
<1>1. PICK e : e = [mig EXCEPT !.pc = pc]
  OBVIOUS
<1>2. /\ e \in [pc : {"off", "sourcing", "generating", "writing", "opening", "scanning",
                      "clearing", "copying", "swapping", "installing"},
                key : MasterKeys \cup {NoKey}, dry : BOOLEAN]
      /\ e.pc = pc /\ e.dry = mig.dry
  BY <1>1 DEF Shape
<1>3. mig' = [e EXCEPT !.key = k]
  BY <1>1
<1>4. QED
  BY <1>2, <1>3

LEMMA MigSourceKeyStep ==
  ASSUME IInv, MigSourceKey
  PROVE  IInv'
<1> USE DEF fileVars
<1>0. /\ mig.pc = "sourcing" /\ SourcedKey # "error"
      /\ UNCHANGED <<env, fileVars, minted, starts, proc, written>>
  BY DEF MigSourceKey
<1>1. /\ mig' \in [pc : {"off", "sourcing", "generating", "writing", "opening", "scanning",
                         "clearing", "copying", "swapping", "installing"},
                   key : MasterKeys \cup {NoKey}, dry : BOOLEAN]
      /\ mig'.dry = mig.dry /\ mig'.pc \in {"opening", "generating"}
      /\ mig'.pc = "generating" => ~mig.dry
      /\ mig'.pc = "opening" => Kept(mig'.key) \/ mig.dry
  <2>1. CASE SourcedKey # "absent"
    <3>1. PICK k \in MasterKeys : k = SourcedKey /\ Kept(k)
      BY <1>0, <2>1, Parts, SourcedIsKept DEF Kept
    <3>2. mig' = [mig EXCEPT !.pc = "opening", !.key = k]
      BY <2>1, <3>1 DEF MigSourceKey
    <3>3. QED
      BY <3>1, <3>2, Parts, MigKeyUpdate
  <2>2. CASE SourcedKey = "absent" /\ ~mig.dry
    <3>1. mig' = [mig EXCEPT !.pc = "generating"]
      BY <2>2 DEF MigSourceKey, MayGenerate
    <3>2. QED
      BY <2>2, <3>1, Parts, MigPcUpdate
  <2>3. CASE SourcedKey = "absent" /\ mig.dry
    <3>1. mig' = [mig EXCEPT !.pc = "opening"]
      BY <2>3 DEF MigSourceKey, MayGenerate
    <3>2. QED
      BY <2>3, <3>1, Parts, MigPcUpdate
  <2>4. QED
    BY <2>1, <2>2, <2>3, Parts DEF Shape
<1>2. Shape'
  BY <1>0, <1>1, Parts DEF Shape
<1>3. KeyPart'
  BY <1>0, <1>1, Parts DEF KeyPart, Kept
<1>4. MigrationPart'
  BY <1>0, <1>1, Parts DEF MigrationPart
<1>5. QED
  BY <1>0, <1>2, <1>3, <1>4, FilesKept

LEMMA MigCreateKeyFileStep ==
  ASSUME IInv, MigCreateKeyFile
  PROVE  IInv'
<1>0. /\ mig.pc = "generating" /\ keyFile = "absent" /\ keyFile' = "empty"
      /\ UNCHANGED <<env, path, staging, backups, starts, proc, written>>
  BY DEF MigCreateKeyFile, CanCreateNew
<1>1. PICK k \in NewKeys : /\ minted' = minted \cup {k}
                           /\ mig' = [mig EXCEPT !.pc = "writing", !.key = k]
  BY DEF MigCreateKeyFile
<1>2. k \in MasterKeys
  BY DEF MasterKeys
<1>3. /\ mig' \in [pc : {"off", "sourcing", "generating", "writing", "opening", "scanning",
                         "clearing", "copying", "swapping", "installing"},
                   key : MasterKeys \cup {NoKey}, dry : BOOLEAN]
      /\ mig'.pc = "writing" /\ mig'.key = k /\ mig'.dry = mig.dry
  BY <1>1, <1>2, Parts, MigKeyUpdate
<1>4. Shape'
  BY <1>0, <1>1, <1>3, Parts DEF Shape
<1>5. \A x \in MasterKeys : x \in {EnvKey, keyFile} => x \in {EnvKey, keyFile'}
  BY <1>0, KeptStays
<1>6. KeyPart'
  BY <1>0, <1>3, <1>5, Parts DEF KeyPart, Kept
<1>7. \A d : Sound(d) => Sound(d)'
  BY <1>0, SoundStays DEF Sound
<1>8. DirectoryPart'
  BY <1>0, <1>7, Parts DEF DirectoryPart
<1>9. LockPart' /\ RowPart'
  BY <1>0, Parts DEF LockPart, RowPart
<1>10. MigrationPart'
  BY <1>0, <1>3, Parts DEF MigrationPart
<1>11. QED
  BY <1>4, <1>6, <1>8, <1>9, <1>10 DEF IInv

LEMMA MigWriteKeyFileStep ==
  ASSUME IInv, MigWriteKeyFile
  PROVE  IInv'
<1>0. /\ mig.pc = "writing" /\ keyFile' = mig.key
      /\ mig' = [mig EXCEPT !.pc = "opening"]
      /\ UNCHANGED <<env, minted, path, staging, backups, starts, proc, written>>
  BY DEF MigWriteKeyFile
<1>1. /\ mig.key \in NewKeys /\ keyFile = "empty"
      /\ \A q \in Procs : proc[q].pc # "writing"
  BY <1>0, Parts DEF KeyPart
<1>2. /\ mig' \in [pc : {"off", "sourcing", "generating", "writing", "opening", "scanning",
                         "clearing", "copying", "swapping", "installing"},
                   key : MasterKeys \cup {NoKey}, dry : BOOLEAN]
      /\ mig'.pc = "opening" /\ mig'.key = mig.key /\ mig'.dry = mig.dry
  BY <1>0, Parts, MigPcUpdate
<1>3. Shape'
  BY <1>0, <1>1, <1>2, Parts DEF Shape, MasterKeys
<1>4. \A x \in MasterKeys : x \in {EnvKey, keyFile} => x \in {EnvKey, keyFile'}
  BY <1>1, KeptStays
<1>5. KeyPart'
  <2>1. Kept(mig.key)'
    BY <1>0, <1>1, <1>2 DEF Kept, MasterKeys
  <2>2. QED
    BY <1>0, <1>1, <1>2, <1>4, <2>1, Parts DEF KeyPart, Kept
<1>6. \A d : Sound(d) => Sound(d)'
  BY <1>0, <1>1, SoundStays DEF Sound
<1>7. DirectoryPart'
  BY <1>0, <1>6, Parts DEF DirectoryPart
<1>8. LockPart' /\ RowPart'
  BY <1>0, Parts DEF LockPart, RowPart
<1>9. MigrationPart'
  BY <1>0, <1>2, Parts DEF MigrationPart
<1>10. QED
  BY <1>3, <1>5, <1>7, <1>8, <1>9 DEF IInv

\* The migration takes or gives back the LOCK of the store at path.
LEMMA RelockStep ==
  ASSUME IInv, path # Missing, path' \in Stores,
         path'.marker = path.marker, path'.rows = path.rows,
         path.owner \in {"nobody", "migrate"}, path'.owner \in {"nobody", "migrate"},
         UNCHANGED <<keyFile, staging, backups, proc, written>>,
         Shape', KeyPart', MigrationPart'
  PROVE  IInv'
<1>1. "nobody" \notin Procs /\ "migrate" \notin Procs /\ path' # Missing
  BY ConstantsAssumption
<1>2. Sound(path)'
  BY <1>1, Parts DEF DirectoryPart, Sound
<1>3. \A d : Sound(d) => Sound(d)'
  BY SoundStays
<1>4. DirectoryPart'
  BY <1>2, <1>3, Parts DEF DirectoryPart
<1>5. LockPart'
  BY <1>1, Parts DEF LockPart
<1>6. RowPart'
  BY <1>1, Parts DEF RowPart
<1>7. QED
  BY <1>4, <1>5, <1>6 DEF IInv

LEMMA MigOpenStep ==
  ASSUME IInv, MigOpen
  PROVE  IInv'
<1>0. /\ mig.pc = "opening" /\ path # Missing /\ path.owner = "nobody"
      /\ path' = [path EXCEPT !.owner = "migrate"]
      /\ mig' = [mig EXCEPT !.pc = "scanning"]
      /\ UNCHANGED <<env, keyFile, minted, staging, backups, starts, proc, written>>
  BY DEF MigOpen, Free
<1>1. /\ path' \in Stores /\ path'.owner = "migrate" /\ path' # Missing
      /\ path'.marker = path.marker /\ path'.rows = path.rows
  BY <1>0, Parts, OwnerUpdate, NotMissing
<1>2. /\ mig' \in [pc : {"off", "sourcing", "generating", "writing", "opening", "scanning",
                         "clearing", "copying", "swapping", "installing"},
                   key : MasterKeys \cup {NoKey}, dry : BOOLEAN]
      /\ mig'.pc = "scanning" /\ mig'.key = mig.key /\ mig'.dry = mig.dry
  BY <1>0, Parts, MigPcUpdate
<1>3. Shape'
  BY <1>0, <1>2, Parts DEF Shape
<1>4. KeyPart'
  BY <1>0, <1>2, Parts DEF KeyPart, Kept
<1>5. MigrationPart'
  BY <1>0, <1>1, <1>2, Parts DEF MigrationPart
<1>6. QED
  BY <1>0, <1>1, <1>3, <1>4, <1>5, RelockStep

\* The migration ends, in whatever step: what it has not installed stays
\* behind, and the LOCK is free again.
LEMMA MigOffStep ==
  ASSUME IInv, mig' = MigOff, path' = Release(path, "migrate"),
         UNCHANGED <<env, keyFile, minted, staging, backups, starts, proc, written>>
  PROVE  IInv'
<1>1. mig'.pc = "off" /\ mig'.dry = FALSE
  BY DEF MigOff
<1>2. Shape'
  BY Parts DEF Shape, MigOff
<1>3. KeyPart'
  BY <1>1, Parts DEF KeyPart, Kept
<1>4. CASE path = Missing
  <2>1. path' = Missing
    BY <1>4 DEF Release
  <2>2. MigrationPart'
    BY <1>1, <2>1 DEF MigrationPart
  <2>3. QED
    BY <1>2, <1>3, <1>4, <2>1, <2>2, FilesKept DEF fileVars
<1>5. CASE path # Missing
  <2>1. /\ path' \in Stores /\ path' # Missing
        /\ path'.owner = (IF path.owner = "migrate" THEN "nobody" ELSE path.owner)
        /\ path'.marker = path.marker /\ path'.rows = path.rows
    BY <1>5, Parts, ReleaseIs, NotMissing
  <2>2. MigrationPart'
    BY <1>1, <2>1 DEF MigrationPart
  <2>3. CASE path.owner = "migrate"
    BY <1>2, <1>3, <1>5, <2>1, <2>2, <2>3, RelockStep
  <2>4. CASE path.owner # "migrate"
    <3>1. path' = path
      BY <2>4 DEF Release
    <3>2. QED
      BY <1>2, <1>3, <2>2, <3>1, FilesKept DEF fileVars
  <2>5. QED
    BY <2>3, <2>4
<1>6. QED
  BY <1>4, <1>5

LEMMA MigScanStep ==
  ASSUME IInv, MigScan
  PROVE  IInv'
<1> USE DEF fileVars
<1>0. /\ mig.pc = "scanning"
      /\ UNCHANGED <<env, keyFile, minted, staging, backups, starts, proc, written>>
  BY DEF MigScan
<1>1. CASE Migratable /\ ~mig.dry
  <2>1. mig' = [mig EXCEPT !.pc = "clearing"] /\ UNCHANGED path
    BY <1>1 DEF MigScan
  <2>2. /\ mig' \in [pc : {"off", "sourcing", "generating", "writing", "opening", "scanning",
                           "clearing", "copying", "swapping", "installing"},
                     key : MasterKeys \cup {NoKey}, dry : BOOLEAN]
        /\ mig'.pc = "clearing" /\ mig'.key = mig.key /\ mig'.dry = mig.dry
    BY <2>1, Parts, MigPcUpdate
  <2>3. Shape'
    BY <1>0, <2>2, Parts DEF Shape
  <2>4. KeyPart'
    BY <1>0, <1>1, <2>2, Parts DEF KeyPart, Kept
  <2>5. MigrationPart'
    BY <1>0, <1>1, <2>1, <2>2, Parts DEF MigrationPart, Migratable
  <2>6. QED
    BY <1>0, <2>1, <2>3, <2>4, <2>5, FilesKept
<1>2. CASE ~(Migratable /\ ~mig.dry)
  BY <1>0, <1>2, MigOffStep DEF MigScan
<1>3. QED
  BY <1>1, <1>2

\* The staging store starts empty, under the key of the migration.
LEMMA MigClearStep ==
  ASSUME IInv, MigClear
  PROVE  IInv'
<1>0. /\ mig.pc = "clearing"
      /\ staging' = [Blank EXCEPT !.marker = mig.key]
      /\ mig' = [mig EXCEPT !.pc = "copying"]
      /\ UNCHANGED <<env, keyFile, minted, path, backups, starts, proc, written>>
  BY DEF MigClear
<1>1. PICK k \in MasterKeys : k = mig.key /\ k \in {EnvKey, keyFile} /\ k # NoKey
  BY <1>0, Parts, ConstantsAssumption DEF KeyPart, Kept
<1>2. /\ staging' \in Stores /\ staging' # Missing /\ staging'.marker = k
      /\ staging'.owner = "nobody" /\ \A r \in Rows : staging'.rows[r] = "none"
  <2>1. staging' \in Stores /\ staging'.marker = k
        /\ staging'.owner = "nobody" /\ \A r \in Rows : staging'.rows[r] = "none"
    BY <1>0, <1>1, BlankIs DEF Stores
  <2>2. QED
    BY <2>1, NotMissing
<1>3. /\ mig' \in [pc : {"off", "sourcing", "generating", "writing", "opening", "scanning",
                         "clearing", "copying", "swapping", "installing"},
                   key : MasterKeys \cup {NoKey}, dry : BOOLEAN]
      /\ mig'.pc = "copying" /\ mig'.key = mig.key /\ mig'.dry = mig.dry
  BY <1>0, Parts, MigPcUpdate
<1>4. Shape'
  BY <1>0, <1>3, Parts DEF Shape
<1>5. KeyPart'
  BY <1>0, <1>3, Parts DEF KeyPart, Kept
<1>6. \A d : Sound(d) => Sound(d)'
  BY <1>0, SoundStays
<1>7. Sound(staging)'
  BY <1>0, <1>1, <1>2, ConstantsAssumption DEF Sound
<1>8. DirectoryPart'
  BY <1>0, <1>2, <1>6, <1>7, Parts DEF DirectoryPart
<1>9. LockPart' /\ RowPart'
  BY <1>0, Parts DEF LockPart, RowPart
<1>10. MigrationPart'
  BY <1>0, <1>1, <1>2, <1>3, Parts DEF MigrationPart, Migratable
<1>11. QED
  BY <1>4, <1>5, <1>8, <1>9, <1>10 DEF IInv

\* A plaintext row is sealed into the staging store.
LEMMA MigCopyStep ==
  ASSUME IInv, NEW r \in Rows, MigCopy(r)
  PROVE  IInv'
<1>0. /\ mig.pc = "copying" /\ path.rows[r] = "plain"
      /\ staging' = [staging EXCEPT !.rows[r] = mig.key]
      /\ UNCHANGED <<env, keyFile, minted, path, backups, starts, proc, mig, written>>
  BY DEF MigCopy
<1>1. PICK k \in MasterKeys : k = mig.key /\ k # NoKey
  BY <1>0, Parts, ConstantsAssumption DEF KeyPart, Kept
<1>2. /\ staging # Missing /\ staging \in Stores /\ staging.marker = k
      /\ Sound(staging) /\ staging.owner = "nobody"
  BY <1>0, <1>1, Parts DEF MigrationPart, DirectoryPart
<1>3. /\ staging' \in Stores /\ staging' # Missing /\ staging'.marker = k
      /\ staging'.owner = "nobody"
      /\ \A q \in Rows : staging'.rows[q] = IF q = r THEN k ELSE staging.rows[q]
  <2>1. PICK d \in Stores : d = staging
    BY <1>2
  <2>2. staging' = [d EXCEPT !.rows[r] = k]
    BY <1>0, <1>1, <2>1
  <2>3. QED
    BY <1>2, <2>1, <2>2, RowUpdate, NotMissing
<1>4. Shape' /\ KeyPart'
  BY <1>0, Parts DEF Shape, KeyPart, Kept
<1>5. \A d : Sound(d) => Sound(d)'
  BY <1>0, SoundStays
<1>6. Sound(staging)'
  BY <1>0, <1>1, <1>2, <1>3, ConstantsAssumption DEF Sound
<1>7. DirectoryPart'
  BY <1>0, <1>3, <1>5, <1>6, Parts DEF DirectoryPart
<1>8. LockPart' /\ RowPart'
  BY <1>0, Parts DEF LockPart, RowPart
<1>9. MigrationPart'
  BY <1>0, <1>1, <1>3, Parts DEF MigrationPart, Migratable
<1>10. QED
  BY <1>4, <1>7, <1>8, <1>9 DEF IInv

\* What was verified is what is swapped in.
LEMMA MigVerifyStep ==
  ASSUME IInv, MigVerify
  PROVE  IInv'
<1>0. /\ mig.pc = "copying" /\ Verified
      /\ path' = Release(path, "migrate")
      /\ mig' = [mig EXCEPT !.pc = "swapping"]
      /\ UNCHANGED <<env, keyFile, minted, staging, backups, starts, proc, written>>
  BY DEF MigVerify
<1>1. path # Missing /\ path \in Stores /\ path.owner = "migrate"
  BY <1>0, Parts DEF MigrationPart
<1>2. /\ path' \in Stores /\ path' # Missing /\ path'.owner = "nobody"
      /\ path'.marker = path.marker /\ path'.rows = path.rows
  BY <1>0, <1>1, ReleaseIs, NotMissing
<1>3. /\ mig' \in [pc : {"off", "sourcing", "generating", "writing", "opening", "scanning",
                         "clearing", "copying", "swapping", "installing"},
                   key : MasterKeys \cup {NoKey}, dry : BOOLEAN]
      /\ mig'.pc = "swapping" /\ mig'.key = mig.key /\ mig'.dry = mig.dry
  BY <1>0, Parts, MigPcUpdate
<1>4. Shape'
  BY <1>0, <1>3, Parts DEF Shape
<1>5. KeyPart'
  BY <1>0, <1>3, Parts DEF KeyPart, Kept
<1>6. mig.key # "none"
  BY <1>0, Parts, ConstantsAssumption DEF KeyPart, Kept, NoKey
<1>7. \A r \in Rows : path.rows[r] # "none" <=> staging.rows[r] = mig.key
  BY <1>0, <1>6, Parts DEF MigrationPart, Migratable, Verified
<1>8. MigrationPart'
  BY <1>0, <1>2, <1>3, <1>7, Parts DEF MigrationPart, Migratable
<1>9. QED
  BY <1>0, <1>1, <1>2, <1>4, <1>5, <1>8, RelockStep

\* The two renames move directories and lose none.
LEMMA MigSetAsideStep ==
  ASSUME IInv, MigSetAside
  PROVE  IInv'
<1>0. /\ mig.pc = "swapping" /\ path # Missing
      /\ backups' = backups \cup {path} /\ path' = Missing
      /\ mig' = [mig EXCEPT !.pc = "installing"]
      /\ UNCHANGED <<env, keyFile, minted, staging, starts, proc, written>>
  BY DEF MigSetAside
<1>1. /\ mig' \in [pc : {"off", "sourcing", "generating", "writing", "opening", "scanning",
                         "clearing", "copying", "swapping", "installing"},
                   key : MasterKeys \cup {NoKey}, dry : BOOLEAN]
      /\ mig'.pc = "installing" /\ mig'.key = mig.key /\ mig'.dry = mig.dry
  BY <1>0, Parts, MigPcUpdate
<1>2. Shape'
  BY <1>0, <1>1, Parts DEF Shape
<1>3. KeyPart'
  BY <1>0, <1>1, Parts DEF KeyPart, Kept
<1>4. \A d : Sound(d) => Sound(d)'
  BY <1>0, SoundStays
<1>5. DirectoryPart'
  <2>1. \A d \in backups' : Sound(d) /\ d.owner # "migrate"
    BY <1>0, Parts DEF DirectoryPart, MigrationPart
  <2>2. \A d \in backups' : Sound(d)'
    BY <1>4, <2>1
  <2>3. QED
    BY <1>0, <1>4, <2>1, <2>2, Parts DEF DirectoryPart
<1>6. LockPart' /\ RowPart'
  BY <1>0, Parts DEF LockPart, RowPart
<1>7. MigrationPart'
  BY <1>0, <1>1, Parts DEF MigrationPart
<1>8. QED
  BY <1>2, <1>3, <1>5, <1>6, <1>7 DEF IInv

LEMMA MigInstallStep ==
  ASSUME IInv, MigInstall
  PROVE  IInv'
<1>0. /\ mig.pc = "installing" /\ path = Missing
      /\ path' = staging /\ staging' = Missing /\ mig' = MigOff
      /\ UNCHANGED <<env, keyFile, minted, backups, starts, proc, written>>
  BY DEF MigInstall, PathFree
<1>1. mig'.pc = "off" /\ mig'.dry = FALSE
  BY <1>0 DEF MigOff
<1>2. Shape'
  BY <1>0, Parts DEF Shape, MigOff
<1>3. KeyPart'
  BY <1>0, <1>1, Parts DEF KeyPart, Kept
<1>4. staging # Missing /\ staging.owner = "nobody" /\ Sound(staging)
  BY <1>0, Parts DEF MigrationPart, DirectoryPart
<1>5. \A d : Sound(d) => Sound(d)'
  BY <1>0, SoundStays
<1>6. DirectoryPart'
  <2>1. Sound(path)'
    BY <1>0, <1>4 DEF Sound
  <2>2. QED
    BY <1>0, <1>5, <2>1, Parts DEF DirectoryPart
<1>7. LockPart' /\ RowPart'
  BY <1>0, Parts DEF LockPart, RowPart
<1>8. MigrationPart'
  BY <1>0, <1>1, <1>4 DEF MigrationPart
<1>9. QED
  BY <1>2, <1>3, <1>6, <1>7, <1>8 DEF IInv

-----------------------------------------------------------------------------
(* The theorems.                                                           *)

LEMMA InvInit == Init => IInv
<1> SUFFICES ASSUME Init PROVE IInv
  OBVIOUS
<1>1. /\ \A p \in Procs : proc[p] = Off
      /\ Off.pc = "off" /\ mig = MigOff /\ MigOff.pc = "off" /\ MigOff.dry = FALSE
  BY DEF Init, Off, MigOff
<1>2. path = Missing \/ (/\ path \in Stores /\ path.marker = NoKey /\ path.owner = "nobody"
                         /\ \A r \in Rows : path.rows[r] \in {"plain", "none"})
  <2>1. SUFFICES ASSUME path # Missing
                 PROVE  /\ path \in Stores /\ path.marker = NoKey /\ path.owner = "nobody"
                        /\ \A r \in Rows : path.rows[r] \in {"plain", "none"}
    OBVIOUS
  <2>2. PICK R \in SUBSET Rows :
          path = [Blank EXCEPT !.rows = [r \in Rows |-> IF r \in R THEN "plain" ELSE "none"]]
    BY <2>1 DEF Init
  <2>3. PICK f : f = [r \in Rows |-> IF r \in R THEN "plain" ELSE "none"]
    OBVIOUS
  <2>4. f \in [Rows -> {"plain", "none"}]
    BY <2>3
  <2>5. path = [Blank EXCEPT !.rows = f]
    BY <2>2, <2>3
  <2>6. QED
    BY <2>4, <2>5, BlankIs DEF Stores
<1>3. Shape
  <2>1. proc \in [Procs -> [pc : {"off", "sourcing", "generating", "writing", "opening", "running"},
                            key : MasterKeys \cup {NoKey}]]
    BY DEF Init, Off
  <2>2. mig \in [pc : {"off", "sourcing", "generating", "writing", "opening", "scanning",
                       "clearing", "copying", "swapping", "installing"},
                 key : MasterKeys \cup {NoKey}, dry : BOOLEAN]
    BY DEF Init, MigOff
  <2>3. written \subseteq Rows
    BY DEF Init
  <2>4. QED
    BY <2>1, <2>2, <2>3, ConstantsAssumption DEF Init, Shape
<1>4. KeyPart
  BY <1>1 DEF KeyPart
<1>5. DirectoryPart
  <2>1. path # Missing => Sound(path)
    BY <1>2, ConstantsAssumption DEF Sound
  <2>2. QED
    BY <2>1 DEF Init, DirectoryPart
<1>6. LockPart
  BY <1>1 DEF LockPart
<1>7. MigrationPart
  BY <1>1, <1>2 DEF MigrationPart
<1>8. RowPart
  BY DEF Init, RowPart
<1>9. QED
  BY <1>3, <1>4, <1>5, <1>6, <1>7, <1>8 DEF IInv

LEMMA InvNext ==
  ASSUME IInv, [Next]_vars
  PROVE  IInv'
<1>1. ASSUME NEW p \in Procs,
             \/ Start(p) \/ SourceKey(p) \/ CreateKeyFile(p) \/ WriteKeyFile(p)
             \/ OpenStore(p) \/ DieCreating(p) \/ Exit(p)
             \/ \E r \in Rows : PutRow(p, r)
      PROVE  IInv'
  BY <1>1, StartStep, SourceKeyStep, CreateKeyFileStep, WriteKeyFileStep, OpenStoreStep,
     DieCreatingStep, ExitStep, PutRowStep
<1>2. CASE MigExit
  BY <1>2, MigOffStep DEF MigExit
<1>3. CASE MigStep
  BY <1>2, <1>3, MigStartStep, MigSourceKeyStep, MigCreateKeyFileStep, MigWriteKeyFileStep,
     MigOpenStep, MigScanStep, MigClearStep, MigVerifyStep, MigSetAsideStep, MigInstallStep,
     MigCopyStep DEF MigStep
<1>4. ASSUME env' \in {EnvKey, "malformed", "unset"},
             UNCHANGED <<fileVars, minted, starts, proc, mig, written>>
      PROVE  IInv'
  <2> USE DEF fileVars
  <2>1. Shape' /\ KeyPart'
    BY <1>4, Parts DEF Shape, KeyPart, Kept
  <2>2. MigrationPart'
    BY <1>4, Parts DEF MigrationPart, Migratable
  <2>3. QED
    BY <1>4, <2>1, <2>2, FilesKept
<1>5. ASSUME NEW e \in {EnvKey, "malformed", "unset"}, SetEnv(e)
      PROVE  IInv'
  BY <1>4, <1>5 DEF SetEnv
<1>6. CASE UNCHANGED vars
  BY <1>4, <1>6, Parts DEF vars, Shape
<1>7. QED
  BY <1>1, <1>3, <1>5, <1>6 DEF Next

\* The invariant gives what the run checks.
LEMMA InvImplies == IInv => VaultInv /\ MigrationInv
<1> SUFFICES ASSUME IInv PROVE VaultInv /\ MigrationInv
  OBVIOUS
<1>1. \A d \in Directories : Sound(d)
  BY Parts DEF Directories, DirectoryPart
<1>2. TypeOK
  <2>1. Directories \subseteq Stores
    BY <1>1 DEF Sound
  <2>2. QED
    BY <2>1, Parts DEF TypeOK, Shape
<1>3. NoMixedStore /\ KeyNeverLost
  BY <1>1 DEF NoMixedStore, KeyNeverLost, Sound
<1>4. RunningStoreReadable
  <2>1. SUFFICES ASSUME NEW p \in Procs, proc[p].pc = "running"
                 PROVE  \E d \in Directories :
                          /\ d.owner = p
                          /\ d.marker = proc[p].key
                          /\ \A r \in Rows : d.rows[r] \in {proc[p].key, "none"}
    BY DEF RunningStoreReadable
  <2>2. PICK d \in Directories : d.owner = p
    <3>1. CASE path # Missing /\ path.owner = p
      BY <3>1 DEF Directories
    <3>2. CASE \E e \in backups : e.owner = p
      BY <3>2, Parts, ConstantsAssumption DEF Directories
    <3>3. QED
      BY <2>1, <3>1, <3>2, Parts DEF LockPart
  <2>3. d.marker = proc[p].key
    BY <1>1, <2>2 DEF Sound
  <2>4. proc[p].key # NoKey
    BY <2>1, Parts, ConstantsAssumption DEF KeyPart, Kept
  <2>5. QED
    BY <1>1, <2>2, <2>3, <2>4 DEF Sound
<1>5. SwapIsSafe
  BY Parts DEF SwapIsSafe, MigrationPart
<1>6. NoRowLost
  <2>1. \A d \in backups : d \in Directories
    BY Parts, ConstantsAssumption DEF Directories
  <2>2. path # Missing => path \in Directories
    BY DEF Directories
  <2>3. QED
    BY <2>1, <2>2, Parts DEF NoRowLost, RowPart
<1>7. QED
  BY <1>2, <1>3, <1>4, <1>5, <1>6 DEF VaultInv, MigrationInv

\* A dry run only takes and gives back the LOCK.
LEMMA DryStep ==
  ASSUME IInv, mig.dry, MigStep
  PROVE  /\ UNCHANGED <<keyFile, staging, backups>>
         /\ Contents(path') = Contents(path)
<1> USE DEF fileVars
<1>1. mig.pc \in {"sourcing", "opening", "scanning"}
  BY Parts DEF MigrationPart
<1>2. CASE \E dry \in BOOLEAN : MigStart(dry)
  BY <1>1, <1>2 DEF MigStart, MigOff
<1>3. CASE MigSourceKey
  BY <1>3 DEF MigSourceKey
<1>4. CASE MigOpen
  <2>1. /\ path # Missing /\ path.owner = "nobody" /\ path' = [path EXCEPT !.owner = "migrate"]
        /\ UNCHANGED <<keyFile, staging, backups>>
    BY <1>4 DEF MigOpen, Free
  <2>2. PICK d \in Stores : d = path
    BY <2>1, Parts
  <2>3. /\ path' \in Stores /\ path' # Missing /\ path'.owner = "migrate"
        /\ path'.marker = d.marker /\ path'.rows = d.rows
    BY <2>1, <2>2, OwnerUpdate, NotMissing
  <2>4. PICK e \in Stores : e = Contents(path')
    BY <2>3, ReleaseIs DEF Contents
  <2>5. e.owner = "nobody" /\ e.marker = d.marker /\ e.rows = d.rows
    BY <2>3, <2>4, ReleaseIs DEF Contents
  <2>6. e = d
    BY <2>1, <2>2, <2>5 DEF Stores
  <2>7. Contents(path) = d
    BY <2>1, <2>2 DEF Contents, Release
  <2>8. QED
    BY <2>1, <2>4, <2>6, <2>7
<1>5. CASE UNCHANGED <<keyFile, staging, backups>> /\ path' = Release(path, "migrate")
  <2>1. CASE path = Missing
    BY <1>5, <2>1 DEF Contents, Release
  <2>2. CASE path # Missing
    <3>1. path' \in Stores /\ path'.owner # "migrate"
      BY <1>5, <2>2, Parts, ReleaseIs
    <3>2. Contents(path') = path'
      BY <3>1 DEF Contents, Release
    <3>3. QED
      BY <1>5, <3>2 DEF Contents
  <2>3. QED
    BY <2>1, <2>2
<1>6. CASE MigScan
  BY <1>5, <1>6 DEF MigScan
<1>7. CASE MigExit
  BY <1>5, <1>7 DEF MigExit
<1>8. QED
  BY <1>1, <1>2, <1>3, <1>4, <1>6, <1>7
     DEF MigStep, MigCreateKeyFile, MigWriteKeyFile, MigClear, MigVerify, MigSetAside,
         MigInstall, MigCopy

\* The inductive invariant holds in every state.
LEMMA InvAlways == Spec => []IInv
<1>1. IInv /\ [Next]_vars => IInv'
  BY InvNext
<1>2. QED
  BY InvInit, <1>1, PTL DEF Spec

\* VaultInv holds in every state: no directory is mixed, none is sealed under
\* a key that was not kept, and a running process reads all of its store,
\* whoever else starts, migrates or dies.
THEOREM VaultAlwaysReadable == Spec => []VaultInv
BY InvAlways, InvImplies, PTL

\* MigrationInv holds in every state: migrate-encrypt swaps in exactly what it
\* sealed, and no row is lost however it is interrupted.
THEOREM MigrationLosesNothing == Spec => []MigrationInv
BY InvAlways, InvImplies, PTL

\* DryRunWritesNothing holds of every step: a dry run of migrate-encrypt
\* changes no file, not even the key file.
THEOREM DryRunIsDry == Spec => DryRunWritesNothing
<1>1. IInv => [mig.dry /\ MigStep =>
                 /\ UNCHANGED <<keyFile, staging, backups>>
                 /\ Contents(path') = Contents(path)]_vars
  BY DryStep
<1>2. QED
  BY InvAlways, <1>1, PTL DEF DryRunWritesNothing

-----------------------------------------------------------------------------
(***************************************************************************)
(* Member keys, which rotate_member_key writes into this store: the proofs *)
(* about MemberKeys, for any number of accounts, addresses and requests.   *)
(***************************************************************************)

Rotating == {"creating", "revoking", "mapping"}
MemberStates ==
  {"new", "asking", "reserving", "locking", "issued", "refused", "gone"} \cup Rotating

MemberCall ==
  [pc : MemberStates, ip : Ips \cup {"none"}, account : Accounts \cup {NoAccount},
   previous : Requests \cup {NoToken}]

\* A request knows its address and its account once it needs them; a key
\* that went out belongs to a request that was answered.
RequestPart ==
  /\ \A r \in Requests :
       /\ req[r].pc \in {"asking", "reserving"} => req[r].ip \in Ips
       /\ req[r].pc \in {"reserving", "locking"} \cup Rotating => req[r].account \in Accounts
  /\ \A k \in handed : req[k].pc = "issued" /\ req[k].account \in Accounts

\* Only records are unsynced, so a power loss leaves the mapping alone.  An
\* account is mapped to a key that went out to it, which is the one that the
\* holder of its lock retires, and has retired once it writes the mapping.
MappingPart ==
  /\ \A s \in survivors : s.map = db.map
  /\ \A a \in Accounts : db.map[a] # NoToken =>
       db.map[a] \in handed /\ req[db.map[a]].account = a
  /\ \A r \in Requests :
       /\ req[r].pc \in Rotating => req[r].previous = db.map[req[r].account]
       /\ req[r].pc = "mapping" /\ req[r].previous # NoToken =>
            db.record[req[r].previous] # "live"

\* What was let pass, and who: a request at most once.
GrantPart ==
  /\ IsFiniteSet(grants)
  /\ \A g \in grants :
       /\ g \in [request : Requests, account : Accounts, ip : Ips, at : 0..now]
       /\ req[g.request].pc \notin {"new", "asking", "reserving"}

\* A window counts the grants of its day and knows the last one; where there
\* is no window, no grant is of today or within the interval.
AccountPart ==
  /\ \A a \in DOMAIN accounts :
       /\ accounts[a].day = DayAt(accounts[a].last)
       /\ accounts[a].count = Cardinality(OnDay(grants, a, accounts[a].day))
       /\ \A g \in grants : g.account = a => g.at <= accounts[a].last
  /\ \A g \in grants : g.account \notin DOMAIN accounts =>
       DayAt(g.at) < DayAt(now) /\ now - g.at >= MinInterval

\* The same for the hour of an address.
IpPart ==
  /\ \A i \in DOMAIN ips :
       /\ ips[i].count = Cardinality(InHour(grants, i, ips[i].hour))
       /\ \A g \in grants : g.ip = i => HourAt(g.at) <= ips[i].hour
  /\ \A g \in grants : g.ip \notin DOMAIN ips => HourAt(g.at) < HourAt(now)

MemberInv ==
  /\ LimiterInv /\ NoStrandedKey
  /\ RequestPart /\ MappingPart /\ GrantPart /\ AccountPart /\ IpPart

-----------------------------------------------------------------------------
(* Calendar and types.                                                     *)

\* Hours and days do not go down.
LEMMA CalendarMonotone ==
  ASSUME MemberConstantsOK, NEW s \in Nat, NEW t \in Nat, s <= t
  PROVE  /\ HourAt(s) \in Nat /\ HourAt(t) \in Nat /\ HourAt(s) <= HourAt(t)
         /\ DayAt(s) \in Nat /\ DayAt(t) \in Nat /\ DayAt(s) <= DayAt(t)
<1>1. SecondsPerHour \in Nat \ {0} /\ HoursPerDay \in Nat \ {0}
  BY DEF MemberConstantsOK
<1>2. /\ HourAt(s) \in Nat /\ HourAt(t) \in Nat
      /\ HourAt(s) <= HourAt(t)
  BY <1>1, QuotientMonotone DEF HourAt
<1>3. QED
  BY <1>1, <1>2, QuotientMonotone DEF DayAt

\* What the members' types say of a request.
LEMMA MemberTypes ==
  ASSUME MemberConstantsOK, MemberTypeOK
  PROVE  /\ NoToken \notin Requests
         /\ DOMAIN req = Requests /\ DOMAIN lock = Accounts
         /\ \A r \in Requests :
              /\ req[r].pc \in MemberStates
              /\ req[r].ip \in Ips \cup {"none"}
              /\ req[r].account \in Accounts \cup {NoAccount}
              /\ req[r].previous \in Requests \cup {NoToken}
         /\ now \in Nat
         /\ db \in KeyStores
<1>1. NoToken \notin Requests
  BY DEF NoToken, Requests, MemberConstantsOK
<1>2. now \in Nat
  BY DEF MemberTypeOK, MemberConstantsOK
<1>3. db \in KeyStores
  BY DEF MemberTypeOK
<1>4. QED
  BY <1>1, <1>2, <1>3 DEF MemberTypeOK, MemberStates, Rotating

\* Writing a record changes that record only.
LEMMA WriteRecord ==
  ASSUME NEW s \in KeyStores, NEW k \in Requests, NEW v \in {"live", "revoked"}
  PROVE  /\ [s EXCEPT !.record[k] = v] \in KeyStores
         /\ [s EXCEPT !.record[k] = v].map = s.map
         /\ \A j \in Requests :
              [s EXCEPT !.record[k] = v].record[j] = IF j = k THEN v ELSE s.record[j]
<1> DEFINE u == [s.record EXCEPT ![k] = v]
<1>1. u \in [Requests -> {"none", "live", "revoked"}]
  BY DEF KeyStores
<1>2. \A j \in Requests : u[j] = IF j = k THEN v ELSE s.record[j]
  BY DEF KeyStores
<1>3. [s EXCEPT !.record[k] = v] = [s EXCEPT !.record = u]
  OBVIOUS
<1> HIDE DEF u
<1>4. [s EXCEPT !.record = u] = [record |-> u, map |-> s.map]
  BY DEF KeyStores
<1>5. QED
  BY <1>1, <1>2, <1>3, <1>4 DEF KeyStores

\* Writing a mapping changes that account's only.
LEMMA WriteMapping ==
  ASSUME NEW s \in KeyStores, NEW a \in Accounts, NEW k \in Requests
  PROVE  /\ [s EXCEPT !.map[a] = k] \in KeyStores
         /\ [s EXCEPT !.map[a] = k].record = s.record
         /\ \A b \in Accounts : [s EXCEPT !.map[a] = k].map[b] = IF b = a THEN k ELSE s.map[b]
<1> DEFINE u == [s.map EXCEPT ![a] = k]
<1>1. u \in [Accounts -> Requests \cup {NoToken}]
  BY DEF KeyStores
<1>2. \A b \in Accounts : u[b] = IF b = a THEN k ELSE s.map[b]
  BY DEF KeyStores
<1>3. [s EXCEPT !.map[a] = k] = [s EXCEPT !.map = u]
  OBVIOUS
<1> HIDE DEF u
<1>4. [s EXCEPT !.map = u] = [record |-> s.record, map |-> u]
  BY DEF KeyStores
<1>5. QED
  BY <1>1, <1>2, <1>3, <1>4 DEF KeyStores

\* The limiter after a charge: the account's window is of today, the others
\* are as they were, and what was pruned is over.
LEMMA ChargedAccounts ==
  ASSUME NEW a, NEW m, m = PrunedAccounts(AccountCharged(a))
  PROVE  /\ a \in DOMAIN m
         /\ m[a] = [last |-> now, day |-> DayAt(now),
                    count |-> IF a \in DOMAIN accounts /\ accounts[a].day = DayAt(now)
                              THEN accounts[a].count + 1 ELSE 1]
         /\ \A b \in DOMAIN m : b # a => b \in DOMAIN accounts /\ m[b] = accounts[b]
         /\ \A b \in DOMAIN accounts : b \notin DOMAIN m => ~AccountWindowLive(accounts[b])
<1> DEFINE c == AccountCharged(a)
           w == [last |-> now, day |-> DayAt(now),
                 count |-> IF a \in DOMAIN accounts /\ accounts[a].day = DayAt(now)
                           THEN accounts[a].count + 1 ELSE 1]
<1>1. /\ DOMAIN c = DOMAIN accounts \cup {a} /\ c[a] = w
      /\ \A b \in DOMAIN accounts : b # a => c[b] = accounts[b]
  BY DEF AccountCharged
<1>2. AccountWindowLive(w)
  BY DEF AccountWindowLive
<1>3. \/ m = c
      \/ m = [b \in {x \in DOMAIN c : AccountWindowLive(c[x])} |-> c[b]]
  BY DEF PrunedAccounts
<1> HIDE DEF c, w
<1>4. /\ \A b \in DOMAIN m : b \in DOMAIN c /\ m[b] = c[b]
      /\ \A b \in DOMAIN c : b \in DOMAIN m \/ ~AccountWindowLive(c[b])
  BY <1>3
<1>5. a \in DOMAIN m /\ m[a] = w
  BY <1>1, <1>2, <1>4
<1>6. QED
  BY <1>1, <1>4, <1>5 DEF w

\* The same for the addresses.
LEMMA ChargedIps ==
  ASSUME NEW i, NEW m, m = PrunedIps(IpCharged(i))
  PROVE  /\ i \in DOMAIN m
         /\ m[i] = [hour |-> HourAt(now),
                    count |-> IF i \in DOMAIN ips /\ ips[i].hour = HourAt(now)
                              THEN ips[i].count + 1 ELSE 1]
         /\ \A j \in DOMAIN m : j # i => j \in DOMAIN ips /\ m[j] = ips[j]
         /\ \A j \in DOMAIN ips : j \notin DOMAIN m => ~IpWindowLive(ips[j])
<1> DEFINE c == IpCharged(i)
           w == [hour |-> HourAt(now),
                 count |-> IF i \in DOMAIN ips /\ ips[i].hour = HourAt(now)
                           THEN ips[i].count + 1 ELSE 1]
<1>1. /\ DOMAIN c = DOMAIN ips \cup {i} /\ c[i] = w
      /\ \A j \in DOMAIN ips : j # i => c[j] = ips[j]
  BY DEF IpCharged
<1>2. IpWindowLive(w)
  BY DEF IpWindowLive
<1>3. \/ m = c
      \/ m = [j \in {x \in DOMAIN c : IpWindowLive(c[x])} |-> c[j]]
  BY DEF PrunedIps
<1> HIDE DEF c, w
<1>4. /\ \A j \in DOMAIN m : j \in DOMAIN c /\ m[j] = c[j]
      /\ \A j \in DOMAIN c : j \in DOMAIN m \/ ~IpWindowLive(c[j])
  BY <1>3
<1>5. i \in DOMAIN m /\ m[i] = w
  BY <1>1, <1>2, <1>4
<1>6. QED
  BY <1>1, <1>4, <1>5 DEF w

\* What becomes of a request, written out.
LEMMA CallForms ==
  ASSUME MemberConstantsOK, MemberTypeOK, NEW r \in Requests
  PROVE  /\ req \in [Requests -> MemberCall]
         /\ \A p \in MemberStates :
              /\ Ended(r, p) = [pc |-> p, ip |-> "none", account |-> req[r].account,
                                       previous |-> NoToken]
              /\ At(r, p) = [pc |-> p, ip |-> req[r].ip, account |-> req[r].account,
                                    previous |-> req[r].previous]
              /\ Ended(r, p) \in MemberCall /\ At(r, p) \in MemberCall
<1>1. req \in [Requests -> MemberCall]
  BY DEF MemberTypeOK, MemberCall, MemberStates, Rotating
<1>2. req[r] \in MemberCall
  BY <1>1
<1>3. ASSUME NEW p \in MemberStates
      PROVE  Ended(r, p) = [pc |-> p, ip |-> "none", account |-> req[r].account,
                                   previous |-> NoToken]
  <2>1. NewRequest = [pc |-> "new", ip |-> "none", account |-> NoAccount,
                             previous |-> NoToken]
    BY DEF NewRequest
  <2>2. NewRequest \in MemberCall
    BY <2>1 DEF MemberCall, MemberStates
  <2>3. \A n \in MemberCall : \A y, z :
          [n EXCEPT !.pc = y, !.account = z] =
            [pc |-> y, ip |-> n.ip, account |-> z, previous |-> n.previous]
    <3> SUFFICES ASSUME NEW n \in MemberCall, NEW y, NEW z
                 PROVE  [n EXCEPT !.pc = y, !.account = z] =
                          [pc |-> y, ip |-> n.ip, account |-> z, previous |-> n.previous]
      OBVIOUS
    <3>1. [n EXCEPT !.pc = y] = [pc |-> y, ip |-> n.ip, account |-> n.account,
                                 previous |-> n.previous]
      BY DEF MemberCall
    <3>2. [n EXCEPT !.pc = y, !.account = z] = [[n EXCEPT !.pc = y] EXCEPT !.account = z]
      OBVIOUS
    <3>3. [[pc |-> y, ip |-> n.ip, account |-> n.account, previous |-> n.previous]
             EXCEPT !.account = z] =
            [pc |-> y, ip |-> n.ip, account |-> z, previous |-> n.previous]
      OBVIOUS
    <3>4. QED
      BY <3>1, <3>2, <3>3
  <2>4. Ended(r, p) = [NewRequest EXCEPT !.pc = p, !.account = req[r].account]
    BY DEF Ended
  <2>5. QED
    BY <2>1, <2>2, <2>3, <2>4
<1>4. ASSUME NEW p \in MemberStates
      PROVE  At(r, p) = [pc |-> p, ip |-> req[r].ip, account |-> req[r].account,
                                previous |-> req[r].previous]
  BY <1>2 DEF At, MemberCall
<1>5. QED
  BY <1>1, <1>2, <1>3, <1>4 DEF MemberCall

\* The part of the types that is about the calls and the limiter.
LEMMA CallTypes ==
  ASSUME MemberConstantsOK, MemberTypeOK, UNCHANGED <<now, up, stops, accounts, ips>>,
         req' \in [Requests -> MemberCall],
         lock' \in [Accounts -> Requests \cup {NoToken}],
         handed' \subseteq Requests,
         survivors' \subseteq KeyStores, db' \in survivors'
  PROVE  MemberTypeOK'
BY DEF MemberTypeOK, MemberCall, MemberStates, Rotating, DayAt, HourAt,
       Requests, NoToken, KeyStores, NoAccount

\* The limiter is as sound as it was while it and the clock stand still.
LEMMA QuietLimiter ==
  ASSUME MemberInv, UNCHANGED <<now, accounts, ips, grants>>,
         \A q \in Requests : req[q].pc \notin {"new", "asking", "reserving"} =>
                                    req'[q].pc \notin {"new", "asking", "reserving"}
  PROVE  /\ GrantPart' /\ AccountPart' /\ IpPart'
         /\ AccountLimitsHold' /\ IpLimitHolds'
<1>1. GrantPart /\ AccountPart /\ IpPart /\ AccountLimitsHold /\ IpLimitHolds
  BY DEF MemberInv, LimiterInv
<1>2. GrantPart'
  BY <1>1 DEF GrantPart, Requests
<1>3. AccountPart'
  BY <1>1 DEF AccountPart, OnDay, DayAt, HourAt
<1>4. IpPart'
  BY <1>1 DEF IpPart, InHour, HourAt
<1>5. AccountLimitsHold'
  BY <1>1 DEF AccountLimitsHold, DayAt, HourAt
<1>6. IpLimitHolds'
  BY <1>1 DEF IpLimitHolds, HourAt
<1>7. QED
  BY <1>2, <1>3, <1>4, <1>5, <1>6

\* A request that neither holds a lock nor was given a key moves on without
\* either: keys and locks are as sound as they were.
LEMMA QuietStore ==
  ASSUME MemberConstantsOK, MemberInv, UNCHANGED <<db, survivors, lock, handed>>,
         NEW r \in Requests, NEW x \in MemberCall, req' = [req EXCEPT ![r] = x],
         req[r].pc \notin Rotating \cup {"issued"}, x.pc \notin Rotating,
         x.pc \in {"asking", "reserving"} => x.ip \in Ips,
         x.pc \in {"reserving", "locking"} => x.account \in Accounts
  PROVE  RequestPart' /\ MappingPart' /\ LockIsOwned' /\ NoStrandedKey'
<1>1. /\ RequestPart /\ MappingPart /\ MemberTypeOK /\ LockIsOwned
      /\ NoStrandedKey
  BY DEF MemberInv, LimiterInv
<1>2. \A q \in Requests : req'[q] = IF q = r THEN x ELSE req[q]
  BY <1>1, MemberTypes
<1>3. \A k \in handed : k \in Requests /\ k # r /\ req'[k] = req[k]
  BY <1>1, <1>2 DEF RequestPart, MemberTypeOK
<1>4. Requests' = Requests
  BY DEF Requests
<1>5. RequestPart'
  BY <1>1, <1>2, <1>3, <1>4 DEF RequestPart, Rotating
<1>6. MappingPart'
  <2>1. \A a \in Accounts : db.map[a] # NoToken =>
          db.map[a] \in handed /\ req'[db.map[a]].account = a
    BY <1>1, <1>3 DEF MappingPart
  <2>2. \A q \in Requests :
       /\ req'[q].pc \in Rotating => req'[q].previous = db.map[req'[q].account]
       /\ req'[q].pc = "mapping" /\ req'[q].previous # NoToken =>
            db.record[req'[q].previous] # "live"
    BY <1>1, <1>2 DEF MappingPart, Rotating
  <2>3. QED
    BY <1>1, <1>4, <2>1, <2>2 DEF MappingPart, NoToken
<1>7. LockIsOwned'
  BY <1>1, <1>2, <1>4 DEF LockIsOwned, Rotating
<1>8. NoStrandedKey'
  BY <1>1, <1>3 DEF NoStrandedKey
<1>9. QED
  BY <1>5, <1>6, <1>7, <1>8

\* A step of a request that changes nothing but itself.
LEMMA CallStep ==
  ASSUME MemberConstantsOK, MemberInv,
         UNCHANGED <<db, survivors, now, up, stops, accounts, ips, lock, handed, grants>>,
         NEW r \in Requests, NEW x \in MemberCall, req' = [req EXCEPT ![r] = x],
         req[r].pc \notin Rotating \cup {"issued"}, x.pc \notin Rotating \cup {"new"},
         x.pc \in {"asking", "reserving"} =>
           x.ip \in Ips /\ req[r].pc \in {"new", "asking", "reserving"},
         x.pc \in {"reserving", "locking"} => x.account \in Accounts
  PROVE  MemberInv'
<1>1. MemberTypeOK
  BY DEF MemberInv, LimiterInv
<1>2. \A q \in Requests : req'[q] = IF q = r THEN x ELSE req[q]
  BY <1>1, MemberTypes
<1>3. req' \in [Requests -> MemberCall]
  BY <1>1, CallForms
<1>4. MemberTypeOK'
  <2>1. /\ lock \in [Accounts -> Requests \cup {NoToken}]
        /\ handed \subseteq Requests
        /\ survivors \subseteq KeyStores /\ db \in survivors
    BY <1>1 DEF MemberTypeOK
  <2>2. QED
    BY <1>1, <1>3, <2>1, CallTypes
<1>5. RequestPart' /\ MappingPart' /\ LockIsOwned' /\ NoStrandedKey'
  BY QuietStore
<1>6. /\ GrantPart' /\ AccountPart' /\ IpPart'
      /\ AccountLimitsHold' /\ IpLimitHolds'
  BY <1>2, QuietLimiter
<1>7. QED
  BY <1>4, <1>5, <1>6 DEF MemberInv, LimiterInv

-----------------------------------------------------------------------------
(* The steps.                                                              *)

\* Nothing is issued, granted or locked at the start.
LEMMA MemberInvInit == MemberConstantsOK /\ MemberInit => MemberInv
<1> SUFFICES ASSUME MemberConstantsOK, MemberInit PROVE MemberInv
  OBVIOUS
<1> USE DEF MemberInit
<1>1. EmptyStore \in KeyStores
  BY DEF EmptyStore, KeyStores
<1>2. 0 \in 0..LastSecond /\ 0 \in 0..MaxStops
  BY DEF MemberConstantsOK
<1>3. DOMAIN accounts = {} /\ DOMAIN ips = {}
  OBVIOUS
<1>4. /\ \A r \in Requests : /\ req[r] = NewRequest /\ req[r].pc = "new"
                                    /\ req[r].ip = "none"
                                    /\ req[r].account = NoAccount
                                    /\ req[r].previous = NoToken
      /\ \A a \in Accounts : lock[a] = NoToken /\ db.map[a] = NoToken
  BY DEF NewRequest, EmptyStore
<1>5. NewRequest \in MemberCall
  BY DEF NewRequest, MemberCall, MemberStates
<1>6. MemberTypeOK
  BY <1>1, <1>2, <1>3, <1>5 DEF MemberTypeOK, MemberCall, MemberStates, Rotating
<1>7. AccountLimitsHold /\ IpLimitHolds /\ NoStrandedKey
  BY DEF AccountLimitsHold, IpLimitHolds, NoStrandedKey
<1>8. LockIsOwned
  BY <1>4 DEF LockIsOwned, Requests, NoToken
<1>9. RequestPart
  BY <1>4 DEF RequestPart, Rotating
<1>10. MappingPart
  BY <1>4 DEF MappingPart, Rotating
<1>11. IsFiniteSet(grants)
  BY FS_EmptySet
<1>12. GrantPart /\ AccountPart /\ IpPart
  BY <1>3, <1>11 DEF GrantPart, AccountPart, IpPart
<1>13. QED
  BY <1>6, <1>7, <1>8, <1>9, <1>10, <1>12 DEF MemberInv, LimiterInv

\* The request is refused or the identity provider asked.
LEMMA ReceiveStep ==
  ASSUME MemberConstantsOK, MemberInv, NEW r \in Requests, NEW ip \in Ips,
         Receive(r, ip)
  PROVE  MemberInv'
<1>1. MemberTypeOK
  BY DEF MemberInv, LimiterInv
<1>2. PICK x : /\ req[r].pc = "new" /\ req' = [req EXCEPT ![r] = x]
               /\ \/ x = Ended(r, "refused")
                  \/ x = [At(r, "asking") EXCEPT !.ip = ip]
  BY DEF Receive, Goto
<1>3. UNCHANGED <<db, survivors, now, up, stops, accounts, ips, lock, handed, grants>>
  BY DEF Receive, storeVars, limiterVars
<1>4. x \in MemberCall /\ \/ x.pc = "refused"
                          \/ x.pc = "asking" /\ x.ip \in Ips
  BY <1>1, <1>2, CallForms DEF MemberCall, MemberStates
<1>5. QED
  BY <1>2, <1>3, <1>4, CallStep DEF Rotating

\* The provider names an account or not.
LEMMA VerifyStep ==
  ASSUME MemberConstantsOK, MemberInv, NEW r \in Requests, Verify(r)
  PROVE  MemberInv'
<1>1. MemberTypeOK /\ RequestPart
  BY DEF MemberInv, LimiterInv
<1>2. PICK x, a : /\ req[r].pc = "asking" /\ req' = [req EXCEPT ![r] = x]
                  /\ \/ x = Ended(r, "refused")
                     \/ a \in Accounts /\ x = [At(r, "reserving") EXCEPT !.account = a]
  BY DEF Verify, Goto
<1>3. UNCHANGED <<db, survivors, now, up, stops, accounts, ips, lock, handed, grants>>
  BY DEF Verify, storeVars, limiterVars
<1>4. req[r].ip \in Ips
  BY <1>1, <1>2 DEF RequestPart
<1>5. x \in MemberCall /\ \/ x.pc = "refused"
                          \/ x.pc = "reserving" /\ x.ip \in Ips /\ x.account \in Accounts
  BY <1>1, <1>2, <1>4, CallForms DEF MemberCall, MemberStates
<1>6. QED
  BY <1>2, <1>3, <1>5, CallStep DEF Rotating

\* One more grant is one more on its day and on no other.
LEMMA OneMoreOnDay ==
  ASSUME NEW G, IsFiniteSet(G), NEW n, n \notin G, NEW b, NEW d
  PROVE  /\ Cardinality(OnDay(G, b, d)) \in Nat
         /\ Cardinality(OnDay(G \cup {n}, b, d)) =
              IF n.account = b /\ DayAt(n.at) = d
              THEN Cardinality(OnDay(G, b, d)) + 1
              ELSE Cardinality(OnDay(G, b, d))
<1>1. OnDay(G, b, d) \subseteq G
  BY DEF OnDay
<1>2. IsFiniteSet(OnDay(G, b, d)) /\ Cardinality(OnDay(G, b, d)) \in Nat
  BY <1>1, FS_Subset, FS_CardinalityType
<1>3. OnDay(G \cup {n}, b, d) = IF n.account = b /\ DayAt(n.at) = d
                                       THEN OnDay(G, b, d) \cup {n} ELSE OnDay(G, b, d)
  BY DEF OnDay
<1>4. Cardinality(OnDay(G, b, d) \cup {n}) = Cardinality(OnDay(G, b, d)) + 1
  BY <1>1, <1>2, FS_AddElement
<1>5. QED
  BY <1>2, <1>3, <1>4

\* The same for the hours of an address.
LEMMA OneMoreInHour ==
  ASSUME NEW G, IsFiniteSet(G), NEW n, n \notin G, NEW i, NEW h
  PROVE  /\ Cardinality(InHour(G, i, h)) \in Nat
         /\ Cardinality(InHour(G \cup {n}, i, h)) =
              IF n.ip = i /\ HourAt(n.at) = h
              THEN Cardinality(InHour(G, i, h)) + 1
              ELSE Cardinality(InHour(G, i, h))
<1>1. InHour(G, i, h) \subseteq G
  BY DEF InHour
<1>2. IsFiniteSet(InHour(G, i, h)) /\ Cardinality(InHour(G, i, h)) \in Nat
  BY <1>1, FS_Subset, FS_CardinalityType
<1>3. InHour(G \cup {n}, i, h) = IF n.ip = i /\ HourAt(n.at) = h
                                        THEN InHour(G, i, h) \cup {n} ELSE InHour(G, i, h)
  BY DEF InHour
<1>4. Cardinality(InHour(G, i, h) \cup {n}) = Cardinality(InHour(G, i, h)) + 1
  BY <1>1, <1>2, FS_AddElement
<1>5. QED
  BY <1>2, <1>3, <1>4

\* reserve refuses, or charges windows that have room for one more.
LEMMA ReserveStep ==
  ASSUME MemberConstantsOK, MemberInv, NEW r \in Requests, Reserve(r)
  PROVE  MemberInv'
<1> DEFINE a == req[r].account
           ip == req[r].ip
           n == [request |-> r, account |-> a, ip |-> ip, at |-> now]
           today == DayAt(now)
           hour == HourAt(now)
<1>0. /\ MemberTypeOK /\ RequestPart /\ GrantPart /\ AccountPart /\ IpPart
      /\ AccountLimitsHold /\ IpLimitHolds
  BY DEF MemberInv, LimiterInv
<1>1. /\ req[r].pc = "reserving" /\ a \in Accounts /\ ip \in Ips /\ now \in Nat
      /\ today \in Nat /\ hour \in Nat
  BY <1>0, MemberTypes, CalendarMonotone DEF Reserve, RequestPart
<1>2. UNCHANGED <<db, survivors, now, up, stops, lock, handed>>
  BY DEF Reserve, storeVars
<1>3. CASE req' = [req EXCEPT ![r] = Ended(r, "refused")] /\ UNCHANGED <<accounts, ips, grants>>
  <2>1. Ended(r, "refused") \in MemberCall /\ Ended(r, "refused").pc = "refused"
    BY <1>0, CallForms DEF MemberStates
  <2>2. QED
    BY <1>1, <1>2, <1>3, <2>1, CallStep DEF Rotating
<1>4. CASE /\ ~Limited(r)
           /\ req' = [req EXCEPT ![r] = At(r, "locking")]
           /\ accounts' = PrunedAccounts(AccountCharged(a))
           /\ ips' = PrunedIps(IpCharged(ip))
           /\ grants' = grants \cup {n}
  <2>1. At(r, "locking") \in MemberCall /\ At(r, "locking").pc = "locking"
        /\ At(r, "locking").account \in Accounts
    BY <1>0, <1>1, CallForms DEF MemberStates
  <2>2. \A q \in Requests : req'[q] = IF q = r THEN At(r, "locking") ELSE req[q]
    BY <1>0, <1>4, MemberTypes
  <2>3. RequestPart' /\ MappingPart' /\ LockIsOwned' /\ NoStrandedKey'
    BY <1>1, <1>2, <1>4, <2>1, QuietStore DEF Rotating
  <2>4. n \notin grants /\ n \in [request : Requests, account : Accounts, ip : Ips, at : 0..now]
    BY <1>0, <1>1 DEF GrantPart
  <2>5. \A g \in grants : /\ g.at \in Nat /\ g.at <= now /\ g.account \in Accounts /\ g.ip \in Ips
                          /\ DayAt(g.at) \in Nat /\ HourAt(g.at) \in Nat
                          /\ DayAt(g.at) <= today /\ HourAt(g.at) <= hour
    <3> SUFFICES ASSUME NEW g \in grants
                 PROVE  /\ g.at \in Nat /\ g.at <= now /\ g.account \in Accounts /\ g.ip \in Ips
                        /\ DayAt(g.at) \in Nat /\ HourAt(g.at) \in Nat
                        /\ DayAt(g.at) <= today /\ HourAt(g.at) <= hour
      OBVIOUS
    <3>1. g.at \in Nat /\ g.at <= now /\ g.account \in Accounts /\ g.ip \in Ips
      BY <1>0, <1>1 DEF GrantPart
    <3>2. QED
      BY <1>1, <3>1, CalendarMonotone
  <2>6. /\ n.account = a /\ n.ip = ip /\ n.at = now
        /\ n \in [request : Requests, account : Accounts, ip : Ips, at : Nat]
    BY <1>1
  <2> HIDE DEF n
  <2>7. /\ IsFiniteSet(grants')
        /\ \A b, d : /\ Cardinality(OnDay(grants, b, d)) \in Nat
                     /\ Cardinality(OnDay(grants', b, d)) =
                          IF b = a /\ d = today
                          THEN Cardinality(OnDay(grants, b, d)) + 1
                          ELSE Cardinality(OnDay(grants, b, d))
        /\ \A i, h : /\ Cardinality(InHour(grants, i, h)) \in Nat
                     /\ Cardinality(InHour(grants', i, h)) =
                          IF i = ip /\ h = hour
                          THEN Cardinality(InHour(grants, i, h)) + 1
                          ELSE Cardinality(InHour(grants, i, h))
    <3>1. DayAt(n.at) = today /\ HourAt(n.at) = hour
      BY <2>6
    <3>2. IsFiniteSet(grants) /\ n \notin grants
      BY <1>0, <2>4 DEF GrantPart
    <3>3. grants' = grants \cup {n}
      BY <1>4
    <3>4. IsFiniteSet(grants \cup {n})
      BY <3>2, FS_AddElement
    <3>5. ASSUME NEW b, NEW d
          PROVE  /\ Cardinality(OnDay(grants, b, d)) \in Nat
                 /\ Cardinality(OnDay(grants \cup {n}, b, d)) =
                      IF n.account = b /\ DayAt(n.at) = d
                      THEN Cardinality(OnDay(grants, b, d)) + 1
                      ELSE Cardinality(OnDay(grants, b, d))
      <4>1. ASSUME NEW G, IsFiniteSet(G), NEW m, m \notin G
            PROVE  /\ Cardinality(OnDay(G, b, d)) \in Nat
                   /\ Cardinality(OnDay(G \cup {m}, b, d)) =
                        IF m.account = b /\ DayAt(m.at) = d
                        THEN Cardinality(OnDay(G, b, d)) + 1
                        ELSE Cardinality(OnDay(G, b, d))
        BY <4>1, OneMoreOnDay
      <4> HIDE DEF n
      <4>2. QED
        BY <3>2, <4>1
    <3>6. ASSUME NEW i, NEW h
          PROVE  /\ Cardinality(InHour(grants, i, h)) \in Nat
                 /\ Cardinality(InHour(grants \cup {n}, i, h)) =
                      IF n.ip = i /\ HourAt(n.at) = h
                      THEN Cardinality(InHour(grants, i, h)) + 1
                      ELSE Cardinality(InHour(grants, i, h))
      <4>1. ASSUME NEW G, IsFiniteSet(G), NEW m, m \notin G
            PROVE  /\ Cardinality(InHour(G, i, h)) \in Nat
                   /\ Cardinality(InHour(G \cup {m}, i, h)) =
                        IF m.ip = i /\ HourAt(m.at) = h
                        THEN Cardinality(InHour(G, i, h)) + 1
                        ELSE Cardinality(InHour(G, i, h))
        BY <4>1, OneMoreInHour, Z3
      <4> HIDE DEF n
      <4>2. QED
        BY <3>2, <4>1
    <3>7. QED
      BY <2>6, <3>1, <3>3, <3>4, <3>5, <3>6
  <2>8. GrantPart'
    <3>1. \A g \in grants' : g \in [request : Requests, account : Accounts, ip : Ips, at : 0..now]
      BY <1>0, <1>4, <2>4 DEF GrantPart
    <3>2. \A g \in grants' : req'[g.request].pc \notin {"new", "asking", "reserving"}
      <4> SUFFICES ASSUME NEW g \in grants'
                   PROVE  req'[g.request].pc \notin {"new", "asking", "reserving"}
        OBVIOUS
      <4>1. CASE g = n
        BY <2>1, <2>2, <4>1 DEF n
      <4>2. CASE g \in grants
        BY <1>0, <1>1, <2>2, <4>2 DEF GrantPart
      <4>3. QED
        BY <1>4, <4>1, <4>2
    <3>3. QED
      BY <1>2, <2>7, <3>1, <3>2 DEF GrantPart, Requests
  \* Room in the account's window, or no grant today.
  <2>9. /\ a \in DOMAIN accounts =>
             /\ now - accounts[a].last >= MinInterval
             /\ accounts[a].day = today => accounts[a].count < DailyMax
        /\ ip \in DOMAIN ips /\ ips[ip].hour = hour => ips[ip].count < HourlyMax
    <3>1. ~AccountBlocked(a) /\ ~IpBlocked(ip)
      BY <1>4 DEF Limited
    <3>2. MinInterval \in Nat /\ DailyMax \in Nat /\ HourlyMax \in Nat
      BY DEF MemberConstantsOK
    <3>3. a \in DOMAIN accounts => accounts[a].last \in Nat /\ accounts[a].count \in Nat
      BY <1>0, <1>1, <3>2 DEF MemberTypeOK
    <3>4. ip \in DOMAIN ips => ips[ip].count \in Nat
      BY <1>0, <1>1, <3>2 DEF MemberTypeOK
    <3>5. QED
      BY <1>1, <3>1, <3>2, <3>3, <3>4 DEF AccountBlocked, IpBlocked
  <2>10. \A b \in DOMAIN accounts :
           /\ accounts[b].last \in Nat /\ accounts[b].last <= now
           /\ accounts[b].day \in Nat /\ accounts[b].day <= today
           /\ accounts[b].count \in 1..DailyMax /\ b \in Accounts
           /\ \A g \in grants : g.account = b => DayAt(g.at) <= accounts[b].day
    <3> SUFFICES ASSUME NEW b \in DOMAIN accounts
                 PROVE  /\ accounts[b].last \in Nat /\ accounts[b].last <= now
                        /\ accounts[b].day \in Nat /\ accounts[b].day <= today
                        /\ accounts[b].count \in 1..DailyMax /\ b \in Accounts
                        /\ \A g \in grants : g.account = b => DayAt(g.at) <= accounts[b].day
      OBVIOUS
    <3>1. /\ accounts[b].last \in Nat /\ accounts[b].last <= now
          /\ accounts[b].count \in 1..DailyMax /\ b \in Accounts
      BY <1>0, <1>1 DEF MemberTypeOK
    <3>2. accounts[b].day = DayAt(accounts[b].last)
      BY <1>0 DEF AccountPart
    <3>3. accounts[b].day \in Nat /\ accounts[b].day <= today
      BY <1>1, <3>1, <3>2, CalendarMonotone
    <3>4. ASSUME NEW g \in grants, g.account = b PROVE DayAt(g.at) <= accounts[b].day
      <4>1. g.at <= accounts[b].last
        BY <1>0, <3>4 DEF AccountPart
      <4>2. QED
        BY <2>5, <3>1, <3>2, <4>1, CalendarMonotone
    <3>5. QED
      BY <3>1, <3>3, <3>4
  <2>11. \A i \in DOMAIN ips :
           /\ ips[i].hour \in Nat /\ ips[i].hour <= hour
           /\ ips[i].count \in 1..HourlyMax /\ i \in Ips
    BY <1>0, <1>1 DEF MemberTypeOK
  <2>12. IF a \in DOMAIN accounts /\ accounts[a].day = today
         THEN Cardinality(OnDay(grants, a, today)) = accounts[a].count
         ELSE Cardinality(OnDay(grants, a, today)) = 0
    <3>1. CASE a \in DOMAIN accounts /\ accounts[a].day = today
      BY <1>0, <3>1 DEF AccountPart
    <3>2. CASE ~(a \in DOMAIN accounts /\ accounts[a].day = today)
      <4>1. \A g \in grants : g.account = a => DayAt(g.at) # today
        <5> SUFFICES ASSUME NEW g \in grants, g.account = a PROVE DayAt(g.at) # today
          OBVIOUS
        <5>1. CASE a \in DOMAIN accounts
          BY <1>1, <2>5, <2>10, <3>2, <5>1
        <5>2. CASE a \notin DOMAIN accounts
          BY <1>0, <1>1, <2>5, <5>2 DEF AccountPart
        <5>3. QED
          BY <5>1, <5>2
      <4>2. OnDay(grants, a, today) = {}
        BY <4>1 DEF OnDay
      <4>3. QED
        BY <3>2, <4>2, FS_EmptySet
    <3>3. QED
      BY <3>1, <3>2
  <2>13. IF ip \in DOMAIN ips /\ ips[ip].hour = hour
         THEN Cardinality(InHour(grants, ip, hour)) = ips[ip].count
         ELSE Cardinality(InHour(grants, ip, hour)) = 0
    <3>1. CASE ip \in DOMAIN ips /\ ips[ip].hour = hour
      BY <1>0, <3>1 DEF IpPart
    <3>2. CASE ~(ip \in DOMAIN ips /\ ips[ip].hour = hour)
      <4>1. \A g \in grants : g.ip = ip => HourAt(g.at) # hour
        BY <1>0, <1>1, <2>5, <2>11, <3>2 DEF IpPart
      <4>2. InHour(grants, ip, hour) = {}
        BY <4>1 DEF InHour
      <4>3. QED
        BY <3>2, <4>2, FS_EmptySet
    <3>3. QED
      BY <3>1, <3>2
  <2>14. DailyMax \in Nat \ {0} /\ HourlyMax \in Nat \ {0} /\ MinInterval \in Nat
    BY DEF MemberConstantsOK
  <2>15. /\ Cardinality(OnDay(grants, a, today)) < DailyMax
         /\ Cardinality(InHour(grants, ip, hour)) < HourlyMax
    BY <2>9, <2>12, <2>13, <2>14
  <2>16. /\ a \in DOMAIN accounts'
         /\ accounts'[a] = [last |-> now, day |-> today, count |-> Cardinality(OnDay(grants, a, today)) + 1]
         /\ \A b \in DOMAIN accounts' : b # a => b \in DOMAIN accounts /\ accounts'[b] = accounts[b]
         /\ \A b \in DOMAIN accounts : b \notin DOMAIN accounts' =>
              accounts[b].day # today /\ now - accounts[b].last >= MinInterval
    <3>1. /\ a \in DOMAIN accounts'
          /\ accounts'[a] = [last |-> now, day |-> today,
                             count |-> IF a \in DOMAIN accounts /\ accounts[a].day = today
                                       THEN accounts[a].count + 1 ELSE 1]
          /\ \A b \in DOMAIN accounts' : b # a => b \in DOMAIN accounts /\ accounts'[b] = accounts[b]
          /\ \A b \in DOMAIN accounts : b \notin DOMAIN accounts' => ~AccountWindowLive(accounts[b])
      BY <1>4, ChargedAccounts
    <3>2. (IF a \in DOMAIN accounts /\ accounts[a].day = today THEN accounts[a].count + 1 ELSE 1)
            = Cardinality(OnDay(grants, a, today)) + 1
      BY <2>7, <2>12
    <3>3. \A b \in DOMAIN accounts : ~AccountWindowLive(accounts[b]) =>
            accounts[b].day # today /\ now - accounts[b].last >= MinInterval
      BY <1>1, <2>10, <2>14 DEF AccountWindowLive
    <3>4. QED
      BY <3>1, <3>2, <3>3
  <2>17. /\ ip \in DOMAIN ips'
         /\ ips'[ip] = [hour |-> hour, count |-> Cardinality(InHour(grants, ip, hour)) + 1]
         /\ \A i \in DOMAIN ips' : i # ip => i \in DOMAIN ips /\ ips'[i] = ips[i]
         /\ \A i \in DOMAIN ips : i \notin DOMAIN ips' => ips[i].hour # hour
    <3>1. /\ ip \in DOMAIN ips'
          /\ ips'[ip] = [hour |-> hour,
                         count |-> IF ip \in DOMAIN ips /\ ips[ip].hour = hour
                                   THEN ips[ip].count + 1 ELSE 1]
          /\ \A i \in DOMAIN ips' : i # ip => i \in DOMAIN ips /\ ips'[i] = ips[i]
          /\ \A i \in DOMAIN ips : i \notin DOMAIN ips' => ~IpWindowLive(ips[i])
      BY <1>4, ChargedIps
    <3>2. (IF ip \in DOMAIN ips /\ ips[ip].hour = hour THEN ips[ip].count + 1 ELSE 1)
            = Cardinality(InHour(grants, ip, hour)) + 1
      BY <2>7, <2>13
    <3>3. QED
      BY <3>1, <3>2 DEF IpWindowLive
  <2>18. MemberTypeOK'
    <3>1. /\ DOMAIN accounts' \subseteq Accounts
          /\ \A b \in DOMAIN accounts' :
               accounts'[b] \in [last : 0..now, day : 0..today, count : 1..DailyMax]
      <4>1. accounts'[a] \in [last : 0..now, day : 0..today, count : 1..DailyMax]
        BY <1>1, <2>7, <2>14, <2>15, <2>16
      <4>2. \A b \in DOMAIN accounts : accounts[b] \in [last : 0..now, day : 0..today, count : 1..DailyMax]
        BY <1>0 DEF MemberTypeOK
      <4>3. QED
        BY <1>1, <2>10, <2>16, <4>1, <4>2
    <3>2. /\ DOMAIN ips' \subseteq Ips
          /\ \A i \in DOMAIN ips' : ips'[i] \in [hour : 0..hour, count : 1..HourlyMax]
      <4>1. ips'[ip] \in [hour : 0..hour, count : 1..HourlyMax]
        BY <1>1, <2>7, <2>14, <2>15, <2>17
      <4>2. \A i \in DOMAIN ips : ips[i] \in [hour : 0..hour, count : 1..HourlyMax]
        BY <1>0 DEF MemberTypeOK
      <4>3. QED
        BY <1>1, <2>11, <2>17, <4>1, <4>2
    <3>3. req' \in [Requests -> MemberCall]
      BY <1>0, <1>4, <2>1, CallForms
    <3>4. DayAt(now)' = today /\ HourAt(now)' = hour
      BY <1>2 DEF DayAt, HourAt
    <3>5. QED
      BY <1>0, <1>2, <3>1, <3>2, <3>3, <3>4
      DEF MemberTypeOK, MemberCall, MemberStates, Rotating, Requests, NoToken,
          KeyStores, NoAccount
  <2>19. AccountPart'
    <3>1. ASSUME NEW b \in DOMAIN accounts'
          PROVE  /\ accounts'[b].day = DayAt(accounts'[b].last)
                 /\ accounts'[b].count = Cardinality(OnDay(grants', b, accounts'[b].day))
                 /\ \A g \in grants' : g.account = b => g.at <= accounts'[b].last
      <4>1. CASE b = a
        <5>1. accounts'[b].day = today /\ accounts'[b].last = now
          BY <2>16, <4>1
        <5>2. accounts'[b].count = Cardinality(OnDay(grants, a, today)) + 1
          BY <2>16, <4>1
        <5>3. Cardinality(OnDay(grants', a, today)) = Cardinality(OnDay(grants, a, today)) + 1
          BY <2>7
        <5>4. \A g \in grants' : g.at <= now
          BY <1>1, <1>4, <2>5, <2>6
        <5>5. QED
          BY <4>1, <5>1, <5>2, <5>3, <5>4
      <4>2. CASE b # a
        <5>1. b \in DOMAIN accounts /\ accounts'[b] = accounts[b]
          BY <2>16, <4>2
        <5>2. Cardinality(OnDay(grants', b, accounts[b].day)) = Cardinality(OnDay(grants, b, accounts[b].day))
          BY <2>7, <4>2
        <5>3. QED
          BY <1>0, <1>4, <2>6, <4>2, <5>1, <5>2 DEF AccountPart
      <4>3. QED
        BY <4>1, <4>2
    <3>2. ASSUME NEW g \in grants', g.account \notin DOMAIN accounts'
          PROVE  DayAt(g.at) < today /\ now - g.at >= MinInterval
      <4>1. g.account # a /\ g \in grants
        BY <1>4, <2>6, <2>16, <3>2
      <4>2. CASE g.account \notin DOMAIN accounts
        BY <1>0, <4>1, <4>2 DEF AccountPart
      <4>3. CASE g.account \in DOMAIN accounts
        <5>1. /\ accounts[g.account].day # today
              /\ now - accounts[g.account].last >= MinInterval
          BY <2>16, <3>2, <4>3
        <5>2. g.at <= accounts[g.account].last
          BY <1>0, <4>1, <4>3 DEF AccountPart
        <5>3. QED
          BY <1>1, <2>5, <2>10, <2>14, <4>1, <4>3, <5>1, <5>2
      <4>4. QED
        BY <4>2, <4>3
    <3>3. /\ \A b \in DOMAIN accounts' :
               /\ accounts'[b].day = DayAt(accounts'[b].last)
               /\ accounts'[b].count = Cardinality(OnDay(grants', b, accounts'[b].day))
               /\ \A g \in grants' : g.account = b => g.at <= accounts'[b].last
          /\ \A g \in grants' : g.account \notin DOMAIN accounts' =>
               DayAt(g.at) < today /\ now - g.at >= MinInterval
      BY <3>1, <3>2
    <3>4. QED
      BY <1>2, <3>3 DEF AccountPart, OnDay, DayAt, HourAt
  <2>20. IpPart'
    <3>1. ASSUME NEW i \in DOMAIN ips'
          PROVE  /\ ips'[i].count = Cardinality(InHour(grants', i, ips'[i].hour))
                 /\ \A g \in grants' : g.ip = i => HourAt(g.at) <= ips'[i].hour
      <4>1. CASE i = ip
        <5>1. /\ ips'[i].hour = hour
              /\ ips'[i].count = Cardinality(InHour(grants, ip, hour)) + 1
          BY <2>17, <4>1
        <5>2. Cardinality(InHour(grants', ip, hour)) = Cardinality(InHour(grants, ip, hour)) + 1
          BY <2>7
        <5>3. \A g \in grants' : HourAt(g.at) <= hour
          BY <1>1, <1>4, <2>5, <2>6
        <5>4. QED
          BY <4>1, <5>1, <5>2, <5>3
      <4>2. CASE i # ip
        <5>1. i \in DOMAIN ips /\ ips'[i] = ips[i]
          BY <2>17, <4>2
        <5>2. Cardinality(InHour(grants', i, ips[i].hour)) = Cardinality(InHour(grants, i, ips[i].hour))
          BY <2>7, <4>2
        <5>3. QED
          BY <1>0, <1>4, <2>6, <4>2, <5>1, <5>2 DEF IpPart
      <4>3. QED
        BY <4>1, <4>2
    <3>2. ASSUME NEW g \in grants', g.ip \notin DOMAIN ips'
          PROVE  HourAt(g.at) < hour
      <4>1. g.ip # ip /\ g \in grants
        BY <1>4, <2>6, <2>17, <3>2
      <4>2. CASE g.ip \notin DOMAIN ips
        BY <1>0, <4>1, <4>2 DEF IpPart
      <4>3. CASE g.ip \in DOMAIN ips
        <5>1. ips[g.ip].hour # hour /\ HourAt(g.at) <= ips[g.ip].hour
          BY <1>0, <2>17, <3>2, <4>1, <4>3 DEF IpPart
        <5>2. QED
          BY <1>1, <2>5, <2>11, <4>1, <4>3, <5>1
      <4>4. QED
        BY <4>2, <4>3
    <3>3. /\ \A i \in DOMAIN ips' :
               /\ ips'[i].count = Cardinality(InHour(grants', i, ips'[i].hour))
               /\ \A g \in grants' : g.ip = i => HourAt(g.at) <= ips'[i].hour
          /\ \A g \in grants' : g.ip \notin DOMAIN ips' => HourAt(g.at) < hour
      BY <3>1, <3>2
    <3>4. QED
      BY <1>2, <3>3 DEF IpPart, InHour, HourAt
  <2>21. AccountLimitsHold'
    <3>1. ASSUME NEW g \in grants', NEW h \in grants' \ {g}, g.account = h.account
          PROVE  g.at - h.at >= MinInterval \/ h.at - g.at >= MinInterval
      <4>1. \A x \in grants : x.account = a => now - x.at >= MinInterval
        <5> SUFFICES ASSUME NEW x \in grants, x.account = a PROVE now - x.at >= MinInterval
          OBVIOUS
        <5>1. CASE a \notin DOMAIN accounts
          BY <1>0, <5>1 DEF AccountPart
        <5>2. CASE a \in DOMAIN accounts
          <6>1. x.at <= accounts[a].last
            BY <1>0, <5>2 DEF AccountPart
          <6>2. QED
            BY <1>1, <2>5, <2>9, <2>10, <2>14, <5>2, <6>1
        <5>3. QED
          BY <5>1, <5>2
      <4>2. CASE g \in grants /\ h \in grants
        BY <1>0, <3>1, <4>2 DEF AccountLimitsHold
      <4>3. CASE g = n \/ h = n
        BY <1>4, <2>6, <3>1, <4>1, <4>3
      <4>4. QED
        BY <1>4, <4>2, <4>3
    <3>2. ASSUME NEW g \in grants'
          PROVE  Cardinality(OnDay(grants', g.account, DayAt(g.at))) <= DailyMax
      <4>1. CASE g.account = a /\ DayAt(g.at) = today
        BY <2>7, <2>14, <2>15, <4>1
      <4>2. CASE ~(g.account = a /\ DayAt(g.at) = today)
        <5>1. g \in grants
          BY <1>4, <2>6, <4>2
        <5>2. Cardinality(OnDay(grants, g.account, DayAt(g.at))) <= DailyMax
          BY <1>0, <5>1 DEF AccountLimitsHold
        <5>3. Cardinality(OnDay(grants', g.account, DayAt(g.at))) =
                Cardinality(OnDay(grants, g.account, DayAt(g.at)))
          BY <2>7, <4>2
        <5>4. QED
          BY <5>2, <5>3
      <4>3. QED
        BY <4>1, <4>2
    <3>3. \A g \in grants' :
            /\ \A h \in grants' \ {g} :
                 g.account = h.account => g.at - h.at >= MinInterval \/ h.at - g.at >= MinInterval
            /\ Cardinality(OnDay(grants', g.account, DayAt(g.at))) <= DailyMax
      BY <3>1, <3>2
    <3>4. QED
      BY <3>3 DEF AccountLimitsHold
  <2>22. IpLimitHolds'
    <3>1. ASSUME NEW g \in grants'
          PROVE  Cardinality(InHour(grants', g.ip, HourAt(g.at))) <= HourlyMax
      <4>1. CASE g.ip = ip /\ HourAt(g.at) = hour
        BY <2>7, <2>14, <2>15, <4>1
      <4>2. CASE ~(g.ip = ip /\ HourAt(g.at) = hour)
        <5>1. g \in grants
          BY <1>4, <2>6, <4>2
        <5>2. Cardinality(InHour(grants, g.ip, HourAt(g.at))) <= HourlyMax
          BY <1>0, <5>1 DEF IpLimitHolds
        <5>3. Cardinality(InHour(grants', g.ip, HourAt(g.at))) =
                Cardinality(InHour(grants, g.ip, HourAt(g.at)))
          BY <2>7, <4>2
        <5>4. QED
          BY <5>2, <5>3
      <4>3. QED
        BY <4>1, <4>2
    <3>2. \A g \in grants' : Cardinality(InHour(grants', g.ip, HourAt(g.at))) <= HourlyMax
      BY <3>1
    <3>3. QED
      BY <3>2 DEF IpLimitHolds
  <2>23. QED
    BY <2>3, <2>8, <2>18, <2>19, <2>20, <2>21, <2>22 DEF MemberInv, LimiterInv
<1>5. QED
  BY <1>3, <1>4 DEF Reserve, Goto, limiterVars

\* The account's lock is taken and its mapping read.
LEMMA ReadMappingStep ==
  ASSUME MemberConstantsOK, MemberInv, NEW r \in Requests, ReadMapping(r)
  PROVE  MemberInv'
<1> DEFINE a == req[r].account
           x == [At(r, "creating") EXCEPT !.previous = db.map[a]]
<1>0. /\ MemberTypeOK /\ RequestPart /\ MappingPart /\ LockIsOwned
      /\ NoStrandedKey
  BY DEF MemberInv, LimiterInv
<1>1. /\ req[r].pc = "locking" /\ lock[a] = NoToken /\ lock' = [lock EXCEPT ![a] = r]
      /\ req' = [req EXCEPT ![r] = x]
  BY DEF ReadMapping, Goto
<1>2. UNCHANGED <<db, survivors, now, up, stops, accounts, ips, handed, grants>>
  BY DEF ReadMapping, storeVars, limiterVars
<1>3. a \in Accounts
  BY <1>0, <1>1 DEF RequestPart
<1>4. db.map[a] \in Requests \cup {NoToken}
  BY <1>0, <1>3, MemberTypes DEF KeyStores
<1>5. x \in MemberCall /\ x.pc = "creating" /\ x.account = a /\ x.previous = db.map[a]
  <2>1. "creating" \in MemberStates
    BY DEF MemberStates, Rotating
  <2>2. At(r, "creating") \in MemberCall
    BY <1>0, <2>1, CallForms
  <2>3. At(r, "creating").pc = "creating" /\ At(r, "creating").account = a
    BY <1>0, <2>1, CallForms
  <2>4. \A m \in MemberCall, v \in Requests \cup {NoToken} :
          /\ [m EXCEPT !.previous = v] \in MemberCall
          /\ [m EXCEPT !.previous = v].pc = m.pc /\ [m EXCEPT !.previous = v].account = m.account
          /\ [m EXCEPT !.previous = v].previous = v
    BY DEF MemberCall
  <2>5. QED
    BY <1>4, <2>2, <2>3, <2>4
<1> HIDE DEF x
<1>6. /\ \A q \in Requests : req'[q] = IF q = r THEN x ELSE req[q]
      /\ \A b \in Accounts : lock'[b] = IF b = a THEN r ELSE lock[b]
  BY <1>0, <1>1, <1>3, MemberTypes
<1>7. Requests' = Requests /\ NoToken' = NoToken
  BY DEF Requests, NoToken
<1>8. MemberTypeOK'
  <2>1. /\ req' \in [Requests -> MemberCall]
        /\ lock' \in [Accounts -> Requests \cup {NoToken}]
        /\ handed \subseteq Requests
        /\ survivors \subseteq KeyStores /\ db \in survivors
    BY <1>0, <1>1, <1>5, CallForms DEF MemberTypeOK
  <2>2. QED
    BY <1>0, <1>2, <2>1, CallTypes
<1>9. /\ GrantPart' /\ AccountPart' /\ IpPart'
      /\ AccountLimitsHold' /\ IpLimitHolds'
  BY <1>2, <1>5, <1>6, QuietLimiter
<1>10. \A k \in handed : k \in Requests /\ k # r /\ req'[k] = req[k]
  BY <1>0, <1>1, <1>6 DEF RequestPart, MemberTypeOK
<1>11. RequestPart'
  BY <1>0, <1>2, <1>3, <1>5, <1>6, <1>7, <1>10 DEF RequestPart, Rotating
<1>12. MappingPart'
  BY <1>0, <1>2, <1>5, <1>6, <1>7, <1>10 DEF MappingPart, Rotating
<1>13. LockIsOwned'
  BY <1>0, <1>1, <1>3, <1>5, <1>6, <1>7, MemberTypes DEF LockIsOwned
<1>14. NoStrandedKey'
  BY <1>0, <1>2, <1>10 DEF NoStrandedKey
<1>15. QED
  BY <1>8, <1>9, <1>11, <1>12, <1>13, <1>14 DEF MemberInv, LimiterInv

\* The new record is of a key that nobody has yet.
LEMMA CreateKeyStep ==
  ASSUME MemberConstantsOK, MemberInv, NEW r \in Requests, CreateKey(r)
  PROVE  MemberInv'
<1> DEFINE x == At(r, "revoking")
           new == [db EXCEPT !.record[r] = "live"]
<1>0. /\ MemberTypeOK /\ RequestPart /\ MappingPart /\ LockIsOwned
      /\ NoStrandedKey
  BY DEF MemberInv, LimiterInv
<1>1. /\ req[r].pc = "creating" /\ req' = [req EXCEPT ![r] = x]
      /\ db' = new /\ survivors' = survivors \cup {new}
  BY DEF CreateKey, Goto, WriteUnsynced
<1>2. UNCHANGED <<now, up, stops, accounts, ips, lock, handed, grants>>
  BY DEF CreateKey, limiterVars
<1>3. /\ new \in KeyStores /\ new.map = db.map
      /\ \A j \in Requests : new.record[j] = IF j = r THEN "live" ELSE db.record[j]
  BY <1>0, MemberTypes, WriteRecord
<1>4. /\ x \in MemberCall /\ x.pc = "revoking" /\ x.account = req[r].account
      /\ x.previous = req[r].previous
  BY <1>0, CallForms DEF MemberStates, Rotating
<1> HIDE DEF x, new
<1>5. \A q \in Requests : req'[q] = IF q = r THEN x ELSE req[q]
  BY <1>0, <1>1, MemberTypes
<1>6. Requests' = Requests /\ NoToken' = NoToken
  BY DEF Requests, NoToken
<1>7. MemberTypeOK'
  <2>1. /\ req' \in [Requests -> MemberCall]
        /\ lock \in [Accounts -> Requests \cup {NoToken}]
        /\ handed \subseteq Requests
        /\ survivors' \subseteq KeyStores /\ db' \in survivors'
    BY <1>0, <1>1, <1>3, <1>4, CallForms DEF MemberTypeOK
  <2>2. QED
    BY <1>0, <1>2, <2>1, CallTypes
<1>8. /\ GrantPart' /\ AccountPart' /\ IpPart'
      /\ AccountLimitsHold' /\ IpLimitHolds'
  BY <1>2, <1>4, <1>5, QuietLimiter
<1>9. \A k \in handed : k \in Requests /\ k # r /\ req'[k] = req[k]
  BY <1>0, <1>1, <1>5 DEF RequestPart, MemberTypeOK
<1>10. RequestPart'
  BY <1>0, <1>1, <1>2, <1>4, <1>5, <1>6, <1>9 DEF RequestPart, Rotating
<1>11. MappingPart'
  <2>1. \A s \in survivors' : s.map = db'.map
    BY <1>0, <1>1, <1>3 DEF MappingPart
  <2>2. \A a \in Accounts : db'.map[a] # NoToken =>
          db'.map[a] \in handed /\ req'[db'.map[a]].account = a
    BY <1>0, <1>1, <1>3, <1>9 DEF MappingPart
  <2>3. ASSUME NEW q \in Requests, req'[q].pc \in Rotating
        PROVE  /\ req'[q].previous = db'.map[req'[q].account]
               /\ req'[q].pc = "mapping" /\ req'[q].previous # NoToken =>
                    db'.record[req'[q].previous] # "live"
    <3>1. /\ req[q].pc \in Rotating /\ req'[q].previous = req[q].previous
          /\ req'[q].account = req[q].account /\ req[q].account \in Accounts
          /\ req'[q].pc = "mapping" => req[q].pc = "mapping"
      BY <1>0, <1>1, <1>4, <1>5, <2>3 DEF Rotating, RequestPart
    <3>2. req[q].previous = db.map[req[q].account]
      BY <1>0, <3>1 DEF MappingPart
    <3>3. req[q].previous # NoToken => req[q].previous \in handed
      BY <1>0, <3>1, <3>2 DEF MappingPart
    <3>4. QED
      BY <1>0, <1>1, <1>3, <1>9, <3>1, <3>2, <3>3 DEF MappingPart
  <2>4. QED
    BY <1>2, <1>6, <2>1, <2>2, <2>3 DEF MappingPart, Rotating
<1>12. LockIsOwned'
  BY <1>0, <1>1, <1>2, <1>4, <1>5, <1>6 DEF LockIsOwned
<1>13. NoStrandedKey'
  BY <1>0, <1>1, <1>2, <1>3, <1>9, MemberTypes DEF NoStrandedKey, MemberTypeOK
<1>14. QED
  BY <1>7, <1>8, <1>10, <1>11, <1>12, <1>13 DEF MemberInv, LimiterInv

\* The previous key is retired, unless its record is not there.
LEMMA RevokeOldStep ==
  ASSUME MemberConstantsOK, MemberInv, NEW r \in Requests, RevokeOld(r)
  PROVE  MemberInv'
<1> DEFINE x == At(r, "mapping")
           k == req[r].previous
           new == [db EXCEPT !.record[k] = "revoked"]
<1>0. /\ MemberTypeOK /\ RequestPart /\ MappingPart /\ LockIsOwned
      /\ NoStrandedKey
  BY DEF MemberInv, LimiterInv
<1>1. /\ req[r].pc = "revoking" /\ req' = [req EXCEPT ![r] = x]
      /\ IF k # NoToken /\ db.record[k] # "none"
         THEN db' = new /\ survivors' = survivors \cup {new}
         ELSE UNCHANGED <<db, survivors>>
  BY DEF RevokeOld, Goto, WriteUnsynced, storeVars
<1>2. UNCHANGED <<now, up, stops, accounts, ips, lock, handed, grants>>
  BY DEF RevokeOld, limiterVars
<1>3. /\ x \in MemberCall /\ x.pc = "mapping" /\ x.account = req[r].account /\ x.previous = k
      /\ k \in Requests \cup {NoToken}
  BY <1>0, CallForms, MemberTypes DEF MemberStates, Rotating
<1>4. /\ db' \in KeyStores /\ db'.map = db.map
      /\ survivors' \subseteq survivors \cup {db'} /\ db' \in survivors'
      /\ \A j \in Requests : db'.record[j] = "live" => db.record[j] = "live"
      /\ k # NoToken => db'.record[k] # "live"
  <2>1. CASE k # NoToken /\ db.record[k] # "none"
    <3>1. k \in Requests
      BY <1>3, <2>1
    <3>2. /\ new \in KeyStores /\ new.map = db.map
          /\ \A j \in Requests : new.record[j] = IF j = k THEN "revoked" ELSE db.record[j]
      BY <1>0, <3>1, MemberTypes, WriteRecord
    <3> HIDE DEF new, k
    <3>3. db' = new /\ survivors' = survivors \cup {new}
      BY <1>1, <2>1
    <3>4. QED
      BY <3>1, <3>2, <3>3
  <2>2. CASE ~(k # NoToken /\ db.record[k] # "none")
    BY <1>0, <1>1, <2>2, MemberTypes DEF MemberTypeOK
  <2>3. QED
    BY <2>1, <2>2
<1> HIDE DEF x, new, k
<1>5. \A q \in Requests : req'[q] = IF q = r THEN x ELSE req[q]
  BY <1>0, <1>1, MemberTypes
<1>6. Requests' = Requests /\ NoToken' = NoToken
  BY DEF Requests, NoToken
<1>7. MemberTypeOK'
  <2>1. /\ req' \in [Requests -> MemberCall]
        /\ lock \in [Accounts -> Requests \cup {NoToken}]
        /\ handed \subseteq Requests
        /\ survivors' \subseteq KeyStores /\ db' \in survivors'
    BY <1>0, <1>1, <1>3, <1>4, CallForms DEF MemberTypeOK
  <2>2. QED
    BY <1>0, <1>2, <2>1, CallTypes
<1>8. /\ GrantPart' /\ AccountPart' /\ IpPart'
      /\ AccountLimitsHold' /\ IpLimitHolds'
  BY <1>2, <1>3, <1>5, QuietLimiter
<1>9. \A j \in handed : j \in Requests /\ j # r /\ req'[j] = req[j]
  BY <1>0, <1>1, <1>5 DEF RequestPart, MemberTypeOK
<1>10. RequestPart'
  BY <1>0, <1>1, <1>2, <1>3, <1>5, <1>6, <1>9 DEF RequestPart, Rotating
<1>11. MappingPart'
  <2>1. \A s \in survivors' : s.map = db'.map
    BY <1>0, <1>4 DEF MappingPart
  <2>2. \A a \in Accounts : db'.map[a] # NoToken =>
          db'.map[a] \in handed /\ req'[db'.map[a]].account = a
    BY <1>0, <1>4, <1>9 DEF MappingPart
  <2>3. ASSUME NEW q \in Requests, req'[q].pc \in Rotating
        PROVE  /\ req'[q].previous = db'.map[req'[q].account]
               /\ req'[q].pc = "mapping" /\ req'[q].previous # NoToken =>
                    db'.record[req'[q].previous] # "live"
    <3>1. /\ req[q].pc \in Rotating /\ req'[q].previous = req[q].previous
          /\ req'[q].account = req[q].account
          /\ req[q].previous \in Requests \cup {NoToken}
      BY <1>0, <1>1, <1>3, <1>5, <2>3, MemberTypes DEF Rotating, k
    <3>2. req[q].previous = db.map[req[q].account]
      BY <1>0, <3>1 DEF MappingPart
    <3>3. CASE q = r
      BY <1>4, <3>1, <3>2, <3>3 DEF k
    <3>4. CASE q # r
      BY <1>0, <1>4, <1>5, <3>1, <3>2, <3>4 DEF MappingPart
    <3>5. QED
      BY <3>3, <3>4
  <2>4. QED
    BY <1>2, <1>6, <2>1, <2>2, <2>3 DEF MappingPart, Rotating
<1>12. LockIsOwned'
  BY <1>0, <1>1, <1>2, <1>3, <1>5, <1>6 DEF LockIsOwned
<1>13. NoStrandedKey'
  <2>1. ASSUME NEW s \in survivors', NEW j \in handed, s.record[j] = "live"
        PROVE  s.map[req'[j].account] = j
    <3>1. CASE s \in survivors
      BY <1>0, <1>9, <2>1, <3>1 DEF NoStrandedKey
    <3>2. CASE s = db'
      <4>1. db.record[j] = "live" /\ db \in survivors
        BY <1>0, <1>4, <1>9, <2>1, <3>2 DEF MemberTypeOK
      <4>2. QED
        BY <1>0, <1>4, <1>9, <3>2, <4>1 DEF NoStrandedKey
    <3>3. QED
      BY <1>4, <3>1, <3>2
  <2>2. QED
    BY <1>2, <2>1 DEF NoStrandedKey
<1>14. QED
  BY <1>7, <1>8, <1>10, <1>11, <1>12, <1>13 DEF MemberInv, LimiterInv

\* The mapping is durable with all that came before it, and the token goes
\* out: the key it replaces is the only one of the account that worked, and
\* is retired in the db that is now the only one left.
LEMMA PutMappingStep ==
  ASSUME MemberConstantsOK, MemberInv, NEW r \in Requests, PutMapping(r)
  PROVE  MemberInv'
<1> DEFINE a == req[r].account
           x == Ended(r, "issued")
           new == [db EXCEPT !.map[a] = r]
<1>0. /\ MemberTypeOK /\ RequestPart /\ MappingPart /\ LockIsOwned
      /\ NoStrandedKey
  BY DEF MemberInv, LimiterInv
<1>1. /\ req[r].pc = "mapping" /\ req' = [req EXCEPT ![r] = x]
      /\ db' = new /\ survivors' = {new}
      /\ lock' = [lock EXCEPT ![a] = NoToken] /\ handed' = handed \cup {r}
  BY DEF PutMapping, Goto, WriteSynced
<1>2. UNCHANGED <<now, up, stops, accounts, ips, grants>>
  BY DEF PutMapping, limiterVars
<1>3. a \in Accounts
  BY <1>0, <1>1 DEF RequestPart, Rotating
<1>4. /\ new \in KeyStores /\ new.record = db.record
      /\ \A b \in Accounts : new.map[b] = IF b = a THEN r ELSE db.map[b]
  BY <1>0, <1>3, MemberTypes, WriteMapping
<1>5. x \in MemberCall /\ x.pc = "issued" /\ x.account = a
  BY <1>0, CallForms DEF MemberStates
<1> HIDE DEF x, new
<1>6. /\ \A q \in Requests : req'[q] = IF q = r THEN x ELSE req[q]
      /\ \A b \in Accounts : lock'[b] = IF b = a THEN NoToken ELSE lock[b]
  BY <1>0, <1>1, <1>3, MemberTypes
<1>7. Requests' = Requests /\ NoToken' = NoToken
  BY DEF Requests, NoToken
<1>8. MemberTypeOK'
  <2>1. /\ req' \in [Requests -> MemberCall]
        /\ lock' \in [Accounts -> Requests \cup {NoToken}]
        /\ handed' \subseteq Requests
        /\ survivors' \subseteq KeyStores /\ db' \in survivors'
    BY <1>0, <1>1, <1>4, <1>5, CallForms DEF MemberTypeOK
  <2>2. QED
    BY <1>0, <1>2, <2>1, CallTypes
<1>9. /\ GrantPart' /\ AccountPart' /\ IpPart'
      /\ AccountLimitsHold' /\ IpLimitHolds'
  BY <1>2, <1>5, <1>6, QuietLimiter
<1>10. \A k \in handed : k \in Requests /\ k # r /\ req'[k] = req[k]
  BY <1>0, <1>1, <1>6 DEF RequestPart, MemberTypeOK
<1>11. RequestPart'
  BY <1>0, <1>1, <1>3, <1>5, <1>6, <1>7, <1>10 DEF RequestPart, Rotating
<1>12. \A q \in Requests : q # r /\ req[q].pc \in Rotating => req[q].account # a
  BY <1>0, <1>1, <1>3 DEF LockIsOwned, Rotating
<1>13. MappingPart'
  <2>1. \A s \in survivors' : s.map = db'.map
    BY <1>1
  <2>2. ASSUME NEW b \in Accounts, db'.map[b] # NoToken
        PROVE  db'.map[b] \in handed' /\ req'[db'.map[b]].account = b
    <3>1. CASE b = a
      BY <1>1, <1>4, <1>5, <1>6, <3>1
    <3>2. CASE b # a
      BY <1>0, <1>1, <1>4, <1>10, <2>2, <3>2 DEF MappingPart
    <3>3. QED
      BY <3>1, <3>2
  <2>3. ASSUME NEW q \in Requests, req'[q].pc \in Rotating
        PROVE  /\ req'[q].previous = db'.map[req'[q].account]
               /\ req'[q].pc = "mapping" /\ req'[q].previous # NoToken =>
                    db'.record[req'[q].previous] # "live"
    <3>1. q # r /\ req'[q] = req[q]
      BY <1>5, <1>6, <2>3 DEF Rotating
    <3>2. req[q].account \in Accounts /\ req[q].account # a
      BY <1>0, <1>12, <2>3, <3>1 DEF RequestPart
    <3>3. QED
      BY <1>0, <1>1, <1>4, <2>3, <3>1, <3>2 DEF MappingPart
  <2>4. QED
    BY <1>7, <2>1, <2>2, <2>3 DEF MappingPart, Rotating
<1>14. LockIsOwned'
  BY <1>0, <1>1, <1>3, <1>5, <1>6, <1>7, MemberTypes DEF LockIsOwned
<1>15. NoStrandedKey'
  <2>1. ASSUME NEW k \in handed, k # r, db.record[k] = "live"
        PROVE  req[k].account # a /\ db.map[req[k].account] = k
    <3>1. db.map[req[k].account] = k
      BY <1>0, <2>1 DEF NoStrandedKey, MemberTypeOK
    <3>2. req[r].previous = db.map[a]
      BY <1>0, <1>1 DEF MappingPart, Rotating
    <3>3. k # NoToken
      BY <1>0, <1>10, MemberTypes
    <3>4. QED
      BY <1>0, <1>1, <2>1, <3>1, <3>2, <3>3 DEF MappingPart
  <2>2. \A k \in handed' : db'.record[k] = "live" => db'.map[req'[k].account] = k
    <3> SUFFICES ASSUME NEW k \in handed', db'.record[k] = "live"
                 PROVE  db'.map[req'[k].account] = k
      OBVIOUS
    <3>1. CASE k = r
      BY <1>1, <1>3, <1>4, <1>5, <1>6, <3>1
    <3>2. CASE k # r
      <4>1. k \in handed /\ req'[k] = req[k] /\ req[k].account \in Accounts
        BY <1>0, <1>1, <1>10, <3>2 DEF RequestPart
      <4>2. QED
        BY <1>1, <1>4, <2>1, <3>2, <4>1
    <3>3. QED
      BY <3>1, <3>2
  <2>3. QED
    BY <1>1, <2>2 DEF NoStrandedKey
<1>16. QED
  BY <1>8, <1>9, <1>11, <1>13, <1>14, <1>15 DEF MemberInv, LimiterInv

\* A failing db call ends the request and gives its lock back.
LEMMA StoreErrorStep ==
  ASSUME MemberConstantsOK, MemberInv, NEW r \in Requests, StoreError(r)
  PROVE  MemberInv'
<1> DEFINE a == req[r].account
           x == Ended(r, "refused")
<1>0. /\ MemberTypeOK /\ RequestPart /\ MappingPart /\ LockIsOwned
      /\ NoStrandedKey
  BY DEF MemberInv, LimiterInv
<1>1. /\ req[r].pc \in Rotating /\ req' = [req EXCEPT ![r] = x]
      /\ lock' = [lock EXCEPT ![a] = NoToken]
  BY DEF StoreError, Goto, Rotating
<1>2. UNCHANGED <<db, survivors, now, up, stops, accounts, ips, handed, grants>>
  BY DEF StoreError, storeVars, limiterVars
<1>3. a \in Accounts
  BY <1>0, <1>1 DEF RequestPart
<1>4. x \in MemberCall /\ x.pc = "refused"
  BY <1>0, CallForms DEF MemberStates
<1> HIDE DEF x
<1>5. /\ \A q \in Requests : req'[q] = IF q = r THEN x ELSE req[q]
      /\ \A b \in Accounts : lock'[b] = IF b = a THEN NoToken ELSE lock[b]
  BY <1>0, <1>1, <1>3, MemberTypes
<1>6. Requests' = Requests /\ NoToken' = NoToken
  BY DEF Requests, NoToken
<1>7. MemberTypeOK'
  <2>1. /\ req' \in [Requests -> MemberCall]
        /\ lock' \in [Accounts -> Requests \cup {NoToken}]
        /\ handed \subseteq Requests
        /\ survivors \subseteq KeyStores /\ db \in survivors
    BY <1>0, <1>1, <1>4, CallForms DEF MemberTypeOK
  <2>2. QED
    BY <1>0, <1>2, <2>1, CallTypes
<1>8. /\ GrantPart' /\ AccountPart' /\ IpPart'
      /\ AccountLimitsHold' /\ IpLimitHolds'
  BY <1>2, <1>4, <1>5, QuietLimiter
<1>9. \A k \in handed : k \in Requests /\ k # r /\ req'[k] = req[k]
  BY <1>0, <1>1, <1>5 DEF RequestPart, MemberTypeOK, Rotating
<1>10. RequestPart'
  BY <1>0, <1>2, <1>4, <1>5, <1>6, <1>9 DEF RequestPart, Rotating
<1>11. MappingPart'
  BY <1>0, <1>2, <1>4, <1>5, <1>6, <1>9 DEF MappingPart, Rotating
<1>12. LockIsOwned'
  BY <1>0, <1>1, <1>3, <1>4, <1>5, <1>6, MemberTypes DEF LockIsOwned, Rotating
<1>13. NoStrandedKey'
  BY <1>0, <1>2, <1>9 DEF NoStrandedKey
<1>14. QED
  BY <1>7, <1>8, <1>10, <1>11, <1>12, <1>13 DEF MemberInv, LimiterInv

\* Time passes: no window becomes younger.
LEMMA ClockStep ==
  ASSUME MemberConstantsOK, MemberInv, Tick
  PROVE  MemberInv'
<1>0. /\ MemberTypeOK /\ RequestPart /\ MappingPart /\ LockIsOwned
      /\ NoStrandedKey /\ GrantPart /\ AccountPart /\ IpPart
      /\ AccountLimitsHold /\ IpLimitHolds
  BY DEF MemberInv, LimiterInv
<1>1. /\ now' = now + 1 /\ now \in Nat /\ now < LastSecond /\ LastSecond \in Nat
      /\ UNCHANGED <<db, survivors, up, stops, accounts, ips, req, lock, handed, grants>>
  BY <1>0, MemberTypes DEF Tick, storeVars, limiterVars, MemberConstantsOK
<1>2. /\ DayAt(now) \in Nat /\ DayAt(now') \in Nat /\ DayAt(now) <= DayAt(now')
      /\ HourAt(now) \in Nat /\ HourAt(now') \in Nat
      /\ HourAt(now) <= HourAt(now')
  BY <1>1, CalendarMonotone
<1>3. MemberTypeOK'
  <2>1. \A a \in DOMAIN accounts :
          accounts[a] \in [last : 0..now', day : 0..DayAt(now'), count : 1..DailyMax]
    <3> SUFFICES ASSUME NEW a \in DOMAIN accounts
                 PROVE  accounts[a] \in [last : 0..now', day : 0..DayAt(now'), count : 1..DailyMax]
      OBVIOUS
    <3>1. accounts[a] \in [last : 0..now, day : 0..DayAt(now), count : 1..DailyMax]
      BY <1>0 DEF MemberTypeOK
    <3>2. 0..now \subseteq 0..now' /\ 0..DayAt(now) \subseteq 0..DayAt(now')
      BY <1>1, <1>2
    <3>3. QED
      BY <3>1, <3>2
  <2>2. \A i \in DOMAIN ips : ips[i] \in [hour : 0..HourAt(now'), count : 1..HourlyMax]
    <3> SUFFICES ASSUME NEW i \in DOMAIN ips
                 PROVE  ips[i] \in [hour : 0..HourAt(now'), count : 1..HourlyMax]
      OBVIOUS
    <3>1. ips[i] \in [hour : 0..HourAt(now), count : 1..HourlyMax]
      BY <1>0 DEF MemberTypeOK
    <3>2. 0..HourAt(now) \subseteq 0..HourAt(now')
      BY <1>2
    <3>3. QED
      BY <3>1, <3>2
  <2>3. now' \in 0..LastSecond
    BY <1>1
  <2>4. QED
    BY <1>0, <1>1, <2>1, <2>2, <2>3
    DEF MemberTypeOK, Requests, NoToken, KeyStores, NoAccount
<1>4. RequestPart' /\ MappingPart' /\ LockIsOwned' /\ NoStrandedKey'
  BY <1>0, <1>1 DEF RequestPart, MappingPart, LockIsOwned, NoStrandedKey,
                    Requests, NoToken
<1>5. AccountLimitsHold' /\ IpLimitHolds'
  BY <1>0, <1>1 DEF AccountLimitsHold, IpLimitHolds
<1>6. \A g \in grants : /\ g \in [request : Requests, account : Accounts, ip : Ips, at : 0..now]
                        /\ g.at \in Nat
                        /\ DayAt(g.at) \in Nat /\ HourAt(g.at) \in Nat
  <2> SUFFICES ASSUME NEW g \in grants
               PROVE  /\ g \in [request : Requests, account : Accounts, ip : Ips, at : 0..now]
                      /\ g.at \in Nat
                      /\ DayAt(g.at) \in Nat /\ HourAt(g.at) \in Nat
    OBVIOUS
  <2>1. g \in [request : Requests, account : Accounts, ip : Ips, at : 0..now]
    BY <1>0 DEF GrantPart
  <2>2. g.at \in Nat
    BY <1>1, <2>1
  <2>3. QED
    BY <2>1, <2>2, CalendarMonotone
<1>7. GrantPart'
  <2>1. 0..now \subseteq 0..now'
    BY <1>1
  <2>2. \A g \in grants : g \in [request : Requests, account : Accounts, ip : Ips, at : 0..now']
    BY <1>6, <2>1
  <2>3. QED
    BY <1>0, <1>1, <2>2 DEF GrantPart, Requests
<1>8. AccountPart'
  <2>1. \A g \in grants : g.account \notin DOMAIN accounts =>
          DayAt(g.at) < DayAt(now') /\ now' - g.at >= MinInterval
    <3>1. MinInterval \in Nat
      BY DEF MemberConstantsOK
    <3>2. QED
      BY <1>0, <1>1, <1>2, <1>6, <3>1 DEF AccountPart
  <2>2. QED
    BY <1>0, <1>1, <2>1 DEF AccountPart
<1>9. IpPart'
  <2>1. \A g \in grants : g.ip \notin DOMAIN ips => HourAt(g.at) < HourAt(now')
    BY <1>0, <1>2, <1>6 DEF IpPart
  <2>2. QED
    BY <1>0, <1>1, <2>1 DEF IpPart
<1>10. QED
  BY <1>3, <1>4, <1>5, <1>7, <1>8, <1>9 DEF MemberInv, LimiterInv

\* The gateway ends, and the db keeps its content or falls back to an
\* older one: nobody rotates a key, and no survivor is new.
LEMMA StopStep ==
  ASSUME MemberConstantsOK, MemberInv, Kill \/ PowerLoss
  PROVE  MemberInv'
<1>0. /\ MemberTypeOK /\ RequestPart /\ MappingPart /\ NoStrandedKey
  BY DEF MemberInv, LimiterInv
<1>1. /\ stops < MaxStops /\ up' = FALSE /\ stops' = stops + 1
      /\ accounts' = <<>> /\ ips' = <<>> /\ grants' = {}
      /\ lock' = [a \in Accounts |-> NoToken]
      /\ req' = [r \in Requests |->
                   IF Over(r) \/ req[r].pc = "new" THEN req[r] ELSE Ended(r, "gone")]
      /\ UNCHANGED <<now, handed>>
  BY DEF Kill, PowerLoss, Stop
<1>2. db' \in survivors' /\ survivors' \subseteq survivors /\ db' \in survivors
  BY <1>0 DEF Kill, PowerLoss, LosePower, storeVars, MemberTypeOK
<1>3. /\ \A r \in Requests :
           /\ req'[r] \in MemberCall /\ req'[r].pc \in {"issued", "refused", "gone", "new"}
           /\ req[r].pc = "issued" => req'[r] = req[r]
      /\ req' \in [Requests -> MemberCall]
  <2>1. \A r \in Requests :
          /\ req[r] \in MemberCall
          /\ Ended(r, "gone") \in MemberCall /\ Ended(r, "gone").pc = "gone"
    BY <1>0, CallForms DEF MemberStates
  <2>2. QED
    BY <1>1, <2>1 DEF Over
<1>4. DOMAIN accounts' = {} /\ DOMAIN ips' = {}
  BY <1>1
<1>5. Requests' = Requests /\ NoToken' = NoToken
  BY DEF Requests, NoToken
<1>6. db'.map = db.map /\ \A s \in survivors' : s.map = db'.map
  BY <1>0, <1>2 DEF MappingPart
<1>7. \A k \in handed : k \in Requests /\ req'[k] = req[k]
  BY <1>0, <1>3 DEF RequestPart, MemberTypeOK
<1>8. MemberTypeOK'
  <2>1. stops' \in 0..MaxStops
    BY <1>0, <1>1 DEF MemberTypeOK, MemberConstantsOK
  <2>2. lock' \in [Accounts -> Requests \cup {NoToken}]
    BY <1>1
  <2>3. survivors' \subseteq KeyStores
    BY <1>0, <1>2 DEF MemberTypeOK
  <2>4. QED
    BY <1>0, <1>1, <1>2, <1>3, <1>4, <2>1, <2>2, <2>3
    DEF MemberTypeOK, MemberCall, MemberStates, Rotating, Requests, NoToken,
        KeyStores, NoAccount
<1>9. RequestPart'
  BY <1>0, <1>1, <1>3, <1>5, <1>7 DEF RequestPart, Rotating
<1>10. MappingPart'
  <2>1. \A a \in Accounts : db'.map[a] # NoToken =>
          db'.map[a] \in handed' /\ req'[db'.map[a]].account = a
    <3>1. handed' = handed
      BY <1>1
    <3>2. \A a \in Accounts : db.map[a] # NoToken =>
            db.map[a] \in handed /\ req[db.map[a]].account = a
      BY <1>0 DEF MappingPart
    <3>3. QED
      BY <1>6, <1>7, <3>1, <3>2
  <2>2. \A r \in Requests : req'[r].pc \notin Rotating
    BY <1>3 DEF Rotating
  <2>3. QED
    BY <1>5, <1>6, <2>1, <2>2 DEF MappingPart, Rotating
<1>11. LockIsOwned'
  BY <1>1, <1>3, <1>5, MemberTypes, <1>0 DEF LockIsOwned
<1>12. NoStrandedKey'
  BY <1>0, <1>1, <1>2, <1>7 DEF NoStrandedKey
<1>13. AccountLimitsHold' /\ IpLimitHolds' /\ GrantPart' /\ AccountPart' /\ IpPart'
  BY <1>1, <1>4, FS_EmptySet
  DEF AccountLimitsHold, IpLimitHolds, GrantPart, AccountPart, IpPart
<1>14. QED
  BY <1>8, <1>9, <1>10, <1>11, <1>12, <1>13 DEF MemberInv, LimiterInv

\* The operator retires a key: nothing comes to life.
LEMMA AdminRevokeStep ==
  ASSUME MemberConstantsOK, MemberInv, NEW k \in Requests, AdminRevoke(k)
  PROVE  MemberInv'
<1> DEFINE new == [db EXCEPT !.record[k] = "revoked"]
<1>0. /\ MemberTypeOK /\ RequestPart /\ MappingPart /\ LockIsOwned
      /\ NoStrandedKey
  BY DEF MemberInv, LimiterInv
<1>1. /\ db' = new /\ survivors' = survivors \cup {new}
      /\ UNCHANGED <<now, up, stops, accounts, ips, req, lock, handed, grants>>
  BY DEF AdminRevoke, WriteUnsynced, limiterVars
<1>2. /\ new \in KeyStores /\ new.map = db.map
      /\ \A j \in Requests : new.record[j] = IF j = k THEN "revoked" ELSE db.record[j]
  BY <1>0, MemberTypes, WriteRecord
<1> HIDE DEF new
<1>3. Requests' = Requests /\ NoToken' = NoToken
  BY DEF Requests, NoToken
<1>4. MemberTypeOK'
  <2>1. /\ req \in [Requests -> MemberCall]
        /\ lock \in [Accounts -> Requests \cup {NoToken}]
        /\ handed \subseteq Requests
        /\ survivors' \subseteq KeyStores /\ db' \in survivors'
    BY <1>0, <1>1, <1>2, CallForms DEF MemberTypeOK
  <2>2. QED
    BY <1>0, <1>1, <2>1, CallTypes
<1>5. /\ GrantPart' /\ AccountPart' /\ IpPart'
      /\ AccountLimitsHold' /\ IpLimitHolds'
  BY <1>1, QuietLimiter
<1>6. RequestPart' /\ LockIsOwned'
  BY <1>0, <1>1, <1>3 DEF RequestPart, LockIsOwned
<1>7. MappingPart'
  <2>1. \A s \in survivors' : s.map = db'.map
    BY <1>0, <1>1, <1>2 DEF MappingPart
  <2>2. \A j \in Requests : db'.record[j] = "live" => db.record[j] = "live"
    BY <1>1, <1>2
  <2>3. \A r \in Requests : req[r].previous \in Requests \cup {NoToken}
    BY <1>0, MemberTypes
  <2>4. QED
    BY <1>0, <1>1, <1>2, <1>3, <2>1, <2>2, <2>3 DEF MappingPart
<1>8. NoStrandedKey'
  BY <1>0, <1>1, <1>2 DEF NoStrandedKey, MemberTypeOK
<1>9. QED
  BY <1>4, <1>5, <1>6, <1>7, <1>8 DEF MemberInv, LimiterInv

\* A restart, or nothing.
LEMMA IdleStep ==
  ASSUME MemberConstantsOK, MemberInv, up' \in BOOLEAN,
         UNCHANGED <<db, survivors, now, stops, accounts, ips, req, lock, handed, grants>>
  PROVE  MemberInv'
<1>0. /\ MemberTypeOK /\ RequestPart /\ MappingPart /\ LockIsOwned
      /\ NoStrandedKey
  BY DEF MemberInv, LimiterInv
<1>1. MemberTypeOK'
  BY <1>0 DEF MemberTypeOK, Requests, NoToken, KeyStores, NoAccount,
              DayAt, HourAt
<1>2. RequestPart' /\ MappingPart' /\ LockIsOwned' /\ NoStrandedKey'
  BY <1>0 DEF RequestPart, MappingPart, LockIsOwned, NoStrandedKey,
              Requests, NoToken
<1>3. /\ GrantPart' /\ AccountPart' /\ IpPart'
      /\ AccountLimitsHold' /\ IpLimitHolds'
  BY QuietLimiter
<1>4. QED
  BY <1>1, <1>2, <1>3 DEF MemberInv, LimiterInv

\* Every step keeps the invariant.
LEMMA MemberInvNext ==
  ASSUME MemberConstantsOK PROVE MemberInv /\ [MemberNext]_memberVars => MemberInv'
<1> SUFFICES ASSUME MemberInv, [MemberNext]_memberVars PROVE MemberInv'
  OBVIOUS
<1>1. ASSUME NEW r \in Requests, Step(r) PROVE MemberInv'
  BY <1>1, VerifyStep, ReserveStep, ReadMappingStep, CreateKeyStep, RevokeOldStep,
     PutMappingStep, StoreErrorStep DEF Step
<1>2. CASE Restart
  BY <1>2, IdleStep DEF Restart, storeVars, limiterVars
<1>3. CASE UNCHANGED memberVars
  <2>1. up \in BOOLEAN
    BY DEF MemberInv, LimiterInv, MemberTypeOK
  <2>2. QED
    BY <1>3, <2>1, IdleStep DEF memberVars, storeVars, limiterVars
<1>4. QED
  BY <1>1, <1>2, <1>3, ReceiveStep, ClockStep, StopStep, AdminRevokeStep DEF MemberNext

\* What a step may do to a retired key.
LEMMA RetiredStep ==
  ASSUME MemberConstantsOK, MemberInv, [MemberNext]_memberVars, NEW k \in handed,
         db.record[k] # "live", db.map[req[k].account] # k
  PROVE  db'.record[k] # "live"
<1>0. MemberTypeOK /\ RequestPart /\ MappingPart /\ NoStrandedKey
  BY DEF MemberInv, LimiterInv
<1>1. k \in Requests /\ req[k].pc = "issued" /\ req[k].account \in Accounts
  BY <1>0 DEF RequestPart, MemberTypeOK
<1>2. CASE UNCHANGED db
  BY <1>2
<1>3. ASSUME NEW r \in Requests, CreateKey(r) PROVE db'.record[k] # "live"
  <2>1. r # k /\ db' = [db EXCEPT !.record[r] = "live"]
    BY <1>1, <1>3 DEF CreateKey, Goto, WriteUnsynced
  <2>2. \A j \in Requests :
          [db EXCEPT !.record[r] = "live"].record[j] = IF j = r THEN "live" ELSE db.record[j]
    BY <1>0, MemberTypes, WriteRecord
  <2>3. QED
    BY <1>1, <2>1, <2>2
<1>4. ASSUME NEW j \in Requests, db' = [db EXCEPT !.record[j] = "revoked"]
      PROVE  db'.record[k] # "live"
  <2>1. \A i \in Requests :
          [db EXCEPT !.record[j] = "revoked"].record[i] =
            IF i = j THEN "revoked" ELSE db.record[i]
    BY <1>0, MemberTypes, WriteRecord
  <2>2. QED
    BY <1>1, <1>4, <2>1
<1>5. ASSUME NEW r \in Requests, RevokeOld(r) PROVE db'.record[k] # "live"
  <2>1. req[r].previous \in Requests \cup {NoToken}
    BY <1>0, MemberTypes
  <2>2. \/ UNCHANGED db
        \/ /\ req[r].previous # NoToken
           /\ db' = [db EXCEPT !.record[req[r].previous] = "revoked"]
    BY <1>5 DEF RevokeOld, WriteUnsynced, storeVars
  <2>3. QED
    BY <1>2, <1>4, <2>1, <2>2
<1>6. ASSUME NEW r \in Requests, PutMapping(r) PROVE db'.record[k] # "live"
  <2>1. req[r].account \in Accounts
    BY <1>0, <1>6 DEF RequestPart, Rotating, PutMapping, Goto
  <2>2. db' = [db EXCEPT !.map[req[r].account] = r]
    BY <1>6 DEF PutMapping, WriteSynced
  <2>3. [db EXCEPT !.map[req[r].account] = r].record = db.record
    BY <1>0, <2>1, MemberTypes, WriteMapping
  <2>4. QED
    BY <2>2, <2>3
<1>7. CASE PowerLoss
  <2>1. PICK s \in survivors : db' = s
    BY <1>7 DEF PowerLoss, LosePower
  <2>2. s.map = db.map
    BY <1>0 DEF MappingPart
  <2>3. QED
    BY <1>0, <2>1, <2>2 DEF NoStrandedKey
<1>8. ASSUME NEW j \in Requests, AdminRevoke(j) PROVE db'.record[k] # "live"
  BY <1>4, <1>8 DEF AdminRevoke, WriteUnsynced
<1>9. ASSUME NEW r \in Requests, Step(r) PROVE db'.record[k] # "live"
  <2>1. CASE Verify(r) \/ Reserve(r) \/ ReadMapping(r) \/ StoreError(r)
    BY <1>2, <2>1 DEF Verify, Reserve, ReadMapping, StoreError,
                      storeVars
  <2>2. QED
    BY <1>3, <1>5, <1>6, <1>9, <2>1 DEF Step
<1>10. ASSUME NEW r \in Requests, NEW ip \in Ips, Receive(r, ip)
       PROVE  db'.record[k] # "live"
  BY <1>2, <1>10 DEF Receive, storeVars
<1>11. CASE Tick \/ Kill \/ Restart \/ UNCHANGED memberVars
  BY <1>2, <1>11 DEF Tick, Kill, Restart, memberVars, storeVars
<1>12. QED
  BY <1>7, <1>8, <1>9, <1>10, <1>11 DEF MemberNext

\* The inductive invariant holds in every state.
LEMMA MemberAlways == MemberSpec => []MemberInv
<1> USE MemberAssumption
<1>1. MemberInit => MemberInv
  BY MemberInvInit
<1>2. MemberInv /\ [MemberNext]_memberVars => MemberInv'
  BY MemberInvNext
<1>3. QED
  BY <1>1, <1>2, PTL DEF MemberSpec

\* LimiterInv holds in every state: whatever requests wait for the identity
\* provider, however windows are pruned and the clock moves over hours and
\* days, reserve lets no account and no address pass more often than their
\* limits, and the lock of an account belongs to the one call that rotates
\* its key.
THEOREM IssuanceIsLimited == MemberSpec => []LimiterInv
<1>1. MemberInv => LimiterInv
  BY DEF MemberInv
<1>2. QED
  BY <1>1, MemberAlways, PTL

\* NoStrandedKey holds in every state: wherever rotate_member_key is
\* interrupted, in every content that a power loss may leave, a token that
\* went out and works is the one its account is mapped to.
THEOREM NoKeyStranded == MemberSpec => []NoStrandedKey
<1>1. MemberInv => NoStrandedKey
  BY DEF MemberInv
<1>2. QED
  BY <1>1, MemberAlways, PTL

\* RetiredForGood: no step of rotate_member_key, no stop and no power loss
\* brings a replaced key back to life.
THEOREM RetirementIsFinal == MemberSpec => RetiredForGood
<1>1. MemberInv /\ [MemberNext]_memberVars =>
        [\A k \in handed :
           db.record[k] # "live" /\ db.map[req[k].account] # k =>
             db'.record[k] # "live"]_memberVars
  BY RetiredStep, MemberAssumption
<1>2. QED
  BY <1>1, MemberAlways, PTL DEF MemberSpec, RetiredForGood
=============================================================================
