--------------------------- MODULE ModelCatalogue ---------------------------
(***************************************************************************)
(* queries.rs: how requests turn model names into on-chain hashes and how  *)
(* /v1/models lists them.  Two process-wide caches with the same time to   *)
(* live, one mutex that serialises their refreshes, and an enumeration of  *)
(* the registry that is one RPC for the hashes and one per hash, any of    *)
(* which may fail while models are registered and switched on and off.     *)
(* A request whose client hangs up is dropped wherever it stands.          *)
(***************************************************************************)
EXTENDS Naturals, Sequences, FiniteSets, SequencesExt

CONSTANTS
  Callers,     \* concurrent requests
  Names,       \* the model names requests carry
  Hashes,      \* model hashes the registry may hold
  NameOf,      \* the name a hash is registered under, "" for a deleted one
  Deleted,     \* the registry's first entries: deleted models
  Switched,    \* bound: the models whose status is updated
  Pinned,      \* hashes that requests name directly, registered or not
  Nothing,     \* no entry, no answer
  TTL,         \* MODEL_CACHE_TTL in ticks
  MaxFaults    \* bound: failed RPCs in a behaviour

\* The registry holds a hash once.  "list" stands for the request without a
\* name, and neither it nor Nothing looks like a 32-byte hash.
CatalogueConstantsOK ==
  /\ NameOf \in [Hashes -> Names \cup {""}]
  /\ Names \cap {"", "list"} = {}
  /\ Deleted \in Seq(Hashes) /\ IsInjective(Deleted)
  /\ \A i \in DOMAIN Deleted : NameOf[Deleted[i]] = ""
  /\ Pinned \cap {"list", Nothing} = {}
  /\ TTL \in Nat \ {0} /\ MaxFaults \in Nat

ASSUME CatalogueAssumption == CatalogueConstantsOK

VARIABLES
  registered,  \* the registry's hashes in the order of getAllModelHashes
  active,      \* the models that are switched on
  names,       \* MODEL_NAME_CACHE
  list,        \* MODEL_LIST_CACHE
  refreshing,  \* MODEL_CACHE_REFRESH_LOCK: its holder, then who waits, in order
  call,        \* call[c]: a request inside queries.rs
  faults       \* failed RPCs so far

catalogueVars == <<registered, active, names, list, refreshing, call, faults>>

\* A hash, "negative" for a name known not to exist, or no entry.
Entries == Hashes \cup {"negative", Nothing}
NoNames == [n \in Names |-> Nothing]

\* `read` and `failed` record the enumeration a cache was filled from: how
\* many hashes there were, and whose getModel failed.
Unfilled(content) == [age |-> TTL, content |-> content, read |-> 0, failed |-> {}]

Idle == [pc |-> "idle", want |-> "none", todo |-> <<>>, found |-> {}, read |-> 0,
         failed |-> {}, answer |-> Nothing]

-----------------------------------------------------------------------------
(* The caches.                                                             *)

Live(cache) == cache.age < TTL

\* cached_model_hash: hit, negative or miss.
CachedModelHash(n) == IF Live(names) THEN names.content[n] ELSE Nothing

\* What the caches answer to a request.
Cached(w) ==
  IF w = "list" THEN IF Live(list) THEN list.content ELSE Nothing
  ELSE CachedModelHash(w)

\* The last registration among the entries I of the registry reg.
Latest(reg, I) == reg[CHOOSE i \in I : \A j \in I : j <= i]

\* The hashes of the models an enumeration found.
HashesOf(found) == {m[1] : m \in found}

\* The map built from an enumeration: later registrations of a name replace
\* earlier ones; the name asked for is negative if nothing had it.
NameMap(found, w) ==
  [n \in Names |->
     LET I == {i \in DOMAIN registered : registered[i] \in found /\ NameOf[registered[i]] = n} IN
     IF I = {} THEN IF n = w THEN "negative" ELSE Nothing
     ELSE Latest(registered, I)]

\* models_handler: inactive models are left out, an error is an empty list.
Listing(answer) == IF answer = Nothing THEN {} ELSE HashesOf({m \in answer : m[2]})

-----------------------------------------------------------------------------
(* resolve_model_name and list_models.                                     *)

Finished(c, a) ==
  [call EXCEPT ![c] = [Idle EXCEPT !.pc = "done", !.want = call[c].want, !.answer = a]]

\* A pinned hash is taken as it is; a name or the list comes from the cache
\* or waits for the refresh lock.
Ask(c, w) ==
  /\ call[c].pc = "idle"
  /\ LET a == IF w \in Pinned THEN w ELSE Cached(w) IN
     IF a # Nothing
     THEN /\ call' = [call EXCEPT ![c] = [Idle EXCEPT !.pc = "done", !.want = w, !.answer = a]]
          /\ UNCHANGED refreshing
     ELSE /\ call' = [call EXCEPT ![c] = [Idle EXCEPT !.pc = "queued", !.want = w]]
          /\ refreshing' = Append(refreshing, c)
  /\ UNCHANGED <<registered, active, names, list, faults>>

\* Mutant: the cache is not looked at again under the lock.
RecheckedBlind(w) == Nothing

Rechecked(w) == Cached(w)

\* The lock is ours: somebody may have refreshed while we waited.
Recheck(c) ==
  /\ call[c].pc = "queued"
  /\ refreshing # <<>> /\ Head(refreshing) = c
  /\ IF Rechecked(call[c].want) # Nothing
     THEN /\ call' = Finished(c, Rechecked(call[c].want))
          /\ refreshing' = Tail(refreshing)
     ELSE /\ call' = [call EXCEPT ![c].pc = "hashes"]
          /\ UNCHANGED refreshing
  /\ UNCHANGED <<registered, active, names, list, faults>>

GetAllModelHashes(c) ==
  /\ call[c].pc = "hashes"
  /\ call' = [call EXCEPT ![c].pc = "models", ![c].todo = registered,
                          ![c].read = Len(registered)]
  /\ UNCHANGED <<registered, active, names, list, refreshing, faults>>

\* Without the hashes the request fails; nothing is cached.
GetAllModelHashesFails(c) ==
  /\ call[c].pc = "hashes"
  /\ faults < MaxFaults
  /\ faults' = faults + 1
  /\ call' = Finished(c, IF call[c].want = "list" THEN Nothing ELSE "negative")
  /\ refreshing' = Tail(refreshing)
  /\ UNCHANGED <<registered, active, names, list>>

\* One model; a nameless one is left out, a failing one is skipped.
GetModel(c) ==
  /\ call[c].pc = "models"
  /\ call[c].todo # <<>>
  /\ LET h == Head(call[c].todo) IN
     call' = [call EXCEPT ![c].todo = Tail(@),
                          ![c].found = @ \cup (IF NameOf[h] = "" THEN {} ELSE {<<h, h \in active>>})]
  /\ UNCHANGED <<registered, active, names, list, refreshing, faults>>

GetModelFails(c) ==
  /\ call[c].pc = "models"
  /\ call[c].todo # <<>>
  /\ faults < MaxFaults
  /\ faults' = faults + 1
  /\ call' = [call EXCEPT ![c].todo = Tail(@), ![c].failed = @ \cup {Head(call[c].todo)}]
  /\ UNCHANGED <<registered, active, names, list, refreshing>>

\* The whole cache is replaced, the lock released, the request answered.
RefreshModelCache(c) ==
  LET w == call[c].want
      Filled(content) == [age |-> 0, content |-> content, read |-> call[c].read,
                          failed |-> call[c].failed]
      map == NameMap(HashesOf(call[c].found), w)
  IN
  /\ call[c].pc = "models"
  /\ call[c].todo = <<>>
  /\ IF w = "list"
     THEN /\ list' = Filled(call[c].found)
          /\ call' = Finished(c, call[c].found)
          /\ UNCHANGED names
     ELSE /\ names' = Filled(map)
          /\ call' = Finished(c, map[w])
          /\ UNCHANGED list
  /\ refreshing' = Tail(refreshing)
  /\ UNCHANGED <<registered, active, faults>>

\* The response is out.
Return(c) ==
  /\ call[c].pc = "done"
  /\ call' = [call EXCEPT ![c] = Idle]
  /\ UNCHANGED <<registered, active, names, list, refreshing, faults>>

\* Mutant: a dropped request keeps its place at the lock.
LeaveLockNever(c) == refreshing

\* Dropping the future drops its guard or its place among the waiters.
LeaveLock(c) == RemoveAt(refreshing, CHOOSE i \in DOMAIN refreshing : refreshing[i] = c)

HangUp(c) ==
  /\ call[c].pc \in {"queued", "hashes", "models"}
  /\ refreshing' = LeaveLock(c)
  /\ call' = [call EXCEPT ![c] = Idle]
  /\ UNCHANGED <<registered, active, names, list, faults>>

-----------------------------------------------------------------------------
(* The chain and the clock.                                                *)

Register(h) ==
  /\ h \notin Range(registered)
  /\ registered' = Append(registered, h)
  /\ active' = active \cup {h}
  /\ UNCHANGED <<names, list, refreshing, call, faults>>

UpdateModelStatus(h) ==
  /\ h \in Range(registered)
  /\ active' = IF h \in active THEN active \ {h} ELSE active \cup {h}
  /\ UNCHANGED <<registered, names, list, refreshing, call, faults>>

\* Mutant: entries do not expire.
NeverOlder(cache, content) == cache

\* An expired cache is as good as an unfilled one: nothing reads it.
Older(cache, content) ==
  IF cache.age + 1 < TTL THEN [cache EXCEPT !.age = @ + 1] ELSE Unfilled(content)

Tick ==
  /\ Live(names) \/ Live(list)
  /\ names' = Older(names, NoNames)
  /\ list' = Older(list, {})
  /\ UNCHANGED <<registered, active, refreshing, call, faults>>

CatalogueInit ==
  /\ registered = Deleted
  /\ active = {}
  /\ names = Unfilled(NoNames)
  /\ list = Unfilled({})
  /\ refreshing = <<>>
  /\ call = [c \in Callers |-> Idle]
  /\ faults = 0

Step(c) ==
  \/ Recheck(c) \/ GetAllModelHashes(c) \/ GetAllModelHashesFails(c)
  \/ GetModel(c) \/ GetModelFails(c) \/ RefreshModelCache(c)

CatalogueNext ==
  \/ \E c \in Callers :
       \/ \E w \in Names \cup Pinned \cup {"list"} : Ask(c, w)
       \/ Step(c) \/ Return(c) \/ HangUp(c)
  \/ \E h \in Hashes : Register(h)
  \/ \E h \in Switched : UpdateModelStatus(h)
  \/ Tick

\* A request that is not dropped goes on (every RPC has a timeout, the mutex
\* is first come, first served), and time passes.
CatalogueFairness ==
  /\ \A c \in Callers : WF_catalogueVars(Step(c)) /\ WF_catalogueVars(Return(c))
  /\ WF_catalogueVars(Tick)

CatalogueSpec == CatalogueInit /\ [][CatalogueNext]_catalogueVars /\ CatalogueFairness

-----------------------------------------------------------------------------
(* Properties.                                                             *)

Caches(contents) == [age : 0..TTL, content : contents, read : 0..Len(registered),
                     failed : SUBSET Hashes]

CatalogueTypeOK ==
  /\ registered \in Seq(Hashes) /\ IsInjective(registered)
  /\ active \subseteq Range(registered)
  /\ names \in Caches([Names -> Entries])
  /\ list \in Caches(SUBSET (Hashes \X BOOLEAN))
  /\ refreshing \in Seq(Callers) /\ IsInjective(refreshing)
  /\ faults \in 0..MaxFaults
  /\ \A c \in Callers :
       /\ call[c].pc \in {"idle", "queued", "hashes", "models", "done"}
       /\ call[c].want \in Names \cup Pinned \cup {"list", "none"}
       /\ Range(call[c].todo) \subseteq Range(registered)

\* EnumerationsAreNeeded: whoever enumerates the registry holds the refresh
\* lock, is alone, and what it asked for is not in the cache: callers that
\* waited for a refresh use its result (queries.rs: "observe the result
\* from that refresh").
EnumerationsAreNeeded ==
  \A c \in Callers :
    call[c].pc \in {"hashes", "models"} =>
      /\ refreshing # <<>> /\ Head(refreshing) = c
      /\ Cached(call[c].want) = Nothing

\* QueueIsManned: every place at the refresh lock belongs to a request that
\* is still there, so a client that hangs up in the middle of an enumeration
\* does not leave the lock behind.
QueueIsManned ==
  \A c \in Callers : c \in Range(refreshing) <=> call[c].pc \in {"queued", "hashes", "models"}

\* The entries named n among the first `read` of the registry, and the named
\* hashes there, but for those whose getModel failed.
Named(reg, cache, n) ==
  {i \in 1..cache.read : reg[i] \notin cache.failed /\ NameOf[reg[i]] = n}
Listable(reg, read, failed) ==
  {reg[i] : i \in {j \in 1..read : reg[j] \notin failed /\ NameOf[reg[j]] # ""}}

\* CachesMirrorRegistry: what a cache holds is what the registry held when
\* its enumeration read the hashes, but for the models whose RPC failed: a
\* name maps to the last registration of it, and no name is negative that
\* was readable then.
CachesMirrorRegistry ==
  /\ \A n \in Names : LET I == Named(registered, names, n) IN
       IF I = {} THEN names.content[n] \in {"negative", Nothing}
       ELSE names.content[n] = Latest(registered, I)
  /\ HashesOf(list.content) = Listable(registered, list.read, list.failed)

\* AnswersAreReal: a request is never answered with a hash that was not
\* registered under its name, unless it pinned the hash itself, and
\* /v1/models shows registered, named models only.
AnswersAreReal ==
  \A c \in Callers :
    call[c].pc = "done" =>
      CASE call[c].want = "list" -> \A h \in Listing(call[c].answer) :
                                       h \in Range(registered) /\ NameOf[h] # ""
        [] call[c].want \in Pinned -> call[c].answer = call[c].want
        [] OTHER -> \/ call[c].answer = "negative"
                    \/ /\ call[c].answer \in Range(registered)
                       /\ NameOf[call[c].answer] = call[c].want

\* CatalogueInv: the refresh lock, the caches it guards and the answers out
\* of them, with the types.
CatalogueInv ==
  /\ CatalogueTypeOK /\ EnumerationsAreNeeded /\ QueueIsManned
  /\ CachesMirrorRegistry /\ AnswersAreReal

\* NegativesExpire: once RPCs no longer fail, a registered name stops being
\* answered "unknown" and stays so, although an enumeration that began
\* before the registration may still store a negative entry (queries.rs: a
\* freshly registered model "surfaces within one human-noticeable retry").
NegativesExpire ==
  \A n \in {NameOf[h] : h \in Hashes} \ {""} :
    (\E h \in Range(registered) : NameOf[h] = n /\ faults = MaxFaults)
      ~> [](CachedModelHash(n) # "negative")

\* CallsEnd: a request that is not dropped is answered; nobody waits for the
\* refresh lock for ever.
CallsEnd == \A c \in Callers : call[c].pc # "idle" ~> call[c].pc = "idle"
=============================================================================
