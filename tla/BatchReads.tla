----------------------------- MODULE BatchReads -----------------------------
(***************************************************************************)
(* Who may read a batch, and what a reader sees (batch.rs).  A batch that  *)
(* a key submitted is read with that key, any other with the token of the  *)
(* submit response.  Credentials have to survive the durable form of the   *)
(* record, which leaves response bodies out and which an older gateway     *)
(* wrote without the token.                                                *)
(***************************************************************************)
EXTENDS Integers, Sequences, FiniteSets

CONSTANTS
  Bearers,     \* API keys
  Tokens402    \* read tokens, each issued once

Credentials == Bearers \cup Tokens402
None == "none"      \* no header, nobody, no body
Blanks == ""        \* a header with nothing in it

\* hash_key_id: two credentials have different hashes, and no hash is one.
HashKeyId(c) == <<"sha256", c>>

\* A key is not a token, neither is empty, and a hash is not "no hash".
ReadsOK ==
  /\ Bearers \cap Tokens402 = {} /\ Credentials \cap {None, Blanks} = {}
  /\ \A c \in Credentials : HashKeyId(c) # None

ASSUME ReadsAssumption == ReadsOK

Slot(state) == [state |-> state, response |-> IF state = "done" THEN "body" ELSE None]

\* The record submit_batch_handler makes for a key, or with a token for who
\* paid by x402; `states` are those its slots have reached since.
BatchRecordOf(submitter, states) ==
  [payer_api_key_id |-> IF submitter \in Bearers THEN submitter ELSE None,
   read_token_hash |-> IF submitter \in Tokens402 THEN HashKeyId(submitter) ELSE None,
   slots |-> [i \in DOMAIN states |-> Slot(states[i])]]

\* PersistedBatch::from_record and to_json; an older gateway knew no tokens.
FromRecord(record, old) ==
  [owner |-> record.payer_api_key_id,
   token |-> IF old THEN None ELSE record.read_token_hash,
   states |-> [i \in DOMAIN record.slots |-> record.slots[i].state]]

\* PersistedBatch::into_record: the bodies are gone.
IntoRecord(row) ==
  [payer_api_key_id |-> row.owner, read_token_hash |-> row.token,
   slots |-> [i \in DOMAIN row.states |-> [state |-> row.states[i], response |-> None]]]

\* The bearer token, or else the header of its own.
Presented(headers) ==
  IF headers.bearer \notin {None, Blanks} THEN headers.bearer
  ELSE IF headers.token \notin {None, Blanks} THEN headers.token
  ELSE None

BatchReadAuthorized(record, headers) ==
  /\ Presented(headers) # None
  /\ IF record.payer_api_key_id # None
     THEN HashKeyId(Presented(headers)) = HashKeyId(record.payer_api_key_id)
     ELSE HashKeyId(Presented(headers)) = record.read_token_hash

\* The answer to an unknown id as well.
NotFound == [found |-> FALSE]

BuildStatus(record) ==
  [found |-> TRUE, requests |-> Len(record.slots),
   completed |-> Cardinality({i \in DOMAIN record.slots : record.slots[i].state = "done"}),
   errored |-> Cardinality({i \in DOMAIN record.slots : record.slots[i].state = "errored"})]

GetBatch(record, headers) ==
  IF BatchReadAuthorized(record, headers) THEN BuildStatus(record) ELSE NotFound

GetBatchOutput(record, headers) ==
  IF BatchReadAuthorized(record, headers) THEN [found |-> TRUE, rows |-> record.slots]
  ELSE NotFound

-----------------------------------------------------------------------------
(* Properties.                                                             *)

\* Whoever sees anything of a batch presented the submitter's credential.
\* The submitter who presents it, and nothing else as bearer, sees the
\* batch, before and after a restart, with the same progress and without
\* bodies after it; only a batch without an owner that an older gateway
\* stored is closed to everybody.
ReadsAreTheSubmitters(submitter, states, headers, old) ==
  LET record == BatchRecordOf(submitter, states)
      restored == IntoRecord(FromRecord(record, old))
      Owns == \/ headers.bearer = submitter
              \/ headers.bearer \in {None, Blanks} /\ headers.token = submitter
      Orphaned == old /\ submitter \notin Bearers
  IN /\ GetBatch(record, headers).found <=> Owns
     /\ GetBatch(restored, headers).found <=> Owns /\ ~Orphaned
     /\ Owns /\ ~Orphaned =>
          /\ GetBatch(restored, headers) = GetBatch(record, headers)
          /\ \A i \in DOMAIN states :
               GetBatchOutput(restored, headers).rows[i] = [state |-> states[i], response |-> None]
     /\ GetBatchOutput(record, headers).found <=> GetBatch(record, headers).found
=============================================================================
