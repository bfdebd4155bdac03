--------------------------- MODULE ProviderChoice ---------------------------
(***************************************************************************)
(* Which provider a chat goes to (queries.rs list_providers, provider.rs,  *)
(* selection.rs, and the failover loop of chat.rs), and which addresses    *)
(* the gateway connects to for it.                                         *)
(***************************************************************************)
EXTENDS Integers, Sequences, FiniteSets

CONSTANTS
  MaxAttempts,     \* MAX_PROVIDER_ATTEMPTS
  ScoreDivisor     \* the 10_000 of select_provider, scaled

DispatchOK == MaxAttempts \in Nat /\ ScoreDivisor \in Nat \ {0}

ASSUME DispatchAssumption == DispatchOK

\* What getProviderInfo answers: address, reputation, load, how much the
\* provider takes at once and whether it is active.
Answers(addresses, bps, loads, max) ==
  [address : addresses, reputation : bps, load : loads, max : {max}, active : BOOLEAN]

Capacity(p) == IF p.max >= p.load THEN p.max - p.load ELSE 0

\* Lists of providers are kept as the positions that are left of the answers.

\* list_providers, when every call is answered: the inactive ones are left
\* out.
ListProviders(answers) == {i \in DOMAIN answers : answers[i].active}

-----------------------------------------------------------------------------
(* selection.rs.                                                           *)

ScoreProvider(p) == p.reputation * Capacity(p)

\* select_dispatch_target: a pool only if it scores strictly higher than
\* the best provider; `pools` is the set of the pools' scores.
PoolWins(answers, listed, pools) ==
  \E pool \in pools : \A i \in listed : pool > ScoreProvider(answers[i])

-----------------------------------------------------------------------------
(* provider.rs and chat.rs.                                                *)

\* select_provider's key, larger is better; max_by_key takes the last of
\* several.
Score(p) == (p.reputation * Capacity(p)) \div ScoreDivisor
Better(p, q) == Score(p) > Score(q) \/ (Score(p) = Score(q) /\ p.load < q.load)

Eligible(answers, left) == {i \in left : Capacity(answers[i]) > 0}

SelectProvider(answers, left) ==
  CHOOSE i \in Eligible(answers, left) :
    \A j \in Eligible(answers, left) :
      ~Better(answers[j], answers[i]) /\ (j > i => Better(answers[i], answers[j]))

\* Mutant: only the entry that failed is taken out.
RemainingOnce(answers, left, i) == left \ {i}

\* After a failure every entry with the address is taken out.
Remaining(answers, left, i) == {j \in left : answers[j].address # answers[i].address}

\* One turn of the failover loop: who is left, and who was tried so far.
Attempt(answers, t) ==
  LET best == SelectProvider(answers, t.left) IN
  IF Eligible(answers, t.left) = {} THEN t
  ELSE [left |-> Remaining(answers, t.left, best), done |-> Append(t.done, answers[best])]

\* The failover loop: the providers that are tried, in order, if all of them
\* fail.
Attempts(answers, listed) ==
  LET tried[k \in 0..MaxAttempts] ==
        IF k = 0 THEN [left |-> listed, done |-> <<>>] ELSE Attempt(answers, tried[k - 1])
  IN tried[MaxAttempts].done

\* run_dispatch: a pool that wins is not dispatched to yet, the request fails.
RunDispatch(answers, pools) ==
  LET listed == ListProviders(answers) IN
  IF PoolWins(answers, listed, pools) THEN <<>> ELSE Attempts(answers, listed)

\* result_acceptable, with verify_result_binding before it: what a provider
\* sends back carries a signature that verifies, one that does not, or none;
\* or there is no output ("empty", a failed call too).
Results == {"signed", "forged", "unsigned", "empty"}
ResultAcceptable(result, required) ==
  result = "signed" \/ (result = "unsigned" /\ ~required)

\* Who serves the request, as a sequence of at most one: the loop returns with
\* the first result it accepts.
ServedBy(answers, pools, results, required) ==
  LET tried == RunDispatch(answers, pools)
      Good == {k \in DOMAIN tried : ResultAcceptable(results[tried[k].address], required)}
  IN IF Good = {} THEN <<>> ELSE <<tried[CHOOSE k \in Good : \A j \in Good : k <= j].address>>

-----------------------------------------------------------------------------
(* validate_provider_endpoint: an endpoint is a scheme, whether it carries *)
(* credentials, and what its host resolves to.                             *)

IpKinds == {"public", "private", "loopback", "metadata", "reserved"}

ProviderIpAllowed(ip, allowPrivate) ==
  \/ ip = "public"
  \/ allowPrivate /\ ip \in {"private", "loopback"}

AddressesAllowed(addrs, allowPrivate) ==
  \A i \in DOMAIN addrs : ProviderIpAllowed(addrs[i], allowPrivate)

\* The connection is pinned to the first address.
EndpointAccepted(e, allowPrivate) ==
  /\ e.scheme = "https" \/ (e.scheme = "http" /\ allowPrivate)
  /\ ~e.credentials
  /\ e.addrs # <<>>
  /\ AddressesAllowed(e.addrs, allowPrivate)
Pinned(e) == e.addrs[1]

-----------------------------------------------------------------------------
(* Properties.                                                             *)

\* A dispatch that no pool outbids tries active providers with capacity only,
\* the best first, no address twice, and gives up only when it made its
\* attempts or has nobody left.
FailoverIsBestFirst(answers, pools) ==
  LET tried == RunDispatch(answers, pools)
      Able == {a \in {answers[i] : i \in DOMAIN answers} : a.active /\ Capacity(a) > 0}
      Outbid == \E pool \in pools : \A a \in Able : pool > ScoreProvider(a)
  IN /\ \A k \in DOMAIN tried : tried[k] \in Able
     /\ \A j, k \in DOMAIN tried : j < k => /\ tried[j].address # tried[k].address
                                            /\ ~Better(tried[k], tried[j])
     /\ \A a \in Able : \/ \E k \in DOMAIN tried : tried[k].address = a.address
                        \/ Len(tried) = MaxAttempts
                           /\ \A k \in DOMAIN tried : ~Better(a, tried[k])
                        \/ Outbid /\ tried = <<>>

\* Where no pool stands in the way, a request is served by a provider whose
\* result may be accepted, a signed one if that is required, and everybody
\* better had his chance; it fails only after as many bad results as it may
\* take, or if nobody has a good one.
BestGoodResultServes(answers, results, required) ==
  LET served == ServedBy(answers, {}, results, required)
      Able == {a \in {answers[i] : i \in DOMAIN answers} : a.active /\ Capacity(a) > 0}
      Bad == {a \in Able : ~ResultAcceptable(results[a.address], required)}
  IN IF served # <<>>
     THEN /\ results[served[1]] \in (IF required THEN {"signed"} ELSE {"signed", "unsigned"})
          /\ \E a \in Able : a.address = served[1] /\ \A other \in Able \ Bad : ~Better(other, a)
     ELSE Bad = Able \/ Cardinality({a.address : a \in Bad}) >= MaxAttempts

\* The gateway connects to an allowed address whatever the order in which
\* the name service returns them.
PinnedAddressAllowed(e, allowPrivate) ==
  EndpointAccepted(e, allowPrivate) =>
    /\ ProviderIpAllowed(Pinned(e), allowPrivate)
    /\ Pinned(e) \notin {"metadata", "reserved"}
=============================================================================
