------------------------------- MODULE MCGates -------------------------------
(***************************************************************************)
(* The inputs of what decides who is let in: the settings a gateway or a   *)
(* wallet is started with, and the requests that read a batch.             *)
(***************************************************************************)
EXTENDS BootPolicy, BatchReads

CONSTANTS
  Settings,    \* what a number is set to
  MaxSlots     \* bound: slots of a batch that is read

VARIABLE input

\* Sequences of at most n elements of S.
UpTo(n, S) == UNION {[1..k -> S] : k \in 0..n}

SlotStates == {"pending", "dispatched", "done", "errored"}

\* The texts of a boot.  Of the numbers at most two are set.
NumberSettings ==
  {n \in [NumericSettings -> Settings \cup {NotSet}] :
     Cardinality({f \in NumericSettings : n[f] # NotSet}) <= 2}
Binds == {Unset, "loopback", "public", "taken"}
Texts == {"", "garbage", "short", "zero", "placeholder", "real"}
MarketplaceBoots ==
  [mode : {Unset, "", "marketplace", "other"}, keystore : {Unset, "", "path"},
   dev : {Unset, "0", "1", "true"}, open : {Unset, "0", "1", "true"}, bind : Binds,
   storeOpens : BOOLEAN]
ProxyBoots ==
  [mode : {"local-proxy"}, upstreams : {Unset, "empty", "some"}, storeOpens : BOOLEAN,
   bind : {Unset, "taken"}, member : {Unset, "off", "on", "maybe"}, xff : {"off", "on", "maybe"},
   numbers : NumberSettings]
LibraryBoots ==
  [mode : {"library"}, wsalt : Texts, treasury : Texts, keys : BOOLEAN, bind : Binds \ {"taken"}]

Wallets ==
  [kms : {Unset, "", "arn"}, keyFile : {Unset, "", "path"}, pool : {Unset, "garbage", "address"},
   cap : Settings \cup {NotSet}, epoch : Settings \cup {NotSet}, kmsBuild : BOOLEAN,
   allowLocal : {Unset, "1", "true"}, password : {Unset, "given"}, keyOpens : BOOLEAN]

BootInit ==
  \E e \in MarketplaceBoots \cup ProxyBoots \cup LibraryBoots : input = [kind |-> "boot", env |-> e]
ReadInit ==
  \E c \in Credentials, s \in UpTo(MaxSlots, SlotStates), o \in BOOLEAN,
     b, t \in Credentials \cup {None, Blanks} :
    input = [kind |-> "read", submitter |-> c, states |-> s, old |-> o,
             headers |-> [bearer |-> b, token |-> t]]
WalletInit == \E e \in Wallets : input = [kind |-> "wallet", env |-> e]

\* GatesFailClosed: no start-up serves unpaid work, pays a placeholder, keeps
\* money in memory or drops a limit (main.rs, lib.rs); no wallet signs with a
\* key of another custody than configured or without a spend cap (signer.rs);
\* and a batch shows itself to its submitter only, before and after a restart
\* (batch.rs).
GatesFailClosed ==
  /\ input.kind = "boot" => BootFailsClosedFor(input.env) /\ LimitsInForceFor(input.env)
  /\ input.kind = "wallet" => CustodyAsConfigured(input.env)
  /\ input.kind = "read" =>
       ReadsAreTheSubmitters(input.submitter, input.states, input.headers, input.old)
=============================================================================
