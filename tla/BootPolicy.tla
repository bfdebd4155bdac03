----------------------------- MODULE BootPolicy -----------------------------
(***************************************************************************)
(* What a gateway serves, from how it was started: main.rs reads the       *)
(* environment, lib.rs builds the router.  An environment is a record of   *)
(* what the variables are set to; a boot returns what is served, or        *)
(* NotServing.  The operator's wallet is built the same way (signer.rs).   *)
(***************************************************************************)
EXTENDS Integers, Sequences, FiniteSets

CONSTANTS
  Default,    \* Default[f]: the default of a numeric setting
  RpsMax      \* u32::MAX, the width of quota_rps

NumericSettings == {"max_tokens", "max_per_key", "max_upstream",
                    "rps", "daily", "concurrent", "pool"}
MemberSettings == {"rps", "daily", "concurrent", "pool"}

BootOK ==
  /\ Default \in [NumericSettings \cup {"epoch"} -> Nat \ {0}]
  /\ RpsMax \in Nat /\ Default["rps"] <= RpsMax

ASSUME BootAssumption == BootOK

\* The texts a variable can be set to, as far as the code tells them apart.
Unset == "unset"
NotSet == -2      \* for a number
NotParsed == -1   \* a text that is no number, and what becomes of it

Serving(routes, store, bind, limits) ==
  [up |-> TRUE, routes |-> routes, store |-> store, bind |-> bind, limits |-> limits]
NotServing == [up |-> FALSE]

\* A route and what stands before it.
Route(path, guard) == [path |-> path, guard |-> guard]
FreeRoutes == {Route(p, "none") : p \in {"health", "models", "metrics"}}
WorkRoutes(guard) == {Route(p, guard) : p \in {"chat", "batch"}}
BatchReads == {Route("batch_id", "none")}

-----------------------------------------------------------------------------
(* lib.rs.                                                                 *)

ResolveMarketplaceStore(keystore, dev) ==
  IF keystore \notin {Unset, ""} THEN "durable"
  ELSE IF dev = "1" THEN "volatile" ELSE "refused"

\* Mutant: any text turns the dev profile on.
ResolveOpenChatLax(open, dev) == open = "1" /\ dev # Unset

\* Open chat without the dev profile is refused: the routes are left out.
ResolveOpenChat(open, dev) == open = "1" /\ dev = "1"

OpenChatBindAllowed(bind) == bind = "loopback"

\* open_marketplace_store: a durable store that does not open is not replaced
\* by one in memory.
OpenMarketplaceStore(env) ==
  LET store == ResolveMarketplaceStore(env.keystore, env.dev) IN
  IF store = "durable" /\ ~env.storeOpens THEN "refused" ELSE store

\* run_marketplace and build_router.  The address has to be free.
RunMarketplace(env) ==
  LET store == OpenMarketplaceStore(env)
      open == ResolveOpenChat(env.open, env.dev)
      bind == IF env.bind = Unset THEN "loopback" ELSE env.bind
  IN IF \/ store = "refused"
        \/ bind = "taken"
        \/ open /\ ~OpenChatBindAllowed(bind)
     THEN NotServing
     ELSE Serving(FreeRoutes \cup (IF open THEN WorkRoutes("none") \cup BatchReads ELSE {}),
                  store, bind, Default)

\* validate_money_address
MoneyAddressOk(text) == text \notin {"", "garbage", "short", "zero", "placeholder"}

\* build_router_with and build_router_with_auth; the operator's program binds.
BuildRouterWith(env) ==
  IF ~MoneyAddressOk(env.wsalt) \/ ~MoneyAddressOk(env.treasury) THEN NotServing
  ELSE Serving(FreeRoutes \cup {Route("usage", "bearer")} \cup BatchReads
                 \cup WorkRoutes(IF env.keys THEN "key or x402" ELSE "x402"),
               IF env.keys THEN "given" ELSE "volatile", env.bind, Default)

-----------------------------------------------------------------------------
(* main.rs, the local proxy.                                               *)

\* env_number and env_number_or_zero
EnvNumber(raw, default, least) ==
  IF raw = NotSet THEN default ELSE IF raw >= least THEN raw ELSE NotParsed

\* u32::try_from(quota_rps)
MemberRps(rps) == IF rps > RpsMax THEN NotParsed ELSE rps

\* env_flag: "on" and "off" stand for their spellings.
EnvFlag(raw) == CASE raw \in {Unset, "off"} -> "off" [] raw = "on" -> "on" [] OTHER -> "refused"

\* member_key_config_from_env: only the pool may be zero.
Limits(env) ==
  [f \in NumericSettings |->
     LET n == EnvNumber(env.numbers[f], Default[f], IF f = "pool" THEN 0 ELSE 1)
     IN IF f = "rps" THEN MemberRps(n) ELSE n]

\* The settings of member keys are read only if they are switched on.
SettingsRead(env) ==
  IF EnvFlag(env.member) = "on" THEN NumericSettings ELSE NumericSettings \ MemberSettings

RunLocalProxy(env) ==
  IF \/ env.upstreams = "empty"
     \/ ~env.storeOpens
     \/ env.bind = "taken"
     \/ EnvFlag(env.member) = "refused"
     \/ EnvFlag(env.member) = "on" /\ EnvFlag(env.xff) = "refused"
     \/ \E f \in SettingsRead(env) : Limits(env)[f] = NotParsed
  THEN NotServing
  ELSE Serving({Route("health", "none"), Route("work", "key")}
                 \cup (IF EnvFlag(env.member) = "on" THEN {Route("member_key", "idp")} ELSE {}),
               "durable", IF env.bind = Unset THEN "loopback" ELSE env.bind, Limits(env))

\* main
Boot(env) ==
  CASE env.mode \in {Unset, "", "marketplace"} -> RunMarketplace(env)
    [] env.mode = "local-proxy" -> RunLocalProxy(env)
    [] env.mode = "library" -> BuildRouterWith(env)
    [] OTHER -> NotServing

-----------------------------------------------------------------------------
(* signer.rs: the operator's wallet, from the environment of who builds it.*)

Given(text) == text \notin {Unset, ""}

Wallet(custody, ceiling, epochBlocks) ==
  [up |-> TRUE, custody |-> custody, ceiling |-> ceiling, epochBlocks |-> epochBlocks]

\* A length that does not parse is the default; an epoch has a block at least.
EpochBlocks(raw) ==
  CASE raw \in {NotSet, NotParsed} -> Default["epoch"]
    [] raw = 0 -> 1
    [] OTHER -> raw

\* from_env: a KMS key goes before a key file, also in a build that has no
\* KMS; a key file needs the opt-in.  None configured: no wallet, no error.
WalletFromEnv(env) ==
  IF \/ ~Given(env.kms) /\ ~Given(env.keyFile)
     \/ env.pool # "address"
     \/ env.cap \in {NotSet, NotParsed}
  THEN NotServing
  ELSE IF Given(env.kms)
  THEN IF env.kmsBuild THEN Wallet("kms", env.cap, EpochBlocks(env.epoch)) ELSE NotServing
  ELSE IF env.allowLocal = "1" /\ env.password # Unset /\ env.keyOpens
  THEN Wallet("file", env.cap, EpochBlocks(env.epoch))
  ELSE NotServing

-----------------------------------------------------------------------------
(* Properties.                                                             *)

\* However a gateway is started, inference that nobody pays for and nobody
\* authenticates for is served to this machine only and by the dev profile
\* only, money is not paid to a placeholder, and what main.rs serves keeps
\* money in memory only under the dev profile.
BootFailsClosedFor(env) ==
  LET gateway == Boot(env) IN
  gateway.up =>
    /\ (\E r \in gateway.routes : r \in WorkRoutes("none"))
         => gateway.bind = "loopback" /\ env.dev = "1"
    /\ (\E r \in gateway.routes : r.guard \in {"x402", "key or x402"})
         => {env.wsalt, env.treasury} \cap {"zero", "placeholder"} = {}
    /\ env.mode # "library" /\ gateway.store = "volatile" => env.dev = "1"

\* A wallet signs with the key of the custody that was asked for: never with
\* a file where a KMS key is named or the opt-in is missing, and never
\* without the ceiling the operator set for an epoch of at least a block.
CustodyAsConfigured(env) ==
  LET wallet == WalletFromEnv(env) IN
  wallet.up =>
    /\ wallet.custody = "file" => ~Given(env.kms) /\ env.allowLocal = "1"
    /\ wallet.ceiling = env.cap /\ wallet.ceiling >= 0
    /\ wallet.epochBlocks >= 1

\* A local proxy that comes up enforces every limit that was configured, with
\* the configured value, and none of its limits is off by accident.
LimitsInForceFor(env) ==
  env.mode = "local-proxy" /\ Boot(env).up =>
    \A f \in SettingsRead(env) :
      /\ f # "pool" => Boot(env).limits[f] >= 1
      /\ env.numbers[f] # NotSet => Boot(env).limits[f] = env.numbers[f]
=============================================================================
