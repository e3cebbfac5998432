---------------------------- MODULE AssetRegistry ----------------------------
(***************************************************************************)
(* How the factory keeps and finds assets (factory/main.go).  AllAssets    *)
(* maps ids to configurations that every caller shares.  Each lookup fills *)
(* in the configuration it is about to return, and what is filled in       *)
(* decides what later lookups by contract find.                            *)
(***************************************************************************)
EXTENDS FiniteSets, Integers

CONSTANTS
  Clients,     \* goroutines using one factory
  Natives,     \* configurations of chains, and
  Tokens,      \* of tokens: the objects that callers hand to the factory
  Given,       \* [asset, chain, contract, coin] as handed over, for each
  Configured,  \* the objects of the configuration file
  Contracts,   \* what an address may be looked up, and endpoints may name
  Normal,      \* NormalizeAddressString of each contract
  Callbacks,   \* which lookups have a callback, registered before they start
  Destinations,\* [contract, chain] of the activities clients enrich
  Stores,      \* stores that fill in a token, one after the other
  Blank,       \* the empty string
  NoConfig

Objects == Natives \cup Tokens
Chains == { Given[o].asset : o \in Natives }
ID(o) == <<Given[o].asset, IF o \in Natives THEN Given[o].asset ELSE Given[o].chain>>
IDs == { ID(o) : o \in Objects }
Find == [op : {"find"}, contract : Contracts \ {Blank}, chain : Chains]

ASSUME ObjectsAssumption ==
  /\ Stores \in Nat \ {0}
  /\ Natives \cap Tokens = {} /\ Configured \subseteq Objects
  /\ NoConfig \notin Objects
  /\ \A t \in Tokens : Given[t].chain # Given[t].asset
  /\ \A o, p \in Configured : ID(o) = ID(p) => o = p

VARIABLES
  assets,    \* AllAssets: id -> configuration
  chain,     \* the field Chain of a chain's own configuration
  inner,     \* tokens whose embedded AssetConfig has been filled in
  settings,  \* whose settings each token has: first the pointer
             \* NativeAssetConfig, then the fields that are copied, in order
  stage,     \* where each client's call is
  lookup,    \* the call
  at,        \* the configuration it found
  filled,    \* how many stores its call has done
  endpoint,  \* the destination that is enriched
  overtaken  \* history: the tokens whose chain has been put since its call
             \* began, or that another was filling in then with an older one

registryVars ==
  <<assets, chain, inner, settings, stage, lookup, at, filled, endpoint, overtaken>>
store == <<assets, chain, inner, settings>>

NoLookup == [op |-> "none"]
NoEndpoint == [contract |-> Blank, chain |-> Blank, config |-> NoConfig]

RegistryInit ==
  /\ assets = [i \in { ID(o) : o \in Configured } |->
                 CHOOSE o \in Configured : ID(o) = i]
  /\ chain = [o \in Natives |-> Blank]
  /\ inner = Tokens \cap Configured
  /\ settings = [o \in Tokens |-> [k \in 1..Stores |-> NoConfig]]
  /\ stage = [c \in Clients |-> "idle"]
  /\ lookup = [c \in Clients |-> NoLookup]
  /\ at = [c \in Clients |-> NoConfig]
  /\ filled = [c \in Clients |-> 0]
  /\ endpoint = NoEndpoint
  /\ overtaken = [c \in Clients |-> {}]

\* The function f with value v at x.
With(f, x, v) == [y \in DOMAIN f \cup {x} |-> IF y = x THEN v ELSE f[y]]

Proceed(c, label) == stage' = [stage EXCEPT ![c] = label]

ChainID(t) == <<Given[t].chain, Given[t].chain>>

\* The tokens that a call under way has yet to fill in, from what was their
\* chain's configuration; conf is what AllAssets holds now.
Lagging(conf) ==
  { at[d] : d \in { e \in Clients : /\ stage[e] = "fill"
                                   /\ lookup[e].base # conf[ChainID(at[e])] } }
-----------------------------------------------------------------------------
(* The calls *)

Begin(c, request, label) ==
  /\ stage[c] = "idle"
  /\ lookup' = [lookup EXCEPT ![c] = request]
  /\ overtaken' = [overtaken EXCEPT ![c] = Lagging(assets)]
  /\ Proceed(c, label)
  /\ UNCHANGED <<store, at, filled>>

GetAssetConfig(c) ==
  /\ \E i \in IDs : Begin(c, [op |-> "get", id |-> i], "load")
  /\ UNCHANGED endpoint

GetAssetConfigByContract(c) ==
  /\ \E q \in Find : Begin(c, q, "find")
  /\ UNCHANGED endpoint

\* EnrichDestinations of one destination, which no other client holds: a new
\* one or the same once more.
EnrichDestinations(c) ==
  \E d \in {endpoint} \cup Destinations :
    /\ d # NoEndpoint
    /\ \A e \in Clients : lookup[e].op # "enrich"
    /\ Begin(c, [op |-> "enrich", contract |-> d.contract, chain |-> d.chain],
             IF d.contract = Blank THEN "native" ELSE "find")
    /\ endpoint' = d

Put(c, o) ==
  /\ stage[c] = "idle"
  /\ assets' = With(assets, ID(o), o)
  /\ overtaken' = [d \in Clients |->
       IF d = c THEN Lagging(assets')
       ELSE IF stage[d] = "idle" THEN {}
       ELSE overtaken[d] \cup { t \in Tokens : ChainID(t) = ID(o) }]

\* Mutant: what is put is returned as it is.
PutOnly(c) ==
  /\ \E o \in Objects : Put(c, o)
  /\ UNCHANGED <<chain, inner, settings, stage, lookup, at, filled, endpoint>>

PutAssetConfig(c) ==
  \E o \in Objects :
    /\ Put(c, o)
    /\ lookup' = [lookup EXCEPT ![c] = [op |-> "put", id |-> ID(o)]]
    /\ Proceed(c, "load")
    /\ UNCHANGED <<chain, inner, settings, at, filled, endpoint>>
-----------------------------------------------------------------------------
(* Lookups *)

Wanted(c) == IF lookup[c].op \in {"get", "put"} THEN lookup[c].id ELSE ID(at[c])

\* A destination that is enriched has the contract as it is configured.
Enriched(c, result) ==
  IF lookup[c].op # "enrich" \/ result = "error" THEN endpoint
  ELSE IF result = "callback" THEN [endpoint EXCEPT !.config = result]
  ELSE [endpoint EXCEPT !.config = result,
                        !.contract = IF result \in Tokens THEN Given[result].contract
                                     ELSE Blank]

Return(c, result) ==
  /\ endpoint' = Enriched(c, result)
  /\ lookup' = [lookup EXCEPT ![c] = NoLookup]
  /\ at' = [at EXCEPT ![c] = NoConfig]
  /\ filled' = [filled EXCEPT ![c] = 0]
  /\ overtaken' = [overtaken EXCEPT ![c] = {}]
  /\ Proceed(c, "idle")

\* A lookup that finds nothing is up to the callback, if there is one.
Miss(c, which) == Return(c, IF which \in Callbacks THEN "callback" ELSE "error")

\* What GetAssetConfig shows of a configuration.
Shown(o) ==
  IF o \in Natives
  THEN [chain |-> chain[o], contract |-> Blank, asset |-> Given[o].asset,
        coin |-> Given[o].coin]
  ELSE [chain    |-> IF o \in inner THEN Given[o].chain ELSE Blank,
        contract |-> IF o \in inner THEN Given[o].contract ELSE Blank,
        asset    |-> IF o \in inner THEN Given[o].asset ELSE Blank,
        coin     |-> Blank]

Fits(o, contract, n) ==
  LET v == Shown(o)
  IN  IF v.chain = n THEN Normal[v.contract] = Normal[contract]
      ELSE v.asset = n /\ v.coin = Normal[contract]

\* The range over AllAssets, in any order.
FindByContract(c) ==
  LET fits == { i \in DOMAIN assets : Fits(assets[i], lookup[c].contract, lookup[c].chain) }
  IN  /\ stage[c] = "find"
      /\ UNCHANGED store
      /\ \/ /\ fits # {}
            /\ \E i \in fits : at' = [at EXCEPT ![c] = assets[i]]
            /\ Proceed(c, "load")
            /\ UNCHANGED <<lookup, filled, endpoint, overtaken>>
         \/ fits = {} /\ Miss(c, "contract")

\* cfgFromAsset: a chain's own configuration is normalized, a token's is
\* copied into its embedded one.
LoadConfig(c) ==
  /\ stage[c] = "load"
  /\ UNCHANGED <<assets, settings>>
  /\ \/ /\ Wanted(c) \notin DOMAIN assets
        /\ Miss(c, "id")
        /\ UNCHANGED <<chain, inner>>
     \/ /\ Wanted(c) \in DOMAIN assets
        /\ LET o == assets[Wanted(c)]
           IN  \/ /\ o \in Natives
                  /\ chain' = [chain EXCEPT ![o] = Given[o].asset]
                  /\ Return(c, o)
                  /\ UNCHANGED inner
               \/ /\ o \in Tokens
                  /\ inner' = inner \cup {o}
                  /\ at' = [at EXCEPT ![c] = o]
                  /\ Proceed(c, "enrich")
                  /\ UNCHANGED <<chain, lookup, filled, endpoint, overtaken>>

\* cfgEnrichAssetConfig loads the token's chain, if it is known ...
LoadChainIf(c, known) ==
  /\ stage[c] = "enrich"
  /\ UNCHANGED store
  /\ \/ /\ known
        /\ lookup' = [lookup EXCEPT ![c] = With(@, "base", assets[ChainID(at[c])])]
        /\ Proceed(c, "fill")
        /\ UNCHANGED <<at, filled, endpoint, overtaken>>
     \/ ~known /\ Return(c, at[c])

\* Mutant: a token that has been enriched is not enriched again.
LoadChainOnce(c) ==
  LoadChainIf(c, ChainID(at[c]) \in DOMAIN assets /\ settings[at[c]][1] = NoConfig)

LoadChain(c) == LoadChainIf(c, ChainID(at[c]) \in DOMAIN assets)

\* ... and then stores a pointer to it and its settings, one after the other, in
\* the object that every caller has.
Fill(c) ==
  /\ stage[c] = "fill"
  /\ settings' = [settings EXCEPT ![at[c]][filled[c] + 1] = lookup[c].base]
  /\ filled' = [filled EXCEPT ![c] = @ + 1]
  /\ Proceed(c, IF filled[c] + 1 = Stores THEN "filled" ELSE "fill")
  /\ UNCHANGED <<assets, chain, inner, lookup, at, endpoint, overtaken>>

ReturnFilled(c) ==
  /\ stage[c] = "filled" /\ Return(c, at[c])
  /\ UNCHANGED store

\* A destination without a contract is of the chain's own asset.
NativeDestination(c) ==
  /\ stage[c] = "native"
  /\ \E o \in Natives : Given[o].asset = lookup[c].chain /\ Return(c, o)
  /\ UNCHANGED store

RegistryNext ==
  \E c \in Clients :
    \/ GetAssetConfig(c) \/ GetAssetConfigByContract(c) \/ EnrichDestinations(c)
    \/ PutAssetConfig(c) \/ FindByContract(c) \/ LoadConfig(c) \/ LoadChain(c)
    \/ Fill(c) \/ ReturnFilled(c) \/ NativeDestination(c)

RegistrySpec == RegistryInit /\ [][RegistryNext]_registryVars
-----------------------------------------------------------------------------
\* No client is putting a configuration under the id.
Settled(i) ==
  \A c \in Clients : lookup[c].op = "put" /\ lookup[c].id = i => stage[c] = "idle"

Asked(c, token) ==
  /\ Given[token].chain = lookup[c].chain
  /\ Normal[Given[token].contract] = Normal[lookup[c].contract]

\* A token whose PutAssetConfig has returned, or that was configured, is found
\* by its contract, whatever other clients put or look up meanwhile.
RegisteredTokensAreFound ==
  [][\A c \in Clients :
       stage[c] = "find" /\ stage'[c] = "idle" =>
         ~\E i \in DOMAIN assets :
            assets[i] \in Tokens /\ Settled(i) /\ Asked(c, assets[i])]_registryVars

\* At its return from the factory a token has all the settings that its chain
\* has then, unless the chain was put again during the call, or a slower call
\* was filling in the token with older ones when this call began. Neither an
\* earlier call, nor any other that overlaps, leaves some or all of the settings
\* of a chain that has been replaced.
SettingsAreFresh ==
  [][\A c \in Clients :
       stage[c] \in {"enrich", "filled"} /\ stage'[c] = "idle" =>
         LET id == ChainID(at[c])
         IN  id \in DOMAIN assets /\ at[c] \notin overtaken[c] =>
               \A k \in 1..Stores : settings'[at[c]][k] = assets[id]]_registryVars
=============================================================================
