-------------------------------- MODULE Config --------------------------------
(***************************************************************************)
(* The host's configuration (config.py) and the capability catalog it is   *)
(* validated against (capabilities.py).                                    *)
(*                                                                         *)
(* An optional value is the set of its values: empty, or a singleton.  The *)
(* checks of single fields that no other part depends on (schema version,  *)
(* empty names and references, a role with both an endpoint and a pool or  *)
(* neither) are one flag of the configuration, "sound".  A role that names *)
(* one endpoint is a pool of one.                                          *)
(***************************************************************************)
EXTENDS Sequences, Functions, Handover

CONSTANTS
  Uid,        \* endpoint UIDs
  Family,     \* pairs of a provider format and a model family
  Role,       \* role names
  Operation,  \* operation refs
  PolicyRef,  \* policy refs
  Catalog     \* the capability profile of each family in the catalog

Reasoning == {"disabled", "low", "medium", "high"}

IsOptional(option, S) ==
  option \subseteq S /\ \A x, y \in option : x = y

\* The option's value, or the default where it has none.
Or(option, default) ==
  IF option = {} THEN default ELSE CHOOSE x \in option : TRUE

\* CapabilityProfile: the hard limits, and what the family supports.
CapabilityProfile(profile) ==
  /\ profile.maxOutput \in Nat \ {0}
  /\ IsOptional(profile.maxDeadline, Nat \ {0})
  /\ profile.reasoning \subseteq Reasoning /\ "disabled" \in profile.reasoning
  /\ profile.modes \subseteq Mode /\ "none" \in profile.modes

ASSUME CatalogAssumption ==
  /\ DOMAIN Catalog \subseteq Family
  /\ \A family \in DOMAIN Catalog : CapabilityProfile(Catalog[family])

\* A configuration as the host may write it: budgets may be zero or negative,
\* names may be repeated or lead nowhere.
WrittenPolicy(p) ==
  /\ p.deadline \in Int
  /\ p.maxOutput \in Int
  /\ p.reasoning \in Reasoning
  /\ IsOptional(p.base, Int)
  /\ DOMAIN p.overrides \subseteq Uid
  /\ \A uid \in DOMAIN p.overrides : p.overrides[uid] \in Int
  /\ p.protect \in BOOLEAN
  /\ p.mode \in Mode
  /\ p.allowOverrides \in BOOLEAN
  /\ p.failover \in BOOLEAN
  /\ p.maxAttempts \in Int

WrittenConfig(config) ==
  /\ config.sound \in BOOLEAN
  /\ config.endpoints \in Seq([uid : Uid, family : Family])
  /\ DOMAIN config.roles \subseteq Role
  /\ \A role \in DOMAIN config.roles : config.roles[role] \in Seq(Uid)
  /\ DOMAIN config.policies \subseteq PolicyRef
  /\ \A ref \in DOMAIN config.policies : WrittenPolicy(config.policies[ref])
  /\ DOMAIN config.operations \subseteq Operation
  /\ \A op \in DOMAIN config.operations :
       config.operations[op] \in [policy : PolicyRef, schema : BOOLEAN]

------------------------------------------------------------------------------
Uids(config) == { config.endpoints[k].uid : k \in DOMAIN config.endpoints }

\* _validate_pool.
ValidPool(pool, uids) ==
  /\ pool # <<>>
  /\ IsInjective(pool)
  /\ Range(pool) \subseteq uids

\* _validate_policy.
ValidPolicy(p) ==
  /\ p.deadline > 0
  /\ p.maxOutput > 0
  /\ \A budget \in p.base : budget > 0
  /\ \A uid \in DOMAIN p.overrides : p.overrides[uid] \in 1 .. p.deadline
  /\ p.maxAttempts > 0

\* validate_config, with the families of the catalog it is given.
ValidConfig(config, families) ==
  /\ config.sound
  /\ config.endpoints # <<>>
  /\ \A k \in DOMAIN config.endpoints : config.endpoints[k].family \in families
  /\ IsInjective([k \in DOMAIN config.endpoints |-> config.endpoints[k].uid])
  /\ \A role \in DOMAIN config.roles : ValidPool(config.roles[role], Uids(config))
  /\ \A ref \in DOMAIN config.policies : ValidPolicy(config.policies[ref])
  /\ \A op \in DOMAIN config.operations :
       config.operations[op].policy \in DOMAIN config.policies

\* endpoints_by_uid, as far as planning reads an endpoint.
FamilyOf(config, uid) ==
  (CHOOSE endpoint \in Range(config.endpoints) : endpoint.uid = uid).family

\* resolve_operation_policy.
PolicyOf(config, op) == config.policies[config.operations[op].policy]
==============================================================================
