------------------------------- MODULE AdminApi -------------------------------
(***************************************************************************)
(* The administrative API (src/adminApi.ts, adminApiEntry.ts) and the      *)
(* stores behind what the budget page does with budgets and models:        *)
(* Daily_Token_Quotas (quotaConfigStore.ts) and the Model_Registry         *)
(* (modelRegistryStore.ts).                                                *)
(*                                                                         *)
(* A request is answered with an error and changes nothing, or is applied  *)
(* in one write or read to one query.  Providers, scopes and time stamps   *)
(* are left out.                                                           *)
(***************************************************************************)
EXTENDS Naturals, FiniteSets

CONSTANTS
  Teams, Models,
  Regions,        \* numbers, in the order of the sort key
  Missing,        \* a field left out
  MaxQuota,       \* bound on a Daily_Token_Quota
  Budgeted,       \* team and model pairs with a quota of 1 at the start
  Legacy,         \* entries at the start, from before regions were part of the key
  Foundation,     \* [Regions -> models of ListFoundationModels]
  ProfileOnly,    \* [Regions -> those without ON_DEMAND inference]
  Profiles,       \* [Regions -> ids of ListInferenceProfiles]
  MantleModels    \* [Regions -> ids of GET /v1/models]

Endpoints == {"bedrock-mantle", "bedrock-runtime"}
NoRegion  == 0    \* '-', before every region in the order of the sort key

ASSUME AdminApiAssumption ==
  /\ Regions \subseteq Nat \ {NoRegion}
  /\ Missing \notin Teams \cup Models /\ Missing \notin Regions /\ Missing \notin Endpoints
  /\ MaxQuota \in Nat \ {0}
  /\ Budgeted \subseteq Teams \X Models
  /\ Legacy \subseteq Models \X Endpoints
  /\ Foundation \in [Regions -> SUBSET Models] /\ ProfileOnly \in [Regions -> SUBSET Models]
  /\ Profiles \in [Regions -> SUBSET Models] /\ MantleModels \in [Regions -> SUBSET Models]

VARIABLES
  quota,      \* [Teams \X Models -> 0..MaxQuota], 0 for no row
  registry    \* the rows of the Model_Registry

storeVars == <<quota, registry>>

(* The identity of a row of the Model_Registry is its sort key.            *)
Entry(m, e, r) == [model |-> m, endpoint |-> e, region |-> IF r = Missing THEN NoRegion ELSE r]
Entries == [model : Models, endpoint : Endpoints, region : Regions \cup {NoRegion}]

(* A request, with the fields its operation does not take left out.        *)
Request == [op |-> "none", team |-> Missing, model |-> Missing, value |-> 0,
            endpoint |-> Missing, region |-> Missing]
PutQuota(t, m, v) == [Request EXCEPT !.op = "putQuota", !.team = t, !.model = m, !.value = v]
ListQuotas(t)     == [Request EXCEPT !.op = "listQuotas", !.team = t]
Allow(m, e, r)    == [Request EXCEPT !.op = "putModelRegistryEntry", !.model = m,
                                     !.endpoint = e, !.region = r]
Remove(m, e, r)   == [Request EXCEPT !.op = "deleteModelRegistryEntry", !.model = m,
                                     !.endpoint = e, !.region = r]
ListCatalog(e, r) == [Request EXCEPT !.op = "listModelCatalog", !.endpoint = e, !.region = r]
ListRegistry      == [Request EXCEPT !.op = "listModelRegistry"]

StoreTypeOK ==
  /\ quota \in [Teams \X Models -> 0..MaxQuota]
  /\ registry \subseteq Entries

StoreInit ==
  /\ quota = [p \in Teams \X Models |-> IF p \in Budgeted THEN 1 ELSE 0]
  /\ registry = {Entry(p[1], p[2], Missing) : p \in Legacy}

-----------------------------------------------------------------------------
(* What a handler requires of its request.                                 *)
Valid(q) ==
  /\ q.op \in {"putQuota", "listQuotas"} => q.team # Missing
  /\ q.op \in {"putQuota", "putModelRegistryEntry", "deleteModelRegistryEntry"} =>
       q.model # Missing
  /\ q.op = "putQuota" => q.value > 0
  /\ q.op \in {"putModelRegistryEntry", "deleteModelRegistryEntry", "listModelCatalog"} =>
       q.endpoint \in Endpoints
  /\ q.op = "listModelCatalog" => q.region # Missing

SetQuota(q) ==
  quota' = IF q.op = "putQuota" THEN [quota EXCEPT ![<<q.team, q.model>>] = q.value] ELSE quota

(* The one write of a request.                                             *)
Store(q) ==
  /\ SetQuota(q)
  /\ registry' = CASE q.op = "putModelRegistryEntry" ->
                        registry \cup {Entry(q.model, q.endpoint, q.region)}
                   [] q.op = "deleteModelRegistryEntry" ->
                        registry \ {Entry(q.model, q.endpoint, q.region)}
                   [] OTHER -> registry

(* ModelRegistry keeps one entry per model and endpoint, the last in the   *)
(* order of the query.                                                     *)
Listed == {k \in registry : \A x \in registry :
             x.model = k.model /\ x.endpoint = k.endpoint => x.region =< k.region}

(* What can be invoked by its id on the endpoint in the region.            *)
Catalog(e, r) ==
  IF e = "bedrock-mantle" THEN MantleModels[r]
  ELSE (Foundation[r] \ ProfileOnly[r]) \cup Profiles[r]

Budgets(t) == {p \in Models \X (1..MaxQuota) : quota[<<t, p[1]>>] = p[2]}

(* What is read, in the field of the answer that the operation fills.      *)
NoData == [budgets |-> {}, entries |-> {}, ids |-> {}]
Reply(q) ==
  CASE q.op = "listQuotas" -> [NoData EXCEPT !.budgets = Budgets(q.team)]
    [] q.op = "listModelRegistry" -> [NoData EXCEPT !.entries = Listed]
    [] q.op = "listModelCatalog" -> [NoData EXCEPT !.ids = Catalog(q.endpoint, q.region)]
    [] OTHER -> NoData
=============================================================================
