---------------------------- MODULE BudgetConsole ----------------------------
(***************************************************************************)
(* The budget page (src/web/src/App.tsx, api.ts) against the AdminApi: the *)
(* budgets of a team and the allowed models.                               *)
(*                                                                         *)
(* A button that sets "busy" makes one call after another, and the other   *)
(* such buttons wait; the refreshes the page makes on its own, the catalog *)
(* and the fields of the page go on meanwhile.  A call is sent, served and *)
(* answered in three moments; it may fail before or after it was served.   *)
(* The reconciliation panel is in Reconciliation.                          *)
(***************************************************************************)
EXTENDS AdminApi

CONSTANTS
  MaxInputs,    \* bound: what the operator presses, picks and types
  MaxOther      \* bound: requests of other administrators

ASSUME BudgetConsoleAssumption == MaxInputs \in Nat /\ MaxOther \in Nat

VARIABLES
  team,         \* the team field
  loaded,       \* loadedTeam, quotas and edits, which change together
  newModel,     \* the model field of "Add / set a budget"
  models,       \* the allow-list as the page has it
  pick,         \* allowEndpoint, allowRegion, allowModelId
  catalog,
  loading,      \* the call behind catalogLoading
  call,         \* the call behind busy, with what the handler closed over
  reads,        \* refreshes of the allow-list under way
  inputs, others,
  \* History, read by no action:
  typedFor,     \* [Models -> the team above the row when edits last changed]
  unsure,       \* teams whose table may be out of date through no fault of the page
  moved,        \* the catalog, the model picked: from before a dropdown was changed
  doubtful      \* entries allowed from such a catalog

pageVars == <<team, loaded, newModel, models, pick, catalog>>
callVars == <<loading, call, reads>>
histVars == <<typedFor, unsure, moved, doubtful>>
vars == <<storeVars, pageVars, callVars, inputs, others, histVars>>

NoCall == [at |-> "idle", by |-> "none", req |-> Request, ans |-> NoData, reload |-> Missing,
           ensure |-> FALSE]
NoRows == [m \in Models |-> 0]

TypeOK ==
  /\ StoreTypeOK
  /\ team \in Teams \cup {Missing} /\ newModel \in Models \cup {Missing}
  /\ loaded \in [team : Teams \cup {Missing}, quotas : [Models -> 0..MaxQuota],
                 edits : [Models -> 0..MaxQuota]]
  /\ models \subseteq Entries
  /\ pick \in [endpoint : Endpoints, region : Regions, model : Models \cup {Missing}]
  /\ catalog \subseteq Models
  /\ loading.at \in {"idle", "out", "back"} /\ call.at \in {"idle", "out", "back"}
  /\ \A x \in reads : x.at \in {"out", "back"}
  /\ inputs \in 0..MaxInputs /\ others \in 0..MaxOther
  /\ unsure \subseteq Teams /\ doubtful \subseteq Entries

(* refreshAllowedModels when the page does not wait for it.                *)
Refresh == reads \cup {[n |-> CHOOSE n \in 1..(Cardinality(reads) + 1) : \A x \in reads : x.n # n,
                        at |-> "out", ans |-> NoData]}

Init ==
  /\ StoreInit
  /\ team = Missing /\ newModel = Missing
  /\ loaded = [team |-> Missing, quotas |-> NoRows, edits |-> NoRows]
  /\ models = {}
  /\ pick \in [endpoint : {"bedrock-runtime"}, region : Regions, model : {Missing}]
  /\ catalog = {}
  /\ loading = NoCall /\ call = NoCall
  /\ reads = {[n |-> 1, at |-> "out", ans |-> NoData]}
  /\ inputs = 0 /\ others = 0
  /\ typedFor = [m \in Models |-> Missing] /\ unsure = {}
  /\ moved = [list |-> FALSE, pick |-> FALSE] /\ doubtful = {}

-----------------------------------------------------------------------------
(* What the operator does.                                                 *)

Input ==
  /\ inputs < MaxInputs
  /\ inputs' = inputs + 1
  /\ UNCHANGED <<storeVars, others>>

busy == call.at # "idle"

(* A handler sets busy and sends its first request.                        *)
Call(by, q) ==
  /\ ~busy
  /\ call' = [NoCall EXCEPT !.at = "out", !.by = by, !.req = q, !.reload = team,
                            !.ensure = models = {}]
  /\ UNCHANGED <<loading, reads>>

Shown == {m \in Models : loaded.quotas[m] > 0}

TypeTeam(t) ==
  /\ Input
  /\ team' = t
  /\ UNCHANGED <<loaded, newModel, models, pick, catalog, callVars, histVars>>

EditRow(m, v) ==
  /\ Input /\ m \in Shown
  /\ loaded' = [loaded EXCEPT !.edits[m] = v]
  /\ typedFor' = [typedFor EXCEPT ![m] = loaded.team]
  /\ UNCHANGED <<team, newModel, models, pick, catalog, callVars, unsure, moved,
                 doubtful>>

(* The picker offers the allowed models without a budget; when there is    *)
(* none it is a text field.                                                *)
Available == {k.model : k \in models} \ Shown

PickNewModel(m) ==
  /\ Input /\ loaded.team # Missing
  /\ Available # {} => m \in Available
  /\ newModel' = m
  /\ UNCHANGED <<team, loaded, models, pick, catalog, callVars, histVars>>

Load ==
  /\ Input /\ team # Missing
  /\ Call("load", ListQuotas(team))
  /\ UNCHANGED <<pageVars, histVars>>

(* Mutant: the budget goes to the team in the field.                       *)
SaveRow_typed(m) ==
  /\ Input /\ m \in Shown /\ loaded.edits[m] # loaded.quotas[m]
  /\ team # Missing
  /\ Call("save", PutQuota(team, m, loaded.edits[m]))
  /\ UNCHANGED <<pageVars, histVars>>

SaveRow(m) ==
  /\ Input /\ m \in Shown /\ loaded.edits[m] # loaded.quotas[m]
  /\ Call("save", PutQuota(loaded.team, m, loaded.edits[m]))
  /\ UNCHANGED <<pageVars, histVars>>

Add(v) ==
  /\ Input /\ loaded.team # Missing /\ newModel # Missing
  /\ Call("add", PutQuota(loaded.team, newModel, v))
  /\ UNCHANGED <<pageVars, histVars>>

(* Mutant: the catalog of the other endpoint or region stays in the list.  *)
Choose_keeps(e, r) ==
  /\ Input
  /\ e = pick.endpoint \/ r = pick.region
  /\ pick' = [endpoint |-> e, region |-> r, model |-> Missing]
  /\ moved' = [list |-> FALSE, pick |-> FALSE]
  /\ UNCHANGED <<team, loaded, newModel, models, catalog, callVars, typedFor, unsure,
                 doubtful>>

(* One of the two dropdowns is changed.                                    *)
Choose(e, r) ==
  /\ Input
  /\ e = pick.endpoint \/ r = pick.region
  /\ pick' = [endpoint |-> e, region |-> r, model |-> Missing]
  /\ catalog' = {}
  /\ moved' = [list |-> FALSE, pick |-> FALSE]
  /\ UNCHANGED <<team, loaded, newModel, models, callVars, typedFor, unsure,
                 doubtful>>

(* refreshCatalog: the list before stays until the answer.                 *)
LoadCatalog ==
  /\ Input /\ loading.at = "idle"
  /\ loading' = [NoCall EXCEPT !.at = "out", !.req = ListCatalog(pick.endpoint, pick.region)]
  /\ pick' = [pick EXCEPT !.model = Missing]
  /\ UNCHANGED <<team, loaded, newModel, models, catalog, call, reads, histVars>>

PickModel(m) ==
  /\ Input /\ m \in catalog
  /\ pick' = [pick EXCEPT !.model = m]
  /\ moved' = [moved EXCEPT !.pick = moved.list]
  /\ UNCHANGED <<team, loaded, newModel, models, catalog, callVars, typedFor, unsure,
                 doubtful>>

AllowModel ==
  /\ Input /\ catalog # {} /\ pick.model # Missing
  /\ Call("allow", Allow(pick.model, pick.endpoint, pick.region))
  /\ doubtful' = IF moved.pick THEN doubtful \cup {Entry(pick.model, pick.endpoint, pick.region)}
                 ELSE doubtful
  /\ UNCHANGED <<pageVars, typedFor, unsure, moved>>

RemoveAllowed(k) ==
  /\ Input /\ k \in models
  /\ Call("remove", Remove(k.model, k.endpoint, IF k.region = NoRegion THEN Missing ELSE k.region))
  /\ UNCHANGED <<pageVars, histVars>>

-----------------------------------------------------------------------------
(* The API.                                                                *)

ServeCall ==
  /\ call.at = "out" /\ Valid(call.req)
  /\ Store(call.req)
  /\ call' = [call EXCEPT !.at = "back", !.ans = Reply(call.req)]
  /\ unsure' = IF call.req.op = "listQuotas" THEN unsure \ {call.req.team} ELSE unsure
  /\ UNCHANGED <<pageVars, loading, reads, inputs, others, typedFor, moved, doubtful>>

(* Another page or a script.                                               *)
OtherRequest(q) ==
  /\ others < MaxOther /\ others' = others + 1
  /\ Valid(q) /\ Store(q)
  /\ unsure' = IF q.op = "putQuota" THEN unsure \cup {q.team} ELSE unsure
  /\ UNCHANGED <<pageVars, callVars, inputs, typedFor, moved, doubtful>>

OtherAdministrator ==
  \/ \E t \in Teams, m \in Models, v \in 1..MaxQuota : OtherRequest(PutQuota(t, m, v))
  \/ \E e \in Endpoints, r \in Regions :
       \E m \in Catalog(e, r) : OtherRequest(Allow(m, e, r)) \/ OtherRequest(Remove(m, e, r))

ServeCatalog ==
  /\ loading.at = "out"
  /\ loading' = [loading EXCEPT !.at = "back", !.ans = Reply(loading.req)]
  /\ UNCHANGED <<storeVars, pageVars, call, reads, inputs, others, histVars>>

ServeRead(x) ==
  /\ x.at = "out"
  /\ reads' = (reads \ {x}) \cup {[n |-> x.n, at |-> "back", ans |-> Reply(ListRegistry)]}
  /\ UNCHANGED <<storeVars, pageVars, loading, call, inputs, others, histVars>>

-----------------------------------------------------------------------------
(* What the page does with an answer.                                      *)

(* The answer of listQuotas: quotas, edits and loadedTeam are set together.*)
ShowQuotas(t, rows) ==
  LET q == [m \in Models |-> IF \E v \in 1..MaxQuota : <<m, v>> \in rows
                             THEN CHOOSE v \in 1..MaxQuota : <<m, v>> \in rows ELSE 0] IN
  /\ loaded' = [team |-> t, quotas |-> q, edits |-> q]
  /\ typedFor' = [m \in Models |-> t]

(* handleLoad, called by its button or by the two handlers that set a      *)
(* budget; it reads the allow-list if the page had none.                   *)
LandQuotas ==
  /\ call.at = "back" /\ call.req.op = "listQuotas"
  /\ ShowQuotas(call.req.team, call.ans.budgets)
  /\ reads' = IF call.ensure THEN Refresh ELSE reads
  /\ call' = NoCall
  /\ UNCHANGED <<storeVars, team, newModel, models, pick, catalog, loading, inputs,
                 others, unsure, moved, doubtful>>

(* Mutant: the table is not loaded again.                                  *)
LandPut_noReload ==
  /\ call.at = "back" /\ call.req.op = "putQuota"
  /\ newModel' = IF call.by = "add" THEN Missing ELSE newModel
  /\ call' = NoCall
  /\ UNCHANGED <<storeVars, team, loaded, models, pick, catalog, loading, reads, inputs, others,
                 typedFor, unsure, moved, doubtful>>

(* The budget is set: handleLoad for the team in the field, or nothing if  *)
(* the field is empty.                                                     *)
LandPut ==
  /\ call.at = "back" /\ call.req.op = "putQuota"
  /\ newModel' = IF call.by = "add" THEN Missing ELSE newModel
  /\ \/ /\ call.reload # Missing
        /\ call' = [call EXCEPT !.at = "out", !.req = ListQuotas(call.reload), !.ans = NoData]
        /\ UNCHANGED unsure
     \/ /\ call.reload = Missing
        /\ call' = NoCall
        /\ unsure' = unsure \cup {call.req.team}
  /\ UNCHANGED <<storeVars, team, loaded, models, pick, catalog, loading, reads, inputs,
                 others, typedFor, moved, doubtful>>

(* An entry is allowed or removed: the allow-list is read again.           *)
LandEntry ==
  /\ call.at = "back" /\ call.req.op \in {"putModelRegistryEntry", "deleteModelRegistryEntry"}
  /\ pick' = IF call.by = "allow" THEN [pick EXCEPT !.model = Missing] ELSE pick
  /\ call' = [call EXCEPT !.at = "out", !.req = ListRegistry, !.ans = NoData]
  /\ UNCHANGED <<storeVars, team, loaded, newModel, models, catalog, loading, reads,
                 inputs, others, histVars>>

LandEntries ==
  /\ call.at = "back" /\ call.req.op = "listModelRegistry"
  /\ models' = call.ans.entries
  /\ call' = NoCall
  /\ UNCHANGED <<storeVars, team, loaded, newModel, pick, catalog, loading, reads,
                 inputs, others, histVars>>

(* An error answer, a network error or no credentials: the handler says so *)
(* and ends; what was served stays served.                                 *)
CallFails ==
  /\ call.at \in {"out", "back"}
  /\ call' = NoCall
  /\ LET late == IF call.by \in {"save", "add"} THEN {call.req.team, loaded.team}
                 ELSE {call.req.team}
     IN  unsure' = unsure \cup (late \ {Missing})
  /\ UNCHANGED <<storeVars, pageVars, loading, reads, inputs, others, typedFor, moved, doubtful>>

(* The answer is shown whatever the dropdowns say by now.                  *)
LandCatalog ==
  /\ loading.at = "back"
  /\ catalog' = loading.ans.ids
  /\ loading' = NoCall
  /\ moved' = [moved EXCEPT !.list = <<loading.req.endpoint, loading.req.region>>
                                          # <<pick.endpoint, pick.region>>]
  /\ UNCHANGED <<storeVars, team, loaded, newModel, models, pick, call, reads, inputs,
                 others, typedFor, unsure, doubtful>>

CatalogFails ==
  /\ loading.at \in {"out", "back"}
  /\ catalog' = {}
  /\ loading' = NoCall
  /\ UNCHANGED <<storeVars, team, loaded, newModel, models, pick, call, reads, inputs,
                 others, histVars>>

(* refreshAllowedModels: the last answer to arrive is shown.               *)
LandRead(x) ==
  /\ x.at = "back"
  /\ reads' = reads \ {x}
  /\ models' = x.ans.entries
  /\ UNCHANGED <<storeVars, team, loaded, newModel, pick, catalog, loading, call, inputs, others,
                 histVars>>

ReadFails(x) ==
  /\ reads' = reads \ {x}
  /\ UNCHANGED <<storeVars, pageVars, loading, call, inputs, others, histVars>>

-----------------------------------------------------------------------------
Operator ==
  \/ \E t \in Teams \cup {Missing} : TypeTeam(t)
  \/ \E m \in Models : PickNewModel(m) \/ SaveRow(m) \/ PickModel(m)
  \/ \E m \in Models, v \in 0..MaxQuota : EditRow(m, v)
  \/ \E v \in 0..MaxQuota : Add(v)
  \/ \E e \in Endpoints, r \in Regions : Choose(e, r)
  \/ \E k \in models : RemoveAllowed(k)
  \/ Load \/ LoadCatalog \/ AllowModel

CallStep    == ServeCall \/ LandQuotas \/ LandPut \/ LandEntry \/ LandEntries \/ CallFails
CatalogStep == ServeCatalog \/ LandCatalog \/ CatalogFails
ReadStep    == \E x \in reads : ServeRead(x) \/ LandRead(x) \/ ReadFails(x)

Next == Operator \/ OtherAdministrator \/ CallStep \/ CatalogStep \/ ReadStep

Spec == Init /\ [][Next]_vars

-----------------------------------------------------------------------------
(* Properties.                                                             *)

(* A saved row goes to the team it was typed under: no order of typing,    *)
(* loading and saving puts one team's budget into another's row            *)
(* (handleSaveRow, handleLoad).                                            *)
SavedWhereTyped ==
  call.by = "save" /\ call.req.op = "putQuota" => typedFor[call.req.model] = call.req.team

(* Between calls the table shows what is stored for its team, unless       *)
(* another administrator has written since it was read, an answer was      *)
(* lost, or the team field was empty when a budget was set.                *)
ShownIsStored ==
  ~busy /\ loaded.team \notin unsure \cup {Missing} =>
    \A m \in Models : loaded.quotas[m] = quota[<<loaded.team, m>>]

Offered(k) == k.region # NoRegion => k.model \in Catalog(k.endpoint, k.region)

(* What is allowed from a list that was asked for with the dropdowns as    *)
(* they are can be invoked on that endpoint and in that region.            *)
AllowedWhenSteady == \A k \in registry \ doubtful : Offered(k)
=============================================================================
