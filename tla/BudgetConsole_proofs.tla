------------------------ MODULE BudgetConsole_proofs ------------------------
(***************************************************************************)
(* Proofs about BudgetConsole, for any teams, models, regions and any      *)
(* number of inputs and of requests from elsewhere.                        *)
(*                                                                         *)
(* What the page shows is only as good as what is on its way: each part of *)
(* the invariant says of an answer, of the copy the page made of it, and   *)
(* of a request made from that copy, what they still have to do with the   *)
(* stores.                                                                 *)
(***************************************************************************)
EXTENDS BudgetConsole, TLAPS

Operations == {"none", "putQuota", "listQuotas", "putModelRegistryEntry",
               "deleteModelRegistryEntry", "listModelCatalog", "listModelRegistry"}

Requests == [op : Operations, team : Teams \cup {Missing}, model : Models \cup {Missing},
             value : 0..MaxQuota, endpoint : Endpoints \cup {Missing},
             region : Regions \cup {Missing}]

Answers == [budgets : SUBSET (Models \X (1..MaxQuota)), entries : SUBSET Entries,
            ids : SUBSET Models]

Calls == [at : {"idle", "out", "back"},
          by : {"none", "load", "save", "add", "allow", "remove"},
          req : Requests, ans : Answers, reload : Teams \cup {Missing}, ensure : BOOLEAN]

(* TypeOK, and the shape of what is under way.                             *)
Typed ==
  /\ TypeOK
  /\ call \in Calls /\ loading \in Calls
  /\ call.at = "back" /\ call.req.op \in {"putQuota", "listQuotas"} => call.req.team \in Teams
  /\ loading.at # "idle" =>
       /\ loading.req.op = "listModelCatalog"
       /\ loading.req.endpoint \in Endpoints /\ loading.req.region \in Regions
  /\ \A x \in reads : x = [n |-> x.n, at |-> x.at, ans |-> x.ans] /\ x.ans \in Answers
  /\ moved \in [list : BOOLEAN, pick : BOOLEAN]

(* The edits were typed under the team of the table, and a budget that is  *)
(* on its way is of that team.                                             *)
EditsOfTeam ==
  /\ typedFor = [m \in Models |-> loaded.team]
  /\ call.at = "idle" => call.by = "none"
  /\ call.at # "idle" /\ call.req.op = "putQuota" =>
       /\ call.by \in {"save", "add"}
       /\ call.req.team = loaded.team /\ call.req.model \in Models

(* Between a put that was served, or an answer that was given, and the     *)
(* table that shows it.                                                    *)
Overdue ==
  \/ call.at = "back" /\ call.req.op = "putQuota"
  \/ call.at = "back" /\ call.req.op = "listQuotas" /\ call.req.team = loaded.team
  \/ call.at # "idle" /\ call.req.op = "listQuotas" /\ call.by \in {"save", "add"}

TableFresh ==
  /\ ~Overdue /\ loaded.team \notin unsure \cup {Missing} =>
       \A m \in Models : loaded.quotas[m] = quota[<<loaded.team, m>>]
  /\ call.at = "back" /\ call.req.op = "listQuotas" /\ call.req.team \notin unsure =>
       call.ans.budgets = Budgets(call.req.team)

(* The list under the dropdowns and the model picked from it.              *)
ListsOffered ==
  /\ loading.at = "back" => loading.ans.ids = Catalog(loading.req.endpoint, loading.req.region)
  /\ ~moved.list => catalog \subseteq Catalog(pick.endpoint, pick.region)
  /\ ~moved.pick /\ pick.model # Missing => pick.model \in Catalog(pick.endpoint, pick.region)

(* The request to allow that model.                                        *)
PutOffered ==
  call.at # "idle" /\ call.req.op = "putModelRegistryEntry" =>
    LET k == Entry(call.req.model, call.req.endpoint, call.req.region) IN
    k \in doubtful \/ Offered(k)

PicksOffered == ListsOffered /\ PutOffered /\ AllowedWhenSteady

ConsoleInv == Typed /\ EditsOfTeam /\ TableFresh /\ PicksOffered

USE AdminApiAssumption, BudgetConsoleAssumption

-----------------------------------------------------------------------------
(* Requests, answers and stores.                                           *)

LEMMA RequestsTyped ==
  /\ Request \in Requests /\ ListRegistry \in Requests
  /\ \A t \in Teams \cup {Missing} : ListQuotas(t) \in Requests
  /\ \A t \in Teams \cup {Missing}, m \in Models \cup {Missing}, v \in 0..MaxQuota :
       PutQuota(t, m, v) \in Requests
  /\ \A e \in Endpoints, r \in Regions \cup {Missing}, m \in Models \cup {Missing} :
       /\ Allow(m, e, r) \in Requests /\ Remove(m, e, r) \in Requests
       /\ ListCatalog(e, r) \in Requests
  <1> USE DEF Requests
  <1>1. Request \in Requests /\ 0 \in 0..MaxQuota
    BY DEF Request, Operations
  <1>2. ListRegistry \in Requests
    BY <1>1 DEF ListRegistry, Operations
  <1>3. ASSUME NEW t \in Teams \cup {Missing} PROVE ListQuotas(t) \in Requests
    BY <1>1 DEF ListQuotas, Operations
  <1>4. ASSUME NEW t \in Teams \cup {Missing}, NEW m \in Models \cup {Missing},
               NEW v \in 0..MaxQuota
        PROVE  PutQuota(t, m, v) \in Requests
    BY <1>1 DEF PutQuota, Operations
  <1>5. ASSUME NEW e \in Endpoints, NEW r \in Regions \cup {Missing},
               NEW m \in Models \cup {Missing}
        PROVE  /\ Allow(m, e, r) \in Requests /\ Remove(m, e, r) \in Requests
               /\ ListCatalog(e, r) \in Requests
    BY <1>1 DEF Allow, Remove, ListCatalog, Operations
  <1> QED
    BY <1>1, <1>2, <1>3, <1>4, <1>5

LEMMA RequestFields ==
  /\ Request.op = "none" /\ ListRegistry.op = "listModelRegistry"
  /\ \A t : ListQuotas(t).op = "listQuotas" /\ ListQuotas(t).team = t
  /\ \A t, m, v : /\ PutQuota(t, m, v).op = "putQuota" /\ PutQuota(t, m, v).team = t
                  /\ PutQuota(t, m, v).model = m /\ PutQuota(t, m, v).value = v
  /\ \A m, e, r : /\ Allow(m, e, r).op = "putModelRegistryEntry"
                  /\ Allow(m, e, r).model = m /\ Allow(m, e, r).endpoint = e
                  /\ Allow(m, e, r).region = r
                  /\ Remove(m, e, r).op = "deleteModelRegistryEntry"
                  /\ ListCatalog(e, r).op = "listModelCatalog"
                  /\ ListCatalog(e, r).endpoint = e /\ ListCatalog(e, r).region = r
  BY DEF Request, ListRegistry, ListQuotas, PutQuota, Allow, Remove, ListCatalog

LEMMA EntryTyped ==
  ASSUME NEW m \in Models, NEW e \in Endpoints, NEW r \in Regions \cup {Missing}
  PROVE  Entry(m, e, r) \in Entries
  BY DEF Entry, Entries

LEMMA CatalogTyped ==
  ASSUME NEW e \in Endpoints, NEW r \in Regions
  PROVE  Catalog(e, r) \subseteq Models
  BY DEF Catalog, Endpoints

LEMMA NothingCalled == NoData \in Answers /\ NoCall \in Calls
  BY RequestsTyped DEF NoData, NoCall, Answers, Calls

LEMMA ReplyTyped ==
  ASSUME StoreTypeOK, NEW q \in Requests,
         q.op = "listModelCatalog" => q.endpoint \in Endpoints /\ q.region \in Regions
  PROVE  Reply(q) \in Answers
  BY NothingCalled, CatalogTyped DEF Reply, NoData, Answers, Budgets, Listed, StoreTypeOK

LEMMA StoreTyped ==
  ASSUME StoreTypeOK, NEW q \in Requests, Valid(q), Store(q)
  PROVE  StoreTypeOK'
  <1>1. quota' \in [Teams \X Models -> 0..MaxQuota]
    BY DEF Store, SetQuota, Valid, Requests, StoreTypeOK
  <1>2. registry' \subseteq Entries
    BY EntryTyped DEF Store, Valid, Requests, StoreTypeOK
  <1> QED
    BY <1>1, <1>2 DEF StoreTypeOK

LEMMA OthersAsk ==
  ASSUME OtherAdministrator
  PROVE  \E q \in Requests :
           /\ OtherRequest(q)
           /\ q.op = "putModelRegistryEntry" => Offered(Entry(q.model, q.endpoint, q.region))
           /\ q.op \notin {"listModelCatalog", "listQuotas"}
  <1>1. ASSUME NEW e \in Endpoints, NEW r \in Regions, NEW m \in Catalog(e, r)
        PROVE  m \in Models /\ Offered(Entry(m, e, r))
    BY <1>1, CatalogTyped DEF Offered, Entry
  <1> QED
    BY <1>1, RequestsTyped, RequestFields DEF OtherAdministrator

-----------------------------------------------------------------------------
(* Types.                                                                  *)

LEMMA CallTyped ==
  ASSUME Typed, NEW b \in {"load", "save", "add", "allow", "remove"}, NEW q \in Requests,
         Call(b, q)
  PROVE  /\ call' \in Calls
         /\ call'.at = "out" /\ call'.by = b /\ call'.req = q /\ call'.reload = team
         /\ call.at = "idle" /\ loading' = loading /\ reads' = reads
  <1>1. PICK c \in Calls : c = NoCall
    BY NothingCalled
  <1>2. PICK t \in Teams \cup {Missing}, e \in BOOLEAN : t = team /\ e = (models = {})
    BY DEF Typed, TypeOK
  <1>3. call' = [c EXCEPT !.at = "out", !.by = b, !.req = q, !.reload = t, !.ensure = e]
    BY <1>1, <1>2 DEF Call
  <1>4. call.at = "idle" /\ loading' = loading /\ reads' = reads
    BY DEF Call, busy
  <1>5. call' \in Calls
    BY <1>1, <1>2, <1>3 DEF Calls
  <1>6. call'.at = "out" /\ call'.by = b /\ call'.req = q /\ call'.reload = t
    BY <1>1, <1>2, <1>3 DEF Calls
  <1> QED
    BY <1>2, <1>4, <1>5, <1>6

LEMMA AskedAgain ==
  ASSUME Typed, NEW q \in Requests, call' = [call EXCEPT !.at = "out", !.req = q, !.ans = NoData]
  PROVE  /\ call' \in Calls
         /\ call'.at = "out" /\ call'.req = q /\ call'.by = call.by
  <1>1. PICK c \in Calls : c = call
    BY DEF Typed
  <1>2. PICK d \in Answers : d = NoData
    BY NothingCalled
  <1>3. call' = [c EXCEPT !.at = "out", !.req = q, !.ans = d]
    BY <1>1, <1>2
  <1> QED
    BY <1>1, <1>3 DEF Calls

LEMMA ReadsTyped ==
  ASSUME Typed, reads' \in {reads, Refresh}
  PROVE  /\ \A x \in reads' : /\ x = [n |-> x.n, at |-> x.at, ans |-> x.ans]
                             /\ x.at \in {"out", "back"} /\ x.ans \in Answers
  BY NothingCalled DEF Typed, TypeOK, Refresh

LEMMA TypedOperator ==
  ASSUME Typed, Operator
  PROVE  Typed'
  <1> USE DEF Typed, TypeOK
  <1>1. inputs' \in 0..MaxInputs /\ UNCHANGED <<storeVars, others>>
    BY DEF Operator, TypeTeam, PickNewModel, SaveRow, PickModel, EditRow, Add, Choose,
           RemoveAllowed, Load, LoadCatalog, AllowModel, Input
  <1>2. StoreTypeOK'
    BY <1>1 DEF storeVars, StoreTypeOK
  <1>3. ASSUME NEW t \in Teams \cup {Missing}, TypeTeam(t) PROVE Typed'
    BY <1>1, <1>2, <1>3 DEF TypeTeam, callVars, histVars
  <1>4. ASSUME NEW m \in Models, PickNewModel(m) PROVE Typed'
    BY <1>1, <1>2, <1>4 DEF PickNewModel, callVars, histVars
  <1>5. ASSUME NEW m \in Models, PickModel(m) PROVE Typed'
    BY <1>1, <1>2, <1>5 DEF PickModel, callVars
  <1>6. ASSUME NEW m \in Models, NEW v \in 0..MaxQuota, EditRow(m, v) PROVE Typed'
    BY <1>1, <1>2, <1>6 DEF EditRow, callVars
  <1>7. ASSUME NEW e \in Endpoints, NEW r \in Regions, Choose(e, r) PROVE Typed'
    BY <1>1, <1>2, <1>7 DEF Choose, callVars
  <1>8. ASSUME LoadCatalog PROVE Typed'
    <2>1. /\ loading' \in Calls /\ loading'.at = "out"
          /\ loading'.req = ListCatalog(pick.endpoint, pick.region)
      BY <1>8, NothingCalled, RequestsTyped DEF LoadCatalog, Calls
    <2>2. pick' \in [endpoint : Endpoints, region : Regions, model : Models \cup {Missing}]
      BY <1>8 DEF LoadCatalog
    <2> QED
      BY <1>1, <1>2, <1>8, <2>1, <2>2, RequestFields DEF LoadCatalog, histVars
  <1>9. ASSUME NEW b \in {"load", "save", "add", "allow", "remove"}, NEW q \in Requests,
               Call(b, q), UNCHANGED <<pageVars, typedFor, unsure, moved>>,
               doubtful' \subseteq Entries
        PROVE  Typed'
    BY <1>1, <1>2, <1>9, CallTyped DEF pageVars
  <1>10. ASSUME NEW m \in Models, SaveRow(m) PROVE Typed'
    <2>1. PutQuota(loaded.team, m, loaded.edits[m]) \in Requests
      BY RequestsTyped
    <2> QED
      BY <1>9, <1>10, <2>1 DEF SaveRow, histVars
  <1>11. ASSUME NEW v \in 0..MaxQuota, Add(v) PROVE Typed'
    <2>1. PutQuota(loaded.team, newModel, v) \in Requests
      BY RequestsTyped
    <2> QED
      BY <1>9, <1>11, <2>1 DEF Add, histVars
  <1>12. ASSUME Load PROVE Typed'
    <2>1. ListQuotas(team) \in Requests
      BY RequestsTyped
    <2> QED
      BY <1>9, <1>12, <2>1 DEF Load, histVars
  <1>13. ASSUME NEW k \in models, RemoveAllowed(k) PROVE Typed'
    <2>1. Remove(k.model, k.endpoint, IF k.region = NoRegion THEN Missing ELSE k.region)
            \in Requests
      BY RequestsTyped DEF Entries
    <2> QED
      BY <1>9, <1>13, <2>1 DEF RemoveAllowed, histVars
  <1>14. ASSUME AllowModel PROVE Typed'
    <2>1. Allow(pick.model, pick.endpoint, pick.region) \in Requests
      BY RequestsTyped
    <2>2. doubtful' \subseteq Entries
      BY <1>14, EntryTyped DEF AllowModel
    <2> QED
      BY <1>9, <1>14, <2>1, <2>2 DEF AllowModel
  <1> QED
    BY <1>3, <1>4, <1>5, <1>6, <1>7, <1>8, <1>10, <1>11, <1>12, <1>13, <1>14 DEF Operator

(* What only answers, and requests from elsewhere, leave alone.            *)
LEMMA TypedServed ==
  ASSUME Typed, NEW q \in Requests, Valid(q), Store(q),
         unsure' \subseteq Teams,
         UNCHANGED <<pageVars, loading, reads, typedFor, moved, doubtful, inputs>>,
         call' \in Calls, others' \in 0..MaxOther,
         call'.at = "back" /\ call'.req.op \in {"putQuota", "listQuotas"} =>
           call'.req.team \in Teams
  PROVE  Typed'
  <1>1. StoreTypeOK'
    BY StoreTyped DEF Typed, TypeOK
  <1> QED
    BY <1>1 DEF Typed, TypeOK, pageVars, Calls

LEMMA QuotasShown ==
  ASSUME NEW t \in Teams \cup {Missing}, NEW rows \in SUBSET (Models \X (1..MaxQuota)),
         ShowQuotas(t, rows)
  PROVE  loaded' \in [team : Teams \cup {Missing}, quotas : [Models -> 0..MaxQuota],
                      edits : [Models -> 0..MaxQuota]]
  <1> DEFINE shown(m) == IF \E v \in 1..MaxQuota : <<m, v>> \in rows
                         THEN CHOOSE v \in 1..MaxQuota : <<m, v>> \in rows ELSE 0
  <1>1. \A m \in Models : shown(m) \in 0..MaxQuota
    <2> SUFFICES ASSUME NEW m \in Models PROVE shown(m) \in 0..MaxQuota
      OBVIOUS
    <2>1. CASE \E v \in 1..MaxQuota : <<m, v>> \in rows
      <3>1. shown(m) \in 1..MaxQuota
        BY <2>1
      <3> HIDE DEF shown
      <3> QED
        BY <3>1
    <2>2. CASE ~ \E v \in 1..MaxQuota : <<m, v>> \in rows
      BY <2>2
    <2> QED
      BY <2>1, <2>2
  <1>2. loaded' = [team |-> t, quotas |-> [m \in Models |-> shown(m)],
                   edits |-> [m \in Models |-> shown(m)]]
    BY DEF ShowQuotas
  <1> HIDE DEF shown
  <1> QED
    BY <1>1, <1>2

LEMMA TypedCall ==
  ASSUME Typed, CallStep
  PROVE  Typed'
  <1>1. /\ call.req \in Requests /\ call.ans \in Answers /\ call.reload \in Teams \cup {Missing}
        /\ call.req.team \in Teams \cup {Missing} /\ call.ans.entries \subseteq Entries
        /\ call.ans.budgets \subseteq Models \X (1..MaxQuota) /\ StoreTypeOK
        /\ loaded.team \in Teams \cup {Missing}
    BY DEF Typed, TypeOK, Calls, Requests, Answers
  <1>2. CASE ServeCall
    <2>1. Reply(call.req) \in Answers
      BY <1>1, <1>2, ReplyTyped DEF ServeCall, Valid, Requests
    <2>2. call' \in Calls /\ call'.req = call.req
      <3>1. PICK c \in Calls, a \in Answers : c = call /\ a = Reply(call.req)
        BY <2>1 DEF Typed
      <3>2. call' = [c EXCEPT !.at = "back", !.ans = a]
        BY <1>2, <3>1 DEF ServeCall
      <3> QED
        BY <3>1, <3>2 DEF Calls
    <2>3. call.req.op \in {"putQuota", "listQuotas"} => call.req.team \in Teams
      BY <1>1, <1>2 DEF ServeCall, Valid
    <2> QED
      BY <1>1, <1>2, <2>2, <2>3, TypedServed DEF ServeCall, Typed, TypeOK
  <1>3. ASSUME UNCHANGED <<storeVars, team, catalog, pick, loading, inputs, others, moved,
                           doubtful>>,
               call' \in Calls, call'.at # "back", reads' \in {reads, Refresh}, unsure' \subseteq Teams,
               models' \subseteq Entries, newModel' \in Models \cup {Missing},
               loaded' \in [team : Teams \cup {Missing}, quotas : [Models -> 0..MaxQuota],
                            edits : [Models -> 0..MaxQuota]]
        PROVE  Typed'
    BY <1>1, <1>3, ReadsTyped DEF Typed, TypeOK, storeVars, StoreTypeOK, Calls
  <1>4. CASE LandQuotas
    BY <1>1, <1>3, <1>4, NothingCalled, QuotasShown DEF LandQuotas, Typed, TypeOK, NoCall
  <1>5. CASE LandPut
    <2>1. call' \in Calls /\ call'.at # "back"
      <3>1. CASE call.reload # Missing
        <4>1. ListQuotas(call.reload) \in Requests
          BY <1>1, RequestsTyped
        <4>2. PICK q \in Requests : q = ListQuotas(call.reload)
          BY <4>1
        <4>3. call' = [call EXCEPT !.at = "out", !.req = q, !.ans = NoData]
          BY <1>5, <3>1, <4>2 DEF LandPut
        <4> QED
          BY <4>3, AskedAgain
      <3>2. CASE call.reload = Missing
        <4>1. call' = NoCall
          BY <1>5, <3>2 DEF LandPut
        <4>2. NoCall.at = "idle"
          BY DEF NoCall
        <4> QED
          BY <4>1, <4>2, NothingCalled
      <3> QED
        BY <3>1, <3>2
    <2>2. unsure' \subseteq Teams
      BY <1>1, <1>5 DEF LandPut, Typed, TypeOK
    <2> QED
      BY <1>1, <1>3, <1>5, <2>1, <2>2 DEF LandPut, Typed, TypeOK
  <1>6. CASE LandEntry
    <2>1. call' \in Calls /\ call'.at = "out"
      BY <1>1, <1>6, RequestsTyped, AskedAgain DEF LandEntry
    <2>2. pick' \in [endpoint : Endpoints, region : Regions, model : Models \cup {Missing}]
      BY <1>6 DEF LandEntry, Typed, TypeOK
    <2> QED
      BY <1>1, <1>6, <2>1, <2>2
      DEF LandEntry, Typed, TypeOK, storeVars, StoreTypeOK, histVars, Calls
  <1>7. CASE LandEntries
    BY <1>1, <1>3, <1>7, NothingCalled DEF LandEntries, Typed, TypeOK, histVars, NoCall
  <1>8. CASE CallFails
    BY <1>1, <1>3, <1>8, NothingCalled DEF CallFails, Typed, TypeOK, pageVars, NoCall
  <1> QED
    BY <1>2, <1>4, <1>5, <1>6, <1>7, <1>8 DEF CallStep

LEMMA TypedOther ==
  ASSUME Typed, OtherAdministrator
  PROVE  Typed'
  <1>1. PICK q \in Requests : OtherRequest(q)
    BY OthersAsk
  <1>2. unsure' \subseteq Teams
    BY <1>1 DEF OtherRequest, Typed, TypeOK, Valid, Requests
  <1> QED
    BY <1>1, <1>2, TypedServed DEF OtherRequest, callVars, Typed, TypeOK

LEMMA TypedRefresh ==
  ASSUME Typed, CatalogStep \/ ReadStep
  PROVE  Typed'
  <1>2. CASE ServeCatalog
    <2>1. Reply(loading.req) \in Answers
      BY <1>2, ReplyTyped DEF ServeCatalog, Typed, TypeOK, Calls
    <2>2. PICK c \in Calls, a \in Answers : c = loading /\ a = Reply(loading.req)
      BY <2>1 DEF Typed
    <2>3. loading' = [c EXCEPT !.at = "back", !.ans = a]
      BY <1>2, <2>2 DEF ServeCatalog
    <2>4. loading' \in Calls /\ loading'.at = "back" /\ loading'.req = loading.req
      BY <2>2, <2>3 DEF Calls
    <2> QED
      BY <1>2, <2>4
      DEF ServeCatalog, Typed, TypeOK, Calls, storeVars, StoreTypeOK, pageVars, histVars
  <1>3. CASE LandCatalog
    <2>1. PICK b \in BOOLEAN : b = (<<loading.req.endpoint, loading.req.region>>
                                     # <<pick.endpoint, pick.region>>)
      OBVIOUS
    <2>2. moved' = [moved EXCEPT !.list = b]
      BY <1>3, <2>1 DEF LandCatalog
    <2>3. moved' \in [list : BOOLEAN, pick : BOOLEAN]
      BY <2>2 DEF Typed
    <2>4. loading' \in Calls /\ loading'.at = "idle"
      BY <1>3, NothingCalled DEF LandCatalog, NoCall
    <2>5. catalog' \subseteq Models
      BY <1>3 DEF LandCatalog, Typed, Calls, Answers
    <2> QED
      BY <1>3, <2>3, <2>4, <2>5 DEF LandCatalog, Typed, TypeOK, storeVars, StoreTypeOK
  <1>4. CASE CatalogFails
    BY <1>4, NothingCalled
    DEF CatalogFails, Typed, TypeOK, storeVars, StoreTypeOK, histVars, NoCall
  <1>5. ASSUME NEW x \in reads, ServeRead(x) PROVE Typed'
    <2>1. Reply(ListRegistry) \in Answers
      BY ReplyTyped, RequestsTyped, RequestFields DEF Typed, TypeOK
    <2>2. reads' = (reads \ {x}) \cup {[n |-> x.n, at |-> "back", ans |-> Reply(ListRegistry)]}
      BY <1>5 DEF ServeRead
    <2>3. \A y \in reads' : /\ y = [n |-> y.n, at |-> y.at, ans |-> y.ans] /\ y.ans \in Answers
                            /\ y.at \in {"out", "back"}
      BY <2>1, <2>2 DEF Typed, TypeOK
    <2> QED
      BY <1>5, <2>3
      DEF ServeRead, Typed, TypeOK, storeVars, StoreTypeOK, pageVars, histVars
  <1>6. ASSUME NEW x \in reads, LandRead(x) \/ ReadFails(x) PROVE Typed'
    BY <1>6 DEF LandRead, ReadFails, Typed, TypeOK, Answers, storeVars, StoreTypeOK, pageVars,
                histVars
  <1> QED
    BY <1>2, <1>3, <1>4, <1>5, <1>6 DEF CatalogStep, ReadStep

LEMMA TypedStep ==
  ASSUME Typed, [Next]_vars
  PROVE  Typed'
  <1>1. CASE UNCHANGED vars
    BY <1>1
    DEF vars, storeVars, pageVars, callVars, histVars, Typed, TypeOK, StoreTypeOK
  <1> QED
    BY <1>1, TypedOperator, TypedOther, TypedCall, TypedRefresh DEF Next

LEMMA TypedInit == Init => Typed
  BY NothingCalled, EntryTyped
  DEF Init, Typed, TypeOK, StoreInit, StoreTypeOK, NoRows, Entry, Entries, Endpoints, NoCall

-----------------------------------------------------------------------------
(* Rows and budgets.                                                       *)

(* The operator's inputs leave the stores and the numbers shown alone, and *)
(* send at most one request, when none is under way.                       *)
LEMMA OperatorSends ==
  ASSUME Typed, EditsOfTeam, Operator
  PROVE  /\ UNCHANGED <<quota, registry, unsure>>
         /\ loaded'.team = loaded.team /\ loaded'.quotas = loaded.quotas
         /\ typedFor' = typedFor
         /\ \/ call' = call
            \/ /\ call.at = "idle" /\ call'.at = "out"
               /\ call'.req.op = "listQuotas" => call'.by = "load"
               /\ call'.req.op = "putQuota" =>
                    /\ call'.by \in {"save", "add"}
                    /\ call'.req.team = loaded.team /\ call'.req.model \in Models
  <1> USE DEF Typed, TypeOK
  <1>1. UNCHANGED <<quota, registry>>
    BY DEF Operator, TypeTeam, PickNewModel, SaveRow, PickModel, EditRow, Add, Choose,
           RemoveAllowed, Load, LoadCatalog, AllowModel, Input, storeVars
  <1>2. CASE \E m \in Models, v \in 0..MaxQuota : EditRow(m, v)
    BY <1>1, <1>2 DEF EditRow, callVars, EditsOfTeam
  <1>3. ASSUME UNCHANGED <<loaded, typedFor, unsure>>,
               NEW b \in {"load", "save", "add", "allow", "remove"}, NEW q \in Requests,
               Call(b, q), q.op = "listQuotas" => b = "load",
               q.op = "putQuota" =>
                 b \in {"save", "add"} /\ q.team = loaded.team /\ q.model \in Models
        PROVE  /\ UNCHANGED <<loaded, typedFor, unsure>>
               /\ call.at = "idle" /\ call'.at = "out"
               /\ call'.req.op = "listQuotas" => call'.by = "load"
               /\ call'.req.op = "putQuota" =>
                    /\ call'.by \in {"save", "add"}
                    /\ call'.req.team = loaded.team /\ call'.req.model \in Models
    BY <1>3, CallTyped
  <1>4. CASE \E m \in Models : SaveRow(m)
    <2>1. PICK m \in Models : SaveRow(m)
      BY <1>4
    <2>2. PutQuota(loaded.team, m, loaded.edits[m]) \in Requests
      BY RequestsTyped
    <2> QED
      BY <1>1, <1>3, <2>1, <2>2, RequestFields DEF SaveRow, pageVars, histVars
  <1>5. CASE \E v \in 0..MaxQuota : Add(v)
    <2>1. PICK v \in 0..MaxQuota : Add(v)
      BY <1>5
    <2>2. PutQuota(loaded.team, newModel, v) \in Requests /\ newModel \in Models
      BY <2>1, RequestsTyped DEF Add
    <2> QED
      BY <1>1, <1>3, <2>1, <2>2, RequestFields DEF Add, pageVars, histVars
  <1>6. CASE Load
    <2>1. ListQuotas(team) \in Requests
      BY RequestsTyped
    <2> QED
      BY <1>1, <1>3, <1>6, <2>1, RequestFields DEF Load, pageVars, histVars
  <1>7. CASE \E k \in models : RemoveAllowed(k)
    <2>1. PICK k \in models : RemoveAllowed(k)
      BY <1>7
    <2>2. Remove(k.model, k.endpoint, IF k.region = NoRegion THEN Missing ELSE k.region)
            \in Requests
      BY RequestsTyped DEF Entries
    <2> QED
      BY <1>1, <1>3, <2>1, <2>2, RequestFields DEF RemoveAllowed, pageVars, histVars
  <1>8. CASE AllowModel
    <2>1. Allow(pick.model, pick.endpoint, pick.region) \in Requests
      BY RequestsTyped
    <2> QED
      BY <1>1, <1>3, <1>8, <2>1, RequestFields DEF AllowModel, pageVars
  <1> QED
    BY <1>1, <1>2, <1>4, <1>5, <1>6, <1>7, <1>8
    DEF Operator, TypeTeam, PickNewModel, PickModel, Choose, LoadCatalog, callVars, histVars

(* An answer ends the call or asks for one of the lists.                   *)
LEMMA AnswerEnds ==
  ASSUME Typed, LandPut \/ LandEntry
  PROVE  \/ LandPut /\ call.reload = Missing /\ call' = NoCall
         \/ /\ call'.at = "out" /\ call'.by = call.by
            /\ \/ LandPut /\ call.reload # Missing /\ call'.req.op = "listQuotas"
               \/ LandEntry /\ call'.req.op = "listModelRegistry"
  <1>1. CASE LandEntry
    BY <1>1, AskedAgain, RequestsTyped, RequestFields DEF LandEntry
  <1>2. CASE LandPut /\ call.reload # Missing
    <2>1. PICK q \in Requests : q = ListQuotas(call.reload)
      BY RequestsTyped DEF Typed, Calls
    <2>2. q.op = "listQuotas"
      BY <2>1, RequestFields
    <2>3. call' = [call EXCEPT !.at = "out", !.req = q, !.ans = NoData]
      BY <1>2, <2>1 DEF LandPut
    <2> QED
      BY <1>2, <2>2, <2>3, AskedAgain
  <1>3. CASE LandPut /\ call.reload = Missing
    BY <1>3 DEF LandPut
  <1> QED
    BY <1>1, <1>2, <1>3

LEMMA CallServed ==
  ASSUME Typed, ServeCall
  PROVE  /\ call.req \in Requests /\ Valid(call.req) /\ Store(call.req)
         /\ call.at = "out" /\ call'.at = "back"
         /\ call'.by = call.by /\ call'.req = call.req
         /\ call'.ans = Reply(call.req)
         /\ UNCHANGED <<pageVars, loading, typedFor, moved, doubtful>>
  <1>1. PICK c \in Calls, a \in Answers : c = call /\ a = Reply(call.req)
    BY ReplyTyped DEF ServeCall, Typed, TypeOK, Calls, Valid, Requests
  <1>2. call' = [c EXCEPT !.at = "back", !.ans = a]
    BY <1>1 DEF ServeCall
  <1> QED
    BY <1>1, <1>2 DEF ServeCall, Calls

LEMMA EditsStep ==
  ASSUME Typed, EditsOfTeam, [Next]_vars
  PROVE  EditsOfTeam'
  <1> USE DEF EditsOfTeam
  <1>1. CASE Operator
    BY <1>1, OperatorSends
  <1>2. CASE ServeCall
    BY <1>2, CallServed DEF pageVars
  <1>3. CASE LandQuotas
    BY <1>3 DEF LandQuotas, ShowQuotas, NoCall
  <1>4. CASE LandPut \/ LandEntry
    BY <1>4, AnswerEnds DEF LandPut, LandEntry, NoCall, histVars
  <1>5. CASE LandEntries \/ CallFails
    BY <1>5 DEF LandEntries, CallFails, NoCall, pageVars, histVars
  <1>6. CASE OtherAdministrator
    BY <1>6, OthersAsk DEF OtherRequest, pageVars, callVars
  <1>7. CASE CatalogStep \/ ReadStep \/ UNCHANGED vars
    BY <1>7
    DEF CatalogStep, ServeCatalog, LandCatalog, CatalogFails, ReadStep, ServeRead, LandRead,
        ReadFails, vars, pageVars, callVars, histVars
  <1> QED
    BY <1>1, <1>2, <1>3, <1>4, <1>5, <1>6, <1>7 DEF Next, CallStep

-----------------------------------------------------------------------------
(* The table.                                                              *)

(* Only a put changes a budget, that of its own team.                      *)
LEMMA PutsOnly ==
  ASSUME Typed, NEW q \in Requests, Store(q)
  PROVE  /\ q.op # "putQuota" => quota' = quota
         /\ \A t \in Teams, m \in Models :
              t # q.team => quota'[<<t, m>>] = quota[<<t, m>>]
  BY DEF Store, SetQuota, Typed, TypeOK, StoreTypeOK

(* What the page makes of an answer is the stored number.                  *)
LEMMA ShownBudget ==
  ASSUME StoreTypeOK, NEW t \in Teams, ShowQuotas(t, Budgets(t)), NEW m \in Models
  PROVE  loaded'.team = t /\ loaded'.quotas[m] = quota[<<t, m>>]
  <1> DEFINE stored(v) == <<m, v>> \in Budgets(t)
             shown == IF \E v \in 1..MaxQuota : stored(v)
                      THEN CHOOSE v \in 1..MaxQuota : stored(v) ELSE 0
  <1>1. loaded'.team = t /\ loaded'.quotas[m] = shown
    BY DEF ShowQuotas
  <1>2. quota[<<t, m>>] \in 0..MaxQuota
    BY DEF StoreTypeOK
  <1>3. \A v \in 1..MaxQuota : stored(v) <=> quota[<<t, m>>] = v
    BY DEF Budgets
  <1> HIDE DEF stored
  <1>4. CASE quota[<<t, m>>] = 0
    BY <1>1, <1>3, <1>4
  <1>5. CASE quota[<<t, m>>] # 0
    <2>1. \E v \in 1..MaxQuota : stored(v)
      BY <1>2, <1>3, <1>5
    <2> QED
      BY <1>1, <1>3, <2>1
  <1> QED
    BY <1>4, <1>5

LEMMA FreshStep ==
  ASSUME Typed, EditsOfTeam, TableFresh, [Next]_vars
  PROVE  TableFresh'
  <1> USE DEF TableFresh, Overdue
  <1>0. loaded.team \in Teams \cup {Missing} /\ call.req \in Requests /\ StoreTypeOK
    BY DEF Typed, TypeOK, Calls
  <1>1. CASE Operator
    BY <1>1, OperatorSends DEF Budgets
  <1>2. CASE ServeCall
    <2>1. CASE call.req.op = "listQuotas"
      <3>1. /\ call'.at = "back" /\ call'.by = call.by /\ call'.req = call.req
            /\ call'.ans = Reply(call.req) /\ loaded' = loaded /\ quota' = quota
            /\ call.at = "out" /\ unsure' = unsure \ {call.req.team}
        BY <1>2, <2>1, CallServed, PutsOnly DEF ServeCall, pageVars
      <3>2. Reply(call.req).budgets = Budgets(call.req.team)
        BY <2>1 DEF Reply, NoData
      <3> QED
        BY <2>1, <3>1, <3>2 DEF Budgets
    <2>2. CASE call.req.op = "putQuota"
      BY <1>2, <2>2, CallServed
    <2>3. CASE call.req.op \notin {"putQuota", "listQuotas"}
      BY <1>2, <2>3, CallServed, PutsOnly DEF ServeCall, pageVars
    <2> QED
      BY <2>1, <2>2, <2>3
  <1>3. CASE LandQuotas
    <2>1. call'.at = "idle" /\ quota' = quota /\ unsure' = unsure
      BY <1>3 DEF LandQuotas, NoCall, storeVars
    <2>2. loaded'.team = call.req.team
      BY <1>3 DEF LandQuotas, ShowQuotas
    <2>3. ASSUME call.req.team \notin unsure \cup {Missing}, NEW m \in Models
          PROVE  loaded'.quotas[m] = quota[<<call.req.team, m>>]
      <3>1. call.req.team \in Teams /\ call.ans.budgets = Budgets(call.req.team)
        BY <1>0, <1>3, <2>3 DEF LandQuotas, Requests
      <3> QED
        BY <1>0, <1>3, <3>1, ShownBudget DEF LandQuotas
    <2> QED
      BY <2>1, <2>2, <2>3
  <1>4. CASE LandPut
    <2>1. loaded' = loaded /\ quota' = quota /\ unsure \subseteq unsure'
      BY <1>4 DEF LandPut, storeVars
    <2>2. call.by \in {"save", "add"} /\ call.req.team = loaded.team
      BY <1>4 DEF LandPut, EditsOfTeam
    <2>3. CASE call.reload = Missing
      BY <1>4, <2>1, <2>2, <2>3 DEF LandPut, NoCall
    <2>4. CASE call.reload # Missing
      <3>1. call'.at = "out" /\ call'.by = call.by /\ call'.req.op = "listQuotas"
        BY <1>4, <2>4, AnswerEnds DEF LandEntry, LandPut
      <3> QED
        BY <2>1, <2>2, <3>1
    <2> QED
      BY <2>3, <2>4
  <1>5. CASE LandEntry
    BY <1>5, AnswerEnds DEF LandEntry, LandPut, storeVars, histVars, NoCall
  <1>6. CASE LandEntries
    BY <1>6 DEF LandEntries, storeVars, histVars, NoCall
  <1>7. CASE CallFails
    <2>1. /\ call'.at = "idle" /\ loaded' = loaded /\ quota' = quota
          /\ unsure \subseteq unsure' /\ {call.req.team} \ {Missing} \subseteq unsure'
          /\ call.by \in {"save", "add"} => {loaded.team} \ {Missing} \subseteq unsure'
      BY <1>7 DEF CallFails, storeVars, pageVars, NoCall
    <2>2. Overdue => loaded.team \in {call.req.team} \/ call.by \in {"save", "add"}
      BY DEF EditsOfTeam
    <2> QED
      BY <2>1, <2>2
  <1>8. CASE OtherAdministrator
    <2>1. PICK q \in Requests : OtherRequest(q)
      BY <1>8, OthersAsk
    <2>2. loaded' = loaded /\ call' = call
      BY <2>1 DEF OtherRequest, pageVars, callVars
    <2>3. CASE q.op # "putQuota"
      BY <2>1, <2>2, <2>3, PutsOnly DEF OtherRequest, Budgets
    <2>4. CASE q.op = "putQuota"
      <3>1. unsure' = unsure \cup {q.team}
        BY <2>1, <2>4 DEF OtherRequest
      <3>2. \A t \in Teams, m \in Models :
              t # q.team => quota'[<<t, m>>] = quota[<<t, m>>]
        <4>1. Store(q)
          BY <2>1 DEF OtherRequest
        <4> QED
          BY <4>1, PutsOnly
      <3>3. \A t \in Teams : t # q.team => Budgets(t)' = Budgets(t)
        BY <3>2 DEF Budgets
      <3>4. call.at = "back" /\ call.req.op = "listQuotas" => call.req.team \in Teams
        BY DEF Typed
      <3> QED
        BY <1>0, <2>2, <3>1, <3>2, <3>3, <3>4
    <2> QED
      BY <2>3, <2>4
  <1>9. CASE CatalogStep \/ ReadStep \/ UNCHANGED vars
    BY <1>9
    DEF CatalogStep, ServeCatalog, LandCatalog, CatalogFails, ReadStep, ServeRead, LandRead,
        ReadFails, vars, pageVars, callVars, histVars, storeVars, Budgets
  <1> QED
    BY <1>1, <1>2, <1>3, <1>4, <1>5, <1>6, <1>7, <1>8, <1>9 DEF Next, CallStep

-----------------------------------------------------------------------------
(* The allow-list.                                                         *)

(* The allow-list after a request that is served.                          *)
LEMMA EntriesServed ==
  ASSUME NEW q \in Requests, Store(q)
  PROVE  LET k == Entry(q.model, q.endpoint, q.region) IN
         \/ q.op = "putModelRegistryEntry" /\ registry' = registry \cup {k}
         \/ q.op = "deleteModelRegistryEntry" /\ registry' = registry \ {k}
         \/ /\ q.op \notin {"putModelRegistryEntry", "deleteModelRegistryEntry"}
            /\ registry' = registry
  BY DEF Store

LEMMA OperatorLists ==
  ASSUME Typed, ListsOffered, Operator
  PROVE  ListsOffered'
  <1> USE DEF ListsOffered, Typed, TypeOK
  <1>1. ASSUME UNCHANGED <<loading, moved, catalog, pick>> PROVE ListsOffered'
    BY <1>1 DEF Catalog
  <1>2. CASE LoadCatalog
    BY <1>2 DEF LoadCatalog, histVars, NoCall, Catalog
  <1>3. CASE \E e \in Endpoints, r \in Regions : Choose(e, r)
    BY <1>3 DEF Choose, callVars, Catalog
  <1>4. CASE \E m \in Models : PickModel(m)
    BY <1>4 DEF PickModel, callVars, Catalog
  <1> QED
    BY <1>1, <1>2, <1>3, <1>4
    DEF Operator, TypeTeam, PickNewModel, SaveRow, EditRow, Add, RemoveAllowed, Load,
        AllowModel, Call, pageVars, callVars, histVars

LEMMA OperatorPuts ==
  ASSUME Typed, ListsOffered, PutOffered, Operator
  PROVE  PutOffered' /\ doubtful \subseteq doubtful'
  <1> USE DEF PutOffered, Typed, TypeOK
  <1>1. CASE AllowModel
    <2>1. Allow(pick.model, pick.endpoint, pick.region) \in Requests
      BY RequestsTyped
    <2>2. PICK q \in Requests : q = Allow(pick.model, pick.endpoint, pick.region)
      BY <2>1
    <2>3. call'.req = q
      BY <1>1, <2>2, CallTyped DEF AllowModel
    <2>4. q.model = pick.model /\ q.endpoint = pick.endpoint /\ q.region = pick.region
      BY <2>2, RequestFields
    <2>5. Entry(pick.model, pick.endpoint, pick.region) \in doubtful'
            \/ Offered(Entry(pick.model, pick.endpoint, pick.region))
      BY <1>1 DEF AllowModel, ListsOffered, Offered, Entry
    <2> QED
      BY <1>1, <2>3, <2>4, <2>5 DEF AllowModel, Offered, Catalog
  <1>2. CASE doubtful' = doubtful /\ call' = call
    BY <1>2 DEF Offered, Catalog
  <1>3. ASSUME doubtful' = doubtful, NEW b \in {"load", "save", "add", "allow", "remove"},
               NEW q \in Requests, Call(b, q), q.op # "putModelRegistryEntry"
        PROVE  PutOffered' /\ doubtful \subseteq doubtful'
    BY <1>3, CallTyped
  <1>4. ASSUME NEW m \in Models, SaveRow(m) PROVE PutOffered' /\ doubtful \subseteq doubtful'
    <2>1. PutQuota(loaded.team, m, loaded.edits[m]) \in Requests
      BY RequestsTyped
    <2> QED
      BY <1>3, <1>4, <2>1, RequestFields DEF SaveRow, histVars
  <1>5. ASSUME NEW v \in 0..MaxQuota, Add(v) PROVE PutOffered' /\ doubtful \subseteq doubtful'
    <2>1. PutQuota(loaded.team, newModel, v) \in Requests
      BY RequestsTyped
    <2> QED
      BY <1>3, <1>5, <2>1, RequestFields DEF Add, histVars
  <1>6. CASE Load
    <2>1. ListQuotas(team) \in Requests
      BY RequestsTyped
    <2> QED
      BY <1>3, <1>6, <2>1, RequestFields DEF Load, histVars
  <1>7. ASSUME NEW k \in models, RemoveAllowed(k)
        PROVE  PutOffered' /\ doubtful \subseteq doubtful'
    <2>1. Remove(k.model, k.endpoint, IF k.region = NoRegion THEN Missing ELSE k.region)
            \in Requests
      BY RequestsTyped DEF Entries
    <2> QED
      BY <1>3, <1>7, <2>1, RequestFields DEF RemoveAllowed, histVars
  <1> QED
    BY <1>1, <1>2, <1>4, <1>5, <1>6, <1>7
    DEF Operator, TypeTeam, PickNewModel, PickModel, EditRow, Choose, LoadCatalog, callVars,
        histVars

LEMMA OfferedStep ==
  ASSUME Typed, EditsOfTeam, PicksOffered, [Next]_vars
  PROVE  PicksOffered'
  <1> USE DEF PicksOffered
  <1> DEFINE asked == Entry(call.req.model, call.req.endpoint, call.req.region)
  <1>1. CASE Operator
    BY <1>1, OperatorLists, OperatorPuts, OperatorSends DEF AllowedWhenSteady, Offered, Catalog
  <1>2. CASE UNCHANGED <<loading, moved, doubtful, registry, pick, catalog, call>>
    BY <1>2 DEF ListsOffered, PutOffered, AllowedWhenSteady, Offered, Catalog
  <1>3. ASSUME UNCHANGED <<loading, moved, doubtful, pick, catalog>>,
               NEW q \in Requests, Store(q),
               q.op = "putModelRegistryEntry" =>
                 LET k == Entry(q.model, q.endpoint, q.region) IN k \in doubtful \/ Offered(k)
        PROVE  ListsOffered' /\ AllowedWhenSteady'
    <2>1. \A k \in registry' : k \in registry \/ k \in doubtful \/ Offered(k)
      BY <1>3, EntriesServed
    <2>2. ListsOffered'
      BY <1>3 DEF ListsOffered, Catalog
    <2> QED
      BY <1>3, <2>1, <2>2 DEF AllowedWhenSteady, Offered, Catalog
  <1>4. CASE ServeCall
    <2>1. ListsOffered' /\ AllowedWhenSteady'
      BY <1>3, <1>4, CallServed DEF pageVars, PutOffered
    <2> QED
      BY <1>4, <2>1, CallServed DEF PutOffered, Offered, Catalog
  <1>5. CASE OtherAdministrator
    <2>1. ListsOffered' /\ AllowedWhenSteady'
      BY <1>3, <1>5, OthersAsk DEF OtherRequest, pageVars, callVars
    <2> QED
      BY <1>5, <2>1, OthersAsk DEF OtherRequest, callVars, PutOffered, Offered, Catalog
  <1>6. ASSUME UNCHANGED <<loading, moved, doubtful, registry, catalog>>,
               pick' \in {pick, [pick EXCEPT !.model = Missing]},
               call'.at = "idle" \/ call'.req.op # "putModelRegistryEntry"
        PROVE  PicksOffered'
    <2>1. /\ pick'.endpoint = pick.endpoint /\ pick'.region = pick.region
          /\ pick'.model \in {pick.model, Missing}
      BY <1>6 DEF Typed, TypeOK
    <2> QED
      BY <1>6, <2>1 DEF ListsOffered, PutOffered, AllowedWhenSteady, Offered, Catalog
  <1>7. CASE LandQuotas \/ LandEntries \/ CallFails
    BY <1>6, <1>7
    DEF LandQuotas, LandEntries, CallFails, NoCall, storeVars, pageVars, histVars
  <1>8. CASE LandPut \/ LandEntry
    BY <1>6, <1>8, AnswerEnds DEF LandPut, LandEntry, NoCall, storeVars, histVars
  <1>9. ASSUME UNCHANGED <<call, doubtful, registry, pick>>, ListsOffered'
        PROVE  PicksOffered'
    BY <1>9 DEF PutOffered, AllowedWhenSteady, Offered, Catalog
  <1>10. CASE ServeCatalog
    <2>1. PICK c \in Calls, a \in Answers : c = loading /\ a = Reply(loading.req)
      BY <1>10, ReplyTyped DEF ServeCatalog, Typed, TypeOK, Calls
    <2>2. loading' = [c EXCEPT !.at = "back", !.ans = a]
      BY <1>10, <2>1 DEF ServeCatalog
    <2>3. loading'.req = loading.req /\ loading'.ans = Reply(loading.req)
      BY <2>1, <2>2 DEF Calls
    <2>4. Reply(loading.req).ids = Catalog(loading.req.endpoint, loading.req.region)
      BY <1>10 DEF ServeCatalog, Typed, Reply, NoData
    <2>5. ListsOffered'
      BY <1>10, <2>3, <2>4 DEF ServeCatalog, pageVars, histVars, ListsOffered, Catalog
    <2> QED
      BY <1>9, <1>10, <2>5 DEF ServeCatalog, storeVars, pageVars, histVars
  <1>11. CASE LandCatalog
    <2>1. /\ loading'.at = "idle" /\ pick' = pick
          /\ catalog' = Catalog(loading.req.endpoint, loading.req.region)
      BY <1>11 DEF LandCatalog, NoCall, ListsOffered
    <2>2. /\ moved'.pick = moved.pick
          /\ ~moved'.list => loading.req.endpoint = pick.endpoint
                              /\ loading.req.region = pick.region
      BY <1>11 DEF LandCatalog, Typed
    <2>3. ListsOffered'
      BY <2>1, <2>2 DEF ListsOffered, Catalog
    <2> QED
      BY <1>9, <1>11, <2>3 DEF LandCatalog, storeVars
  <1>12. CASE CatalogFails
    <2>1. ListsOffered'
      BY <1>12 DEF CatalogFails, NoCall, histVars, ListsOffered, Catalog
    <2> QED
      BY <1>9, <1>12, <2>1 DEF CatalogFails, storeVars, histVars
  <1>13. CASE ReadStep \/ UNCHANGED vars
    BY <1>2, <1>13
    DEF ReadStep, ServeRead, LandRead, ReadFails, vars, storeVars, pageVars, callVars, histVars
  <1> QED
    BY <1>1, <1>4, <1>5, <1>7, <1>8, <1>10, <1>11, <1>12, <1>13 DEF Next, CallStep, CatalogStep

-----------------------------------------------------------------------------
(* The invariant and the theorems.                                         *)

LEMMA ConsoleInit == Init => ConsoleInv
  <1> SUFFICES ASSUME Init PROVE ConsoleInv
    OBVIOUS
  <1>1. Typed
    BY TypedInit
  <1>2. EditsOfTeam
    BY DEF Init, EditsOfTeam, NoCall
  <1>3. TableFresh
    BY DEF Init, TableFresh, NoCall
  <1>4. ListsOffered /\ PutOffered
    BY DEF Init, ListsOffered, PutOffered, NoCall
  <1>5. AllowedWhenSteady
    BY DEF Init, AllowedWhenSteady, StoreInit, Offered, Entry
  <1> QED
    BY <1>1, <1>2, <1>3, <1>4, <1>5 DEF ConsoleInv, PicksOffered

LEMMA ConsoleStep == ConsoleInv /\ [Next]_vars => ConsoleInv'
  BY TypedStep, EditsStep, FreshStep, OfferedStep DEF ConsoleInv

LEMMA ConsoleInvariant == Spec => []ConsoleInv
  BY ConsoleInit, ConsoleStep, PTL DEF Spec

(* The page and the stores keep their types under every order of answers.  *)
THEOREM ConsoleTypes == Spec => []TypeOK
  <1>1. ConsoleInv => TypeOK
    BY DEF ConsoleInv, Typed
  <1> QED
    BY <1>1, ConsoleInvariant, PTL

(* A saved row goes to the team it was typed under, however the operator   *)
(* types, loads and saves and whatever fails (handleSaveRow, handleLoad).  *)
THEOREM SavedToItsTeam == Spec => []SavedWhereTyped
  <1>1. ConsoleInv => SavedWhereTyped
    BY DEF ConsoleInv, EditsOfTeam, SavedWhereTyped, Typed
  <1> QED
    BY <1>1, ConsoleInvariant, PTL

(* Between calls the table shows what is stored for its team, but for      *)
(* writes from elsewhere and lost answers (handleSaveRow, handleAddBudget).*)
THEOREM TableIsStored == Spec => []ShownIsStored
  <1>1. ConsoleInv => ShownIsStored
    BY DEF ConsoleInv, TableFresh, Overdue, ShownIsStored, busy
  <1> QED
    BY <1>1, ConsoleInvariant, PTL

(* What was allowed from a list asked for with the dropdowns as they are   *)
(* can be invoked there (refreshCatalog, handleAllowModel).                *)
THEOREM AllowedCanBeInvoked == Spec => []AllowedWhenSteady
  <1>1. ConsoleInv => AllowedWhenSteady
    BY DEF ConsoleInv, PicksOffered
  <1> QED
    BY <1>1, ConsoleInvariant, PTL
=============================================================================
