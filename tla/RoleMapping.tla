----------------------------- MODULE RoleMapping -----------------------------
(***************************************************************************)
(* The Team_Role_Cache (src/teamRoleCache.ts) between the team tags of IAM *)
(* and the handlers that ask for a role's team.                            *)
(*                                                                         *)
(* resolveTeam is three calls with nothing held between them: it reads the *)
(* row, reads the tags of the role when the row will not do, and writes    *)
(* back what it read.  TagRole events and the administrator's              *)
(* mapRoleToTeam write rows at any moment, DynamoDB expires some of them.  *)
(* A module that calls resolveTeam extends this one: res[w] is the call in *)
(* progress in invocation w.                                               *)
(***************************************************************************)
EXTENDS Naturals

CONSTANTS
  Roles,      \* IAM roles
  Teams,      \* values of the team tag
  Unmapped,   \* UNMAPPED_ROLE, the team of a role without the tag
  None,       \* no value
  Callers     \* concurrent invocations that call resolveTeam

Owners == Teams \cup {Unmapped}
Lives  == {"absent", "durable", "fresh", "expired"}

ASSUME RoleMappingAssumption ==
  /\ Unmapped \notin Teams
  /\ None \notin Owners
  /\ None \notin Roles

VARIABLES
  tagOf,       \* [Roles -> Owners]: the team tag in IAM
  row,         \* [Roles -> Row]: the Team_Role_Cache
  tagEvents,   \* TagRole events still to be delivered: a set of <<role, team>>
  res,         \* [Callers -> the resolveTeam call in progress]
  \* History, read by no action:
  held,        \* <<role, owner>> that the tag or an administrator ever said
  unresolved   \* roles whose tags could not be read when they had no row

mappingVars == <<tagOf, row, tagEvents, res, held, unresolved>>

(* A row without a ttl is durable; one with a ttl is fresh until it passes *)
(* and stays readable, expired, until DynamoDB deletes it.                 *)
Row    == [team : Owners \cup {None}, life : Lives]
Absent == [team |-> None, life |-> "absent"]

Resolution == [pc : {"idle", "iam", "put", "done"}, role : Roles \cup {None},
               stale : Owners \cup {None}, team : Owners \cup {None}]
NoCall == [pc |-> "idle", role |-> None, stale |-> None, team |-> None]

MappingTypeOK ==
  /\ tagOf \in [Roles -> Owners]
  /\ row \in [Roles -> Row]
  /\ tagEvents \subseteq Roles \X Teams
  /\ res \in [Callers -> Resolution]
  /\ held \subseteq Roles \X Owners
  /\ unresolved \subseteq Roles

MappingInit ==
  /\ tagOf \in [Roles -> Owners]
  /\ row = [r \in Roles |-> Absent]
  /\ tagEvents = {}
  /\ res = [w \in Callers |-> NoCall]
  /\ held = {rt \in Roles \X Owners : tagOf[rt[1]] = rt[2]}
  /\ unresolved = {}

-----------------------------------------------------------------------------
(* Tags, events, administrators, expiry.                                   *)

(* Someone changes the tag in IAM; CloudTrail reports TagRole.  UntagRole  *)
(* is reported too and the handler ignores it.                             *)
ChangeTag(r, o) ==
  /\ tagOf[r] # o
  /\ tagOf' = [tagOf EXCEPT ![r] = o]
  /\ tagEvents' = IF o = Unmapped THEN tagEvents ELSE tagEvents \cup {<<r, o>>}
  /\ held' = held \cup {<<r, o>>}
  /\ UNCHANGED <<row, res, unresolved>>

(* cacheRoleTeam: no ttl.                                                  *)
CacheRoleTeam(r, t) == row' = [row EXCEPT ![r] = [team |-> t, life |-> "durable"]]

(* The TagRole handler's first call.  Events come in any order and may     *)
(* come again.                                                             *)
DeliverTagRole(r, t) ==
  /\ <<r, t>> \in tagEvents
  /\ CacheRoleTeam(r, t)
  /\ tagEvents' \in {tagEvents, tagEvents \ {<<r, t>>}}
  /\ UNCHANGED <<tagOf, res, held, unresolved>>

MapRoleToTeam(r, t) ==
  /\ CacheRoleTeam(r, t)
  /\ held' = held \cup {<<r, t>>}
  /\ UNCHANGED <<tagOf, tagEvents, res, unresolved>>

(* A row's ttl passes; some time later DynamoDB deletes the row.           *)
PassTtl(r) ==
  /\ row[r].life = "fresh"
  /\ row' = [row EXCEPT ![r].life = "expired"]
  /\ UNCHANGED <<tagOf, tagEvents, res, held, unresolved>>

DeleteExpired(r) ==
  /\ row[r].life = "expired"
  /\ row' = [row EXCEPT ![r] = Absent]
  /\ UNCHANGED <<tagOf, tagEvents, res, held, unresolved>>

-----------------------------------------------------------------------------
(* resolveTeam.                                                            *)

Answer(w, o) == res' = [res EXCEPT ![w] = [res[w] EXCEPT !.pc = "done", !.team = o]]

(* GetItem: a fresh row answers; any other row is kept as the fallback.    *)
LookUp(w, r) ==
  /\ res[w].pc = "idle"
  /\ res' = [res EXCEPT ![w] =
       IF row[r].life \in {"durable", "fresh"}
       THEN [NoCall EXCEPT !.pc = "done", !.role = r, !.team = row[r].team]
       ELSE [NoCall EXCEPT !.pc = "iam", !.role = r, !.stale = row[r].team]]
  /\ UNCHANGED <<tagOf, row, tagEvents, held, unresolved>>

(* GetRole and ListRoleTags answer.                                        *)
ReadTags(w) ==
  /\ res[w].pc = "iam"
  /\ res' = [res EXCEPT ![w] = [res[w] EXCEPT !.pc = "put", !.team = tagOf[res[w].role]]]
  /\ UNCHANGED <<tagOf, row, tagEvents, held, unresolved>>

(* Mutant: the fallback is written to the cache like a resolution.         *)
TagsUnreadable_cached(w) ==
  /\ res[w].pc = "iam"
  /\ res' = [res EXCEPT ![w] = [res[w] EXCEPT !.pc = "put",
               !.team = IF res[w].stale = None THEN Unmapped ELSE res[w].stale]]
  /\ unresolved' = IF res[w].stale = None THEN unresolved \cup {res[w].role} ELSE unresolved
  /\ UNCHANGED <<tagOf, row, tagEvents, held>>

(* Mutant: the last known team is forgotten.                               *)
TagsUnreadable_forgets(w) ==
  /\ res[w].pc = "iam"
  /\ Answer(w, Unmapped)
  /\ unresolved' = IF res[w].stale = None THEN unresolved \cup {res[w].role} ELSE unresolved
  /\ UNCHANGED <<tagOf, row, tagEvents, held>>

(* Every attempt failed: the last known team or UNMAPPED, and no write.    *)
TagsUnreadable(w) ==
  /\ res[w].pc = "iam"
  /\ Answer(w, IF res[w].stale = None THEN Unmapped ELSE res[w].stale)
  /\ unresolved' = IF res[w].stale = None THEN unresolved \cup {res[w].role} ELSE unresolved
  /\ UNCHANGED <<tagOf, row, tagEvents, held>>

(* PutItem of what IAM said, UNMAPPED included, with a ttl and whatever    *)
(* the row has become since it was read.                                   *)
PutRow(w) ==
  /\ res[w].pc = "put"
  /\ row' = [row EXCEPT ![res[w].role] = [team |-> res[w].team, life |-> "fresh"]]
  /\ Answer(w, res[w].team)
  /\ UNCHANGED <<tagOf, tagEvents, held, unresolved>>

(* The caller takes the answer, or dies with the call in progress.         *)
DropCall(w) == res' = [res EXCEPT ![w] = NoCall]

-----------------------------------------------------------------------------
(* A cached team is one that the role's tag, or an administrator, did say  *)
(* at some time: UNMAPPED is cached only for a role that had no tag when   *)
(* it was read, never because IAM could not be read (resolveTeam's two     *)
(* ways out).                                                              *)
RowsWereHeld == \A r \in Roles : row[r].life # "absent" => <<r, row[r].team>> \in held
=============================================================================
