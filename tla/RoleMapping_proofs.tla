-------------------------- MODULE RoleMapping_proofs --------------------------
(***************************************************************************)
(* What every module that calls resolveTeam may rely on, step by step: the *)
(* theorems about it are where a specification is, in the modules that     *)
(* extend this one.                                                        *)
(***************************************************************************)
EXTENDS RoleMapping, TLAPS

(* The tags, the events on their way and the calls in progress all carry   *)
(* what was held at some time, or UNMAPPED for want of an answer.          *)
TagsHeld == \A r \in Roles : <<r, tagOf[r]>> \in held

AbsentIsNone == \A r \in Roles : row[r].life = "absent" => row[r].team = None

Answered(c) == \/ <<c.role, c.team>> \in held
               \/ c.team = Unmapped /\ c.role \in unresolved

CallHeld(c) ==
  /\ c.pc # "idle" => c.role \in Roles
  /\ c.pc = "iam"  => c.stale = None \/ <<c.role, c.stale>> \in held
  /\ c.pc = "put"  => <<c.role, c.team>> \in held
  /\ c.pc = "done" => Answered(c)

MappingInv ==
  /\ MappingTypeOK
  /\ TagsHeld
  /\ tagEvents \subseteq held
  /\ AbsentIsNone
  /\ RowsWereHeld
  /\ \A w \in Callers : CallHeld(res[w])

USE RoleMappingAssumption DEF Owners, Lives

LEMMA InitMapping == MappingInit => MappingInv
  BY DEF MappingInit, MappingInv, MappingTypeOK, TagsHeld, AbsentIsNone, RowsWereHeld,
         CallHeld, Row, Absent, Resolution, NoCall

LEMMA AnsweredOwner ==
  ASSUME MappingInv, NEW w \in Callers, res[w].pc = "done"
  PROVE  res[w].team \in Owners
  BY DEF MappingInv, MappingTypeOK, CallHeld, Answered

(* held and unresolved only grow: a call that was covered stays covered.   *)
LEMMA CoveredStays ==
  ASSUME held \subseteq held', unresolved \subseteq unresolved', NEW c, CallHeld(c)
  PROVE  CallHeld(c)'
  BY DEF CallHeld, Answered

LEMMA ChangeTagMapping ==
  ASSUME MappingInv, NEW r \in Roles, NEW o \in Owners, ChangeTag(r, o)
  PROVE  MappingInv'
  <1>1. MappingTypeOK' /\ TagsHeld' /\ (tagEvents \subseteq held)'
    BY DEF MappingInv, MappingTypeOK, TagsHeld, ChangeTag
  <1>2. AbsentIsNone' /\ RowsWereHeld'
    BY DEF MappingInv, AbsentIsNone, RowsWereHeld, ChangeTag
  <1>3. \A w \in Callers : CallHeld(res[w])'
    BY CoveredStays DEF MappingInv, ChangeTag, CallHeld, Answered
  <1> QED
    BY <1>1, <1>2, <1>3 DEF MappingInv

LEMMA CacheMapping ==
  ASSUME MappingInv, NEW r \in Roles, NEW t \in Teams, CacheRoleTeam(r, t),
         <<r, t>> \in held', held \subseteq held', held' \subseteq Roles \X Owners,
         tagEvents' \subseteq tagEvents, UNCHANGED <<tagOf, res, unresolved>>
  PROVE  MappingInv'
  <1>1. MappingTypeOK' /\ TagsHeld' /\ (tagEvents \subseteq held)'
    BY DEF MappingInv, MappingTypeOK, TagsHeld, CacheRoleTeam, Row
  <1>2. AbsentIsNone' /\ RowsWereHeld'
    BY DEF MappingInv, MappingTypeOK, AbsentIsNone, RowsWereHeld, CacheRoleTeam, Row
  <1>3. \A w \in Callers : CallHeld(res[w])'
    BY DEF MappingInv, CallHeld, Answered
  <1> QED
    BY <1>1, <1>2, <1>3 DEF MappingInv

LEMMA DeliverTagRoleMapping ==
  ASSUME MappingInv, NEW r \in Roles, NEW t \in Teams, DeliverTagRole(r, t)
  PROVE  MappingInv'
  <1>1. <<r, t>> \in held' /\ tagEvents' \subseteq tagEvents
    BY DEF MappingInv, DeliverTagRole
  <1> QED
    BY <1>1, CacheMapping DEF DeliverTagRole, MappingInv, MappingTypeOK

LEMMA MapRoleToTeamMapping ==
  ASSUME MappingInv, NEW r \in Roles, NEW t \in Teams, MapRoleToTeam(r, t)
  PROVE  MappingInv'
  <1>1. <<r, t>> \in held' /\ held \subseteq held' /\ held' \subseteq Roles \X Owners
    BY DEF MapRoleToTeam, MappingInv, MappingTypeOK
  <1> QED
    BY <1>1, CacheMapping DEF MapRoleToTeam

LEMMA ExpiryMapping ==
  ASSUME MappingInv, NEW r \in Roles, PassTtl(r) \/ DeleteExpired(r)
  PROVE  MappingInv'
  <1>1. MappingTypeOK' /\ AbsentIsNone' /\ RowsWereHeld'
    BY DEF MappingInv, MappingTypeOK, AbsentIsNone, RowsWereHeld, PassTtl, DeleteExpired,
           Row, Absent
  <1>2. TagsHeld' /\ (tagEvents \subseteq held)' /\ \A w \in Callers : CallHeld(res[w])'
    BY DEF MappingInv, TagsHeld, CallHeld, Answered, PassTtl, DeleteExpired
  <1> QED
    BY <1>1, <1>2 DEF MappingInv

(* A step of resolveTeam replaces one call by a covered one and leaves the *)
(* rows alone.                                                             *)
LEMMA CallMapping ==
  ASSUME MappingInv, NEW w \in Callers, NEW c \in Resolution,
         res' = [res EXCEPT ![w] = c], CallHeld(c)',
         unresolved \subseteq unresolved', unresolved' \subseteq Roles,
         UNCHANGED <<tagOf, row, tagEvents, held>>
  PROVE  MappingInv'
  <1>1. MappingTypeOK'
    BY DEF MappingInv, MappingTypeOK
  <1>2. TagsHeld' /\ (tagEvents \subseteq held)' /\ AbsentIsNone' /\ RowsWereHeld'
    BY DEF MappingInv, TagsHeld, AbsentIsNone, RowsWereHeld
  <1>3. ASSUME NEW v \in Callers PROVE CallHeld(res[v])'
    <2>1. CASE v = w
      <3>1. res'[v] = c
        BY <2>1 DEF MappingInv, MappingTypeOK
      <3> QED
        BY <3>1 DEF CallHeld, Answered
    <2>2. CASE v # w
      <3>1. res'[v] = res[v]
        BY <2>2 DEF MappingInv, MappingTypeOK
      <3> QED
        BY <3>1 DEF MappingInv, CallHeld, Answered
    <2> QED
      BY <2>1, <2>2
  <1> QED
    BY <1>1, <1>2, <1>3 DEF MappingInv

LEMMA LookUpMapping ==
  ASSUME MappingInv, NEW w \in Callers, NEW r \in Roles, LookUp(w, r)
  PROVE  MappingInv'
  <1>1. CASE row[r].life \in {"durable", "fresh"}
    <2> PICK c : c = [NoCall EXCEPT !.pc = "done", !.role = r, !.team = row[r].team]
      OBVIOUS
    <2>1. res' = [res EXCEPT ![w] = c] /\ UNCHANGED <<tagOf, row, tagEvents, held, unresolved>>
      BY <1>1 DEF LookUp
    <2>2. c \in Resolution /\ CallHeld(c)'
      BY <1>1, <2>1 DEF MappingInv, MappingTypeOK, RowsWereHeld, Row, NoCall, Resolution,
                        CallHeld, Answered
    <2> QED
      BY <2>1, <2>2, CallMapping DEF MappingInv, MappingTypeOK
  <1>2. CASE row[r].life \notin {"durable", "fresh"}
    <2> PICK c : c = [NoCall EXCEPT !.pc = "iam", !.role = r, !.stale = row[r].team]
      OBVIOUS
    <2>1. res' = [res EXCEPT ![w] = c] /\ UNCHANGED <<tagOf, row, tagEvents, held, unresolved>>
      BY <1>2 DEF LookUp
    <2>2. c \in Resolution /\ CallHeld(c)'
      BY <2>1 DEF MappingInv, MappingTypeOK, RowsWereHeld, AbsentIsNone, Row, NoCall,
                  Resolution, CallHeld, Answered
    <2> QED
      BY <2>1, <2>2, CallMapping DEF MappingInv, MappingTypeOK
  <1> QED
    BY <1>1, <1>2

LEMMA ReadTagsMapping ==
  ASSUME MappingInv, NEW w \in Callers, ReadTags(w)
  PROVE  MappingInv'
  <1> PICK c : c = [res[w] EXCEPT !.pc = "put", !.team = tagOf[res[w].role]]
    OBVIOUS
  <1>1. res' = [res EXCEPT ![w] = c] /\ UNCHANGED <<tagOf, row, tagEvents, held, unresolved>>
    BY DEF ReadTags
  <1>2. res[w] \in Resolution /\ res[w].role \in Roles
    BY DEF ReadTags, MappingInv, MappingTypeOK, CallHeld
  <1>3. tagOf[res[w].role] \in Owners /\ <<res[w].role, tagOf[res[w].role]>> \in held
    BY <1>2 DEF MappingInv, MappingTypeOK, TagsHeld
  <1>4. c \in Resolution /\ c.pc = "put" /\ c.role = res[w].role /\ c.team = tagOf[res[w].role]
    BY <1>2, <1>3 DEF Resolution
  <1>5. CallHeld(c)'
    BY <1>1, <1>2, <1>3, <1>4 DEF CallHeld
  <1> QED
    BY <1>1, <1>4, <1>5, CallMapping DEF MappingInv, MappingTypeOK

LEMMA TagsUnreadableMapping ==
  ASSUME MappingInv, NEW w \in Callers, TagsUnreadable(w)
  PROVE  MappingInv'
  <1> PICK c : c = [res[w] EXCEPT !.pc = "done",
                      !.team = IF res[w].stale = None THEN Unmapped ELSE res[w].stale]
    OBVIOUS
  <1>1. res' = [res EXCEPT ![w] = c] /\ UNCHANGED <<tagOf, row, tagEvents, held>>
    BY DEF TagsUnreadable, Answer
  <1>2. res[w] \in Resolution /\ CallHeld(res[w]) /\ res[w].pc = "iam"
    BY DEF MappingInv, MappingTypeOK, TagsUnreadable
  <1>3. unresolved \subseteq unresolved' /\ unresolved' \subseteq Roles
    BY <1>2 DEF TagsUnreadable, MappingInv, MappingTypeOK, CallHeld
  <1>4. c \in Resolution
    BY <1>2 DEF Resolution
  <1>5. CallHeld(c)'
    BY <1>1, <1>2 DEF TagsUnreadable, Resolution, CallHeld, Answered
  <1> QED
    BY <1>1, <1>3, <1>4, <1>5, CallMapping

LEMMA PutRowMapping ==
  ASSUME MappingInv, NEW w \in Callers, PutRow(w)
  PROVE  MappingInv'
  <1>1. /\ res[w] \in Resolution /\ res[w].role \in Roles
        /\ <<res[w].role, res[w].team>> \in held
    BY DEF MappingInv, MappingTypeOK, CallHeld, PutRow
  <1>2. res[w].team \in Owners
    BY <1>1 DEF MappingInv, MappingTypeOK
  <1>3. MappingTypeOK'
    BY <1>1, <1>2 DEF MappingInv, MappingTypeOK, PutRow, Answer, Row, Resolution
  <1>4. AbsentIsNone' /\ RowsWereHeld'
    BY <1>1 DEF MappingInv, MappingTypeOK, AbsentIsNone, RowsWereHeld, PutRow
  <1>5. TagsHeld' /\ (tagEvents \subseteq held)'
    BY DEF MappingInv, TagsHeld, PutRow
  <1>6. \A v \in Callers : CallHeld(res[v])'
    BY <1>1 DEF MappingInv, MappingTypeOK, PutRow, Answer, CallHeld, Answered, Resolution
  <1> QED
    BY <1>3, <1>4, <1>5, <1>6 DEF MappingInv

LEMMA DropCallMapping ==
  ASSUME MappingInv, NEW w \in Callers, DropCall(w),
         UNCHANGED <<tagOf, row, tagEvents, held, unresolved>>
  PROVE  MappingInv'
  <1>1. NoCall \in Resolution /\ CallHeld(NoCall)'
    BY DEF NoCall, Resolution, CallHeld
  <1> QED
    BY <1>1, CallMapping DEF DropCall, MappingInv, MappingTypeOK

LEMMA StillMapping ==
  ASSUME MappingInv, UNCHANGED mappingVars
  PROVE  MappingInv'
  BY DEF MappingInv, MappingTypeOK, TagsHeld, AbsentIsNone, RowsWereHeld, CallHeld,
         Answered, mappingVars
=============================================================================
