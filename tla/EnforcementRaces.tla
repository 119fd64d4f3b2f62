-------------------------- MODULE EnforcementRaces --------------------------
(***************************************************************************)
(* What a block still means when the handlers of QuotaEnforcement overlap, *)
(* fail and are retried while others write the Team_Role_Cache.  A row of  *)
(* Blocked_State and the policies on the roles of its team are written by  *)
(* different calls, so they can come apart; this module keeps beside the   *)
(* state a history of the events that let them, one for each hole in the   *)
(* code, and states that nothing else does.                                *)
(*                                                                         *)
(* The steps are those of QuotaEnforcement.  The history is read by none   *)
(* of them and never holds one up.                                         *)
(***************************************************************************)
EXTENDS QuotaEnforcement

VARIABLES
  missed,   \* <<role, pair>>: the block of the pair may have missed the role
  stray,    \* policies no later removal is sure to look for
  outdated  \* <<tagger, model>>: the row was written after the tagger's query

raceVars == <<vars, missed, stray, outdated>>

RaceInit == Init /\ missed = {} /\ stray = {} /\ outdated = {}

PairsOf(t) == {p \in Pairs : p[1] = t}

(* An enforcer has listed the roles of the pair's team and has still to    *)
(* write the row.                                                          *)
BeingBlocked(p) == \E s \in Shards : enf[s].pc = "attach" /\ Rec(s).pair = p

(* A loop that removes the policies of the pair is under way.              *)
BeingLifted(p) ==
  \/ \E s \in Shards : enf[s].pc = "detach" /\ Rec(s).pair = p
  \/ \E x \in Removers : rem[x].pc = "remove" /\ \E j \in rem[x].cur : j.pair = p

(* ... under this endpoint, and it has passed the role or never listed it. *)
LiftedPast(r, p, e) ==
  \/ \E s \in Shards : /\ enf[s].pc = "detach" /\ r \notin enf[s].todo
                       /\ Rec(s).pair = p /\ Rec(s).endpoint = e
  \/ \E x \in Removers : /\ rem[x].pc = "remove" /\ r \notin rem[x].todo
                         /\ \E j \in rem[x].cur : j.pair = p /\ j.endpoint = e

(* The handler attaches for a team the role has left, or behind the back   *)
(* of a removal.                                                           *)
TooLate(r, p, e) == teamOf[r] # p[1] \/ LiftedPast(r, p, e)

-----------------------------------------------------------------------------
(* What a step adds to the history.                                        *)

(* A new list of the team's roles starts a block afresh.                   *)
RaceListRoles(s) ==
  /\ ListRoles(s)
  /\ missed' = IF enf[s].pc = "list" THEN missed \ (Roles \X {Rec(s).pair}) ELSE missed
  /\ UNCHANGED <<stray, outdated>>

Attached(late_, policies) ==
  stray' = deny' \cap (IF late_ THEN stray \cup policies ELSE stray \ policies)

(* The attachment failed, and the row will be written all the same.        *)
RaceAttachDeny(s, r) ==
  LET p == Rec(s).pair IN
  /\ AttachDeny(s, r)
  /\ missed' = IF left' = left THEN missed ELSE missed \cup {<<r, p>>}
  /\ Attached(TooLate(r, p, Rec(s).endpoint), {<<r, p[2], Rec(s).endpoint>>})
  /\ UNCHANGED outdated

(* The row of p is written or deleted by a handler that works under the    *)
(* endpoint e: policies under the endpoint the row had are forgotten, and  *)
(* what taggers have read of it is old.                                    *)
RowWritten(p, e) ==
  /\ stray' = IF blocked[p].status # "NONE" /\ blocked[p].endpoint # e
              THEN deny' \cap (stray \cup (RolesOf(p[1]) \X {p[2]} \X {blocked[p].endpoint}))
              ELSE stray
  /\ outdated' = outdated \cup
       ({w \in Taggers : tag[w].pc = "attach" /\ p[1] \in tag[w].team} \X {p[2]})

RacePutBlockedState(s) ==
  /\ PutBlockedState(s)
  /\ RowWritten(Rec(s).pair, Rec(s).endpoint)
  /\ UNCHANGED missed

(* A policy that a removal of q takes away is missing for a block of the   *)
(* same pair whose row is not written yet, and for the team the role has   *)
(* moved to.                                                               *)
Takes(r, q) ==
  /\ missed' = missed \cup
       {<<r, p>> : p \in {p \in Pairs : /\ p[2] = q[2] /\ p[1] = teamOf[r]
                                        /\ p # q \/ BeingBlocked(p)}}
  /\ stray' = stray \cap deny'
  /\ UNCHANGED outdated

RaceDetachDeny(s, r) == DetachDeny(s, r) /\ Takes(r, Rec(s).pair)

RaceRemoveDeny(x, r) == RemoveDeny(x, r) /\ \E j \in rem[x].cur : Takes(r, j.pair)

(* A lift that failed for one role keeps the row of all.                   *)
RaceFinishLift(s) ==
  /\ FinishLift(s)
  /\ IF enf[s].failed
     THEN missed' = missed \cup (Roles \X {Rec(s).pair}) /\ UNCHANGED <<stray, outdated>>
     ELSE RowWritten(Rec(s).pair, Rec(s).endpoint) /\ UNCHANGED missed

RaceSettlePair(x) ==
  /\ SettlePair(x)
  /\ \E j \in rem[x].cur : RowWritten(j.pair, j.endpoint)
  /\ UNCHANGED missed

(* Half of the policies removed and the row there; half of them attached   *)
(* and no row.                                                             *)
RaceCrashEnforcer(s) ==
  LET p == Rec(s).pair
      e == Rec(s).endpoint
  IN
  /\ CrashEnforcer(s)
  /\ missed' = IF enf[s].pc = "detach" THEN missed \cup (Roles \X {p}) ELSE missed
  /\ stray' = IF enf[s].pc = "attach" /\ ~(blocked[p].status # "NONE" /\ blocked[p].endpoint = e)
              THEN deny \cap (stray \cup (RolesOf(p[1]) \X {p[2]} \X {e}))
              ELSE stray
  /\ UNCHANGED outdated

RaceCrashRemover(x) ==
  /\ CrashRemover(x)
  /\ missed' = IF rem[x].pc = "remove" THEN missed \cup (Roles \X {j.pair : j \in rem[x].cur})
               ELSE missed
  /\ UNCHANGED <<stray, outdated>>

(* The role gets another team by a writer that attaches nothing.           *)
RaceRemap(r, t) ==
  /\ Remap(r, t)
  /\ missed' = missed \cup ({r} \X PairsOf(t))
  /\ stray' = stray \cup {d \in deny : d[1] = r}
  /\ UNCHANGED outdated

(* Nothing looks for the policies of the team the role leaves.             *)
RaceCacheRole(r, t) ==
  /\ stray' = IF teamOf[r] = t THEN stray ELSE stray \cup {d \in deny : d[1] = r}
  /\ UNCHANGED <<missed, outdated>>

RaceTagRole(w, r, t)   == TagRole(w, r, t) /\ RaceCacheRole(r, t)
RaceRedeliver(w, r, t) == RedeliverTagRole(w, r, t) /\ RaceCacheRole(r, t)

(* The tagger looks for rows after an enforcer has listed the roles and    *)
(* before it writes the row.                                               *)
RaceQueryBlocked(w, t) ==
  /\ QueryBlocked(w, t)
  /\ missed' = missed \cup (tag[w].role \X {p \in PairsOf(t) : BeingBlocked(p)})
  /\ outdated' = outdated \ ({w} \X Models)
  /\ UNCHANGED stray

TooLateFor(w, r, t, me) == TooLate(r, <<t, me[1]>>, me[2]) \/ <<w, me[1]>> \in outdated

RaceAttachInherited(w, r, me) ==
  /\ AttachInherited(w, r, me)
  /\ \E t \in tag[w].team : Attached(TooLateFor(w, r, t, me), {<<r, me[1], me[2]>>})
  /\ UNCHANGED <<missed, outdated>>

(* The event will not be delivered again.                                  *)
RaceCrashTagger(w) ==
  /\ CrashTagger(w)
  /\ missed' = IF tag[w].tries >= Attempts
               THEN missed \cup (tag[w].role \X {p \in Pairs : p[1] \in tag[w].team})
               ELSE missed
  /\ stray' = deny' \cap (stray \cup
       {<<r, me[1], me[2]>> : r \in tag[w].role,
          me \in {me \in tag[w].todo : \E u \in tag[w].role, t \in tag[w].team :
                                         TooLateFor(w, u, t, me)}})
  /\ UNCHANGED outdated

-----------------------------------------------------------------------------
(* The environment but for the writers of the cache (Remap).               *)
MeteringAndEdits ==
  \/ \E p \in Pairs, k \in 1 .. MaxTokens : AddUsage(p, k) \/ SetUsage(p, k) \/ PutQuota(p, k)
  \/ NextDay

OtherStep ==
  \/ MeteringAndEdits
  \/ \E s \in Shards : \/ StartBatch(s) \/ SkipRecord(s) \/ ReadQuota(s) \/ CheckBlocked(s)
                       \/ LiftGuard(s) \/ FinishBatch(s)
  \/ ResetStep
  \/ \E x \in Removers : (\E j \in rem[x].queue : BeginPair(x, j)) \/ FinishRemover(x)
  \/ \E x \in Admins, p \in Pairs : StartManual(x, p)

RaceEnforcer(s) ==
  \/ RaceListRoles(s)
  \/ \E r \in Roles : RaceAttachDeny(s, r) \/ RaceDetachDeny(s, r)
  \/ RacePutBlockedState(s)
  \/ RaceFinishLift(s)
  \/ RaceCrashEnforcer(s)

RaceRemover(x) ==
  \/ \E r \in Roles : RaceRemoveDeny(x, r)
  \/ RaceSettlePair(x)
  \/ RaceCrashRemover(x)

RaceTagger(w) ==
  \/ \E r \in Roles, t \in Teams : RaceTagRole(w, r, t) \/ RaceRedeliver(w, r, t)
  \/ \E t \in Teams : RaceQueryBlocked(w, t)
  \/ \E r \in Roles, me \in Policies : RaceAttachInherited(w, r, me)
  \/ RaceCrashTagger(w)

RaceNext ==
  \/ OtherStep /\ UNCHANGED <<missed, stray, outdated>>
  \/ \E r \in Roles, t \in Teams \cup {NoTeam} : RaceRemap(r, t)
  \/ \E s \in Shards : RaceEnforcer(s)
  \/ \E x \in Removers : RaceRemover(x)
  \/ \E w \in Taggers : RaceTagger(w)

RaceSpec == RaceInit /\ [][RaceNext]_raceVars

-----------------------------------------------------------------------------
(* Properties.                                                             *)

(* A tagger is at work on the role and will see to the pair.               *)
BeingTagged(p, r) ==
  \E w \in Taggers :
    /\ r \in tag[w].role /\ p[1] \in tag[w].team
    /\ \/ tag[w].pc \in {"cache", "query"}
       \/ tag[w].pc = "attach" /\ <<p[2], blocked[p].endpoint>> \in tag[w].todo

(* In every state, however the handlers overlap and fail, every role the   *)
(* cache maps to a blocked team is denied the model on the row's endpoint, *)
(* unless a removal of the pair or the tagging of the role is under way or *)
(* one of these has happened since the roles were listed for the block: the*)
(* attachment failed, a removal took the policy before the row was written *)
(* or took it for a team the role has left, a removal stopped half way     *)
(* through, the tagger looked before the row was written or gave up, or    *)
(* another writer of the cache brought the role into the team              *)
(* (evaluateUsageAggregationChange, resetBlockedStatePair,                 *)
(* handleTagRoleEvent).                                                    *)
EnforcedUnlessMissed ==
  \A p \in Pairs, r \in Roles :
    blocked[p].status = "BLOCKED" /\ teamOf[r] = p[1] =>
      \/ <<r, p[2], blocked[p].endpoint>> \in deny
      \/ <<r, p>> \in missed
      \/ BeingLifted(p) \/ BeingTagged(p, r)

(* The row that tells removals of a policy, or the enforcer that is about  *)
(* to write it.                                                            *)
Recorded(p, e) ==
  \/ blocked[p].status # "NONE" /\ blocked[p].endpoint = e
  \/ \E s \in Shards : /\ enf[s].pc = "attach"
                       /\ Rec(s).pair = p /\ Rec(s).endpoint = e

(* In every state a deny policy has a row that leads the reset, a lift or  *)
(* a manual removal to it, or an enforcer about to write that row, unless  *)
(* one of these has happened since it was attached: it came too late       *)
(* (TooLate), from a list read before the row was written again, its role  *)
(* changed teams, its row was cleared or replaced under another endpoint,  *)
(* or the enforcer died before it wrote the row (putBlockedState,          *)
(* clearBlockedState, resetBlockedStatePair, handleTagRoleEvent).          *)
RecordedUnlessStray ==
  \A d \in deny \ stray :
    teamOf[d[1]] \in Teams /\ Recorded(<<teamOf[d[1]], d[2]>>, d[3])
=============================================================================
