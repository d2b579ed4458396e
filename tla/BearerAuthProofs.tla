-------------------------- MODULE BearerAuthProofs --------------------------
(***************************************************************************)
(* What holds of the bearer strategy for every number of requests and      *)
(* tokens, every TTL, cap, timeout and horizon.                            *)
(***************************************************************************)
EXTENDS BearerAuth, FiniteSetTheorems, TLAPS

(***************************************************************************)
(* The inductive invariant.  A pending call is within its timeout, and an  *)
(* active answer on its way back was true when the call was already out:   *)
(* its token is active still, or was revoked after the call was sent.      *)
(***************************************************************************)
PendingCalls ==
  \A r \in Request : state[r] = "introspecting" =>
    /\ token[r] \in Token
    /\ sentAt[r] <= clock /\ clock <= sentAt[r] + Timeout
    /\ answer[r] = "active" =>
         \/ status[token[r]] = "active"
         \/ status[token[r]] = "revoked" /\ sentAt[r] <= revokedAt[token[r]]

(* Revocations lie in the past.                                            *)
RevocationsPast == \A t \in Token : status[t] = "revoked" => revokedAt[t] <= clock

(* No entry lives longer than a TTL from now: what a revocation needs to   *)
(* know of the entries it finds.                                           *)
EntriesWithinTtl == \A t \in Token : expiresAt[t] <= clock + CacheTtl

IInv ==
  /\ TypeOK
  /\ PendingCalls
  /\ RevocationsPast
  /\ EntriesWithinTtl
  /\ CachedDecisionsAge

-----------------------------------------------------------------------------
(* The variables keep their types.                                         *)
THEOREM TypeCorrect == Spec => []TypeOK
<1> USE TokensAssumption, TimesAssumption
<1>1. Init => TypeOK
  BY DEF Init, TypeOK, Statuses, States, Answers, Absent
<1>2. TypeOK /\ [Next]_vars => TypeOK'
  <2> SUFFICES ASSUME TypeOK, [Next]_vars PROVE TypeOK'
    OBVIOUS
  <2> USE DEF TypeOK, authVars, reqVars, cacheVars, Leave, Statuses, States, Answers, Absent
  <2>1. ASSUME NEW r \in Request, RefuseMisconfigured(r) PROVE TypeOK'
    BY <2>1 DEF RefuseMisconfigured
  <2>2. ASSUME NEW r \in Request, RefuseAnonymous(r) PROVE TypeOK'
    BY <2>2 DEF RefuseAnonymous
  <2>3. ASSUME NEW r \in Request, NEW t \in Token, AdmitFromCache(r, t) PROVE TypeOK'
    BY <2>3 DEF AdmitFromCache
  <2>4. ASSUME NEW r \in Request, NEW t \in Token, StartIntrospection(r, t) PROVE TypeOK'
    BY <2>4 DEF StartIntrospection, Drop
  <2>5. ASSUME NEW r \in Request, FinishActive(r) PROVE TypeOK'
    <3>1. token[r] \in Token
      BY <2>5 DEF FinishActive
    <3>2. expiresAt' \in [Token -> Nat] /\ older' \subseteq Token \X Token
      <4>1. CASE Caching
        <5>1. KeptForInsert \subseteq Token
          BY DEF KeptForInsert, Cached, Swept
        <5> QED BY <2>5, <3>1, <4>1, <5>1 DEF FinishActive, Insert
      <4>2. CASE ~Caching
        BY <2>5, <4>2 DEF FinishActive
      <4> QED BY <4>1, <4>2
    <3> QED BY <2>5, <3>2 DEF FinishActive
  <2>6. ASSUME NEW r \in Request, FinishInactive(r) PROVE TypeOK'
    BY <2>6 DEF FinishInactive
  <2>7. ASSUME NEW r \in Request, FinishFailed(r) PROVE TypeOK'
    BY <2>7 DEF FinishFailed
  <2>8. ASSUME NEW r \in Request, FinishTimedOut(r) PROVE TypeOK'
    BY <2>8 DEF FinishTimedOut
  <2>9. ASSUME NEW r \in Request, ServiceAnswers(r) PROVE TypeOK'
    BY <2>9 DEF ServiceAnswers
  <2>10. ASSUME NEW t \in Token, Issue(t) PROVE TypeOK'
    BY <2>10 DEF Issue
  <2>11. ASSUME NEW t \in Token, Revoke(t) PROVE TypeOK'
    BY <2>11 DEF Revoke
  <2>12. CASE Tick
    BY <2>12 DEF Tick
  <2>13. CASE UNCHANGED vars
    BY <2>13 DEF vars
  <2> QED
    BY <2>1, <2>2, <2>3, <2>4, <2>5, <2>6, <2>7, <2>8, <2>9, <2>10, <2>11,
       <2>12, <2>13 DEF Next
<1> QED BY <1>1, <1>2, PTL DEF Spec

-----------------------------------------------------------------------------
(* The inductive invariant holds throughout.                               *)
LEMMA InductiveInvariant == Spec => []IInv
<1> USE TokensAssumption, TimesAssumption
<1>1. Init => IInv
  <2> SUFFICES ASSUME Init PROVE IInv
    OBVIOUS
  <2>1. TypeOK
    BY DEF Init, TypeOK, Statuses, States, Answers, Absent
  <2> QED
    BY <2>1 DEF Init, IInv, PendingCalls, RevocationsPast, EntriesWithinTtl,
                CachedDecisionsAge, Cached, Absent
<1>2. TypeOK' /\ IInv /\ [Next]_vars => IInv'
  <2> SUFFICES ASSUME TypeOK', IInv, [Next]_vars PROVE IInv'
    OBVIOUS
  <2> USE DEF IInv, TypeOK, Statuses, States, Answers, authVars, reqVars, cacheVars, Absent
  <2>h. ASSUME NEW r \in Request, NEW outcome \in States \ {"introspecting"},
              Leave(r, outcome), UNCHANGED <<clock, authVars>>
       PROVE  PendingCalls' /\ RevocationsPast'
    BY <2>h DEF Leave, PendingCalls, RevocationsPast
  <2>c. ASSUME UNCHANGED <<clock, authVars, cacheVars>>
       PROVE  EntriesWithinTtl' /\ CachedDecisionsAge'
    BY <2>c DEF EntriesWithinTtl, CachedDecisionsAge, Cached
  <2>1. ASSUME NEW r \in Request, RefuseMisconfigured(r) PROVE IInv'
    BY <2>1, <2>h, <2>c DEF RefuseMisconfigured
  <2>2. ASSUME NEW r \in Request, RefuseAnonymous(r) PROVE IInv'
    BY <2>2, <2>h, <2>c DEF RefuseAnonymous
  <2>3. ASSUME NEW r \in Request, NEW t \in Token, AdmitFromCache(r, t) PROVE IInv'
    BY <2>3, <2>h, <2>c DEF AdmitFromCache
  <2>4. ASSUME NEW r \in Request, NEW t \in Token, StartIntrospection(r, t) PROVE IInv'
    <3> USE <2>4 DEF StartIntrospection
    <3>1. PendingCalls' /\ RevocationsPast'
      BY DEF PendingCalls, RevocationsPast
    <3>2. EntriesWithinTtl' /\ CachedDecisionsAge'
      BY DEF Drop, EntriesWithinTtl, CachedDecisionsAge, Cached
    <3> QED BY <3>1, <3>2
  <2>5. ASSUME NEW r \in Request, FinishActive(r) PROVE IInv'
    <3>1. PendingCalls' /\ RevocationsPast'
      BY <2>5, <2>h DEF FinishActive
    <3>2. CASE Caching
      <4> DEFINE t == token[r]
      <4>1. /\ t \in Token
            /\ \/ status[t] = "active"
               \/ status[t] = "revoked" /\ clock <= revokedAt[t] + Timeout
        BY <2>5 DEF FinishActive, PendingCalls
      <4>2. KeptForInsert \subseteq Cached
        BY DEF KeptForInsert, Swept
      <4>3. Insert(t) /\ UNCHANGED <<clock, authVars>>
        BY <2>5, <3>2 DEF FinishActive
      <4>4. EntriesWithinTtl'
        BY <4>1, <4>3 DEF Insert, EntriesWithinTtl
      <4>5. CachedDecisionsAge'
        BY <4>1, <4>2, <4>3 DEF Insert, CachedDecisionsAge, Cached
      <4> QED BY <3>1, <4>4, <4>5
    <3>3. CASE ~Caching
      BY <2>5, <2>c, <3>1, <3>3 DEF FinishActive
    <3> QED BY <3>2, <3>3
  <2>6. ASSUME NEW r \in Request, FinishInactive(r) PROVE IInv'
    BY <2>6, <2>h, <2>c DEF FinishInactive
  <2>7. ASSUME NEW r \in Request, FinishFailed(r) PROVE IInv'
    BY <2>7, <2>h, <2>c DEF FinishFailed
  <2>8. ASSUME NEW r \in Request, FinishTimedOut(r) PROVE IInv'
    BY <2>8, <2>h, <2>c DEF FinishTimedOut
  <2>9. ASSUME NEW r \in Request, ServiceAnswers(r) PROVE IInv'
    BY <2>9, <2>c DEF ServiceAnswers, PendingCalls, RevocationsPast
  <2>10. ASSUME NEW t \in Token, Issue(t) PROVE IInv'
    BY <2>10 DEF Issue, PendingCalls, RevocationsPast, EntriesWithinTtl,
                 CachedDecisionsAge, Cached
  <2>11. ASSUME NEW t \in Token, Revoke(t) PROVE IInv'
    BY <2>11 DEF Revoke, PendingCalls, RevocationsPast, EntriesWithinTtl,
                 CachedDecisionsAge, Cached
  <2>12. CASE Tick
    BY <2>12 DEF Tick, PendingCalls, RevocationsPast, EntriesWithinTtl,
                 CachedDecisionsAge, Cached
  <2>13. CASE UNCHANGED vars
    BY <2>13 DEF vars, PendingCalls, RevocationsPast, EntriesWithinTtl,
                 CachedDecisionsAge, Cached
  <2> QED
    BY <2>1, <2>2, <2>3, <2>4, <2>5, <2>6, <2>7, <2>8, <2>9, <2>10, <2>11,
       <2>12, <2>13 DEF Next
<1> QED BY <1>1, <1>2, TypeCorrect, PTL DEF Spec

(* The staleness bound: whatever the overlap of calls, a cached decision   *)
(* outlives its token's revocation by at most the timeout plus the TTL.    *)
THEOREM RevocationLatency == Spec => []CachedDecisionsAge
<1>1. IInv => CachedDecisionsAge
  BY DEF IInv
<1> QED BY <1>1, InductiveInvariant, PTL

-----------------------------------------------------------------------------
(* The guard implements TokenGuard: its admissions are on tokens honoured  *)
(* within the window, whatever path (cache or introspection) led to them.  *)

(* A live cached decision may be acted on.                                 *)
LEMMA LiveIsHonoured ==
  ASSUME IInv, Caching, NEW t \in Cached, Live(t)
  PROVE  Guard!Honoured(t)
BY TimesAssumption
   DEF IInv, TypeOK, Caching, Cached, Live, CachedDecisionsAge, Window, Guard!Honoured

(* So may an active answer, if it arrives before the call times out.       *)
LEMMA AnswerIsHonoured ==
  ASSUME IInv, NEW r \in Request, FinishActive(r)
  PROVE  Guard!Honoured(token[r])
<1>1. clock <= sentAt[r] + Timeout /\ clock \in Nat /\ sentAt[r] \in Nat
  BY TimesAssumption DEF IInv, TypeOK, PendingCalls, FinishActive
<1>2. \/ status[token[r]] = "active"
      \/ status[token[r]] = "revoked" /\ sentAt[r] <= revokedAt[token[r]]
  BY DEF IInv, PendingCalls, FinishActive
<1>3. token[r] \in Token /\ revokedAt[token[r]] \in Nat
  BY DEF IInv, TypeOK, PendingCalls, FinishActive
<1> QED
  BY <1>1, <1>2, <1>3, TimesAssumption DEF Window, Guard!Honoured

THEOREM Refinement == Spec => ImplementsTokenGuard
<1> USE TokensAssumption, TimesAssumption
<1>1. Init => Guard!Init
  BY DEF Init, Guard!Init, VerdictOf
<1>2. IInv /\ [Next]_vars => [Guard!Next]_(Guard!vars)
  <2> SUFFICES ASSUME IInv, [Next]_vars PROVE [Guard!Next]_(Guard!vars)
    OBVIOUS
  <2>t. TypeOK
    BY DEF IInv
  <2> USE DEF TypeOK, States, authVars, reqVars, cacheVars, VerdictOf
  <2>h. ASSUME NEW r \in Request, NEW outcome \in {"unauthorized", "misconfigured"},
              Leave(r, outcome), UNCHANGED <<clock, authVars>>
       PROVE  Guard!Refuse(r)
    BY <2>h, <2>t DEF Leave, Guard!Refuse
  <2>1. ASSUME NEW r \in Request, RefuseMisconfigured(r) PROVE Guard!Next
    BY <2>1, <2>h DEF RefuseMisconfigured, Guard!Next
  <2>2. ASSUME NEW r \in Request, RefuseAnonymous(r) PROVE Guard!Next
    BY <2>2, <2>h DEF RefuseAnonymous, Guard!Next
  <2>3. ASSUME NEW r \in Request, NEW t \in Token, AdmitFromCache(r, t) PROVE Guard!Next
    <3>1. Guard!Honoured(t)
      BY <2>3, LiveIsHonoured DEF AdmitFromCache
    <3>2. Guard!Admit(r, t)
      BY <2>3, <2>t, <3>1 DEF AdmitFromCache, Fresh, Leave, Guard!Admit
    <3> QED BY <3>2 DEF Guard!Next
  <2>4. ASSUME NEW r \in Request, NEW t \in Token, StartIntrospection(r, t) PROVE Guard!Next
    <3>1. Guard!Ask(r, t)
      BY <2>4, <2>t DEF StartIntrospection, Fresh, Guard!Ask
    <3> QED BY <3>1 DEF Guard!Next
  <2>5. ASSUME NEW r \in Request, FinishActive(r) PROVE Guard!Next
    <3>1. PICK t \in Token : t = token[r]
      BY <2>5, <2>t DEF FinishActive
    <3>2. Guard!Honoured(t)
      BY <2>5, <3>1, AnswerIsHonoured
    <3>3. Guard!Admit(r, t)
      BY <2>5, <2>t, <3>1, <3>2 DEF FinishActive, Leave, Guard!Admit
    <3> QED BY <3>3 DEF Guard!Next
  <2>6. ASSUME NEW r \in Request, FinishInactive(r) PROVE Guard!Next
    BY <2>6, <2>h DEF FinishInactive, Guard!Next
  <2>7. ASSUME NEW r \in Request, FinishFailed(r) PROVE Guard!Next
    BY <2>7, <2>h DEF FinishFailed, Guard!Next
  <2>8. ASSUME NEW r \in Request, FinishTimedOut(r) PROVE Guard!Next
    BY <2>8, <2>h DEF FinishTimedOut, Guard!Next
  <2>9. ASSUME NEW r \in Request, ServiceAnswers(r) PROVE UNCHANGED Guard!vars
    BY <2>9 DEF ServiceAnswers, Guard!vars
  <2>10. ASSUME NEW t \in Token, Issue(t) PROVE Guard!Next
    BY <2>10 DEF Issue, Guard!Issue, Guard!Next
  <2>11. ASSUME NEW t \in Token, Revoke(t) PROVE Guard!Next
    BY <2>11 DEF Revoke, Guard!Revoke, Guard!Next
  <2>12. CASE Tick
    BY <2>12 DEF Tick, Guard!Tick, Guard!Next
  <2>13. CASE UNCHANGED vars
    BY <2>13 DEF vars, Guard!vars
  <2> QED
    BY <2>1, <2>2, <2>3, <2>4, <2>5, <2>6, <2>7, <2>8, <2>9, <2>10, <2>11,
       <2>12, <2>13 DEF Next
<1> QED
  BY <1>1, <1>2, InductiveInvariant, PTL DEF Spec, ImplementsTokenGuard, Guard!Spec

-----------------------------------------------------------------------------
(* The cap.  Insertion order is a strict linear order of the entries, and  *)
(* of a finite linearly ordered set at most n elements have fewer than n   *)
(* younger ones.                                                           *)

IsLinear(R, S) ==
  /\ \A s, t \in S : s # t => <<s, t>> \in R \/ <<t, s>> \in R
  /\ \A s \in S : <<s, s>> \notin R
  /\ \A s, t, u \in S : <<s, t>> \in R /\ <<t, u>> \in R => <<s, u>> \in R

Younger(S, t) == {u \in S : <<t, u>> \in older}

(* A finite, non-empty, linearly ordered set has an oldest element: one    *)
(* whose set of younger elements no other one's strictly includes.         *)
LEMMA OldestExists ==
  ASSUME NEW S, IsFiniteSet(S), S # {}, IsLinear(older, S)
  PROVE  \E o \in S : \A t \in S \ {o} : <<o, t>> \in older
<1> DEFINE Older(t) == {u \in S : <<u, t>> \in older}
           Ranks == {Older(t) : t \in S}
<1>1. IsWellFoundedOn(StrictSubsetOrdering(S), FiniteSubsetsOf(S))
  BY FS_StrictSubsetOrderingWellFounded
<1>2. Ranks \subseteq FiniteSubsetsOf(S) /\ Ranks # {}
  <2>1. FiniteSubsetsOf(S) = SUBSET S
    BY FS_FiniteSubsetsOfFinite
  <2>2. \A t \in S : Older(t) \in SUBSET S
    OBVIOUS
  <2>3. PICK t \in S : TRUE
    OBVIOUS
  <2>4. Older(t) \in Ranks
    BY <2>3
  <2> HIDE DEF Older
  <2> QED BY <2>1, <2>2, <2>4
<1>3. PICK R \in Ranks : \A Q \in Ranks : <<Q, R>> \notin StrictSubsetOrdering(S)
  <2> HIDE DEF Ranks
  <2> QED BY <1>1, <1>2, WFMin
<1>4. PICK o \in S : R = Older(o)
  BY <1>3
<1>5. ASSUME NEW t \in S \ {o}, <<t, o>> \in older PROVE FALSE
  <2>1. Older(t) \subseteq R /\ t \in R /\ t \notin Older(t)
    BY <1>4, <1>5 DEF IsLinear
  <2>2. <<Older(t), R>> \in StrictSubsetOrdering(S)
    BY <2>1, <1>4 DEF StrictSubsetOrdering
  <2> QED BY <1>3, <2>2
<1> QED BY <1>5 DEF IsLinear

LEMMA FewWithFewYounger ==
  ASSUME NEW S, IsFiniteSet(S), IsLinear(older, S), NEW n \in Nat
  PROVE  Cardinality({t \in S : Cardinality(Younger(S, t)) < n}) <= n
<1> DEFINE K == {t \in S : Cardinality(Younger(S, t)) < n}
<1>1. IsFiniteSet(K) /\ Cardinality(K) \in Nat
  BY FS_Subset, FS_CardinalityType
<1>2. CASE K = {}
  BY <1>2, FS_EmptySet
<1>3. CASE K # {}
  <2>1. IsLinear(older, K)
    BY DEF IsLinear
  <2>2. PICK o \in K : \A t \in K \ {o} : <<o, t>> \in older
    <3> HIDE DEF K
    <3> QED BY <1>1, <1>3, <2>1, OldestExists
  <2>3. K \ {o} \in SUBSET Younger(S, o)
    BY <2>2 DEF Younger
  <2>4. IsFiniteSet(Younger(S, o)) /\ Cardinality(Younger(S, o)) \in Nat
    BY FS_Subset, FS_CardinalityType DEF Younger
  <2>5. Cardinality(K \ {o}) <= Cardinality(Younger(S, o))
    BY <2>3, <2>4, FS_Subset
  <2>6. Cardinality(K \ {o}) = Cardinality(K) - 1
    BY <1>1, <2>2, FS_RemoveElement
  <2>7. Cardinality(Younger(S, o)) < n
    BY <2>2
  <2> QED BY <1>1, <2>4, <2>5, <2>6, <2>7
<1> QED BY <1>2, <1>3

(* The insertion order is linear on the entries and names nothing else,    *)
(* and there are at most CacheMax entries.                                 *)
CapInv ==
  /\ IsLinear(older, Cached)
  /\ older \subseteq Cached \X Cached
  /\ CacheBounded

(* evictForInsert leaves room for one more.                                *)
LEMMA KeptLeavesRoom ==
  ASSUME TypeOK, CapInv
  PROVE  /\ KeptForInsert \subseteq Cached
         /\ Cardinality(KeptForInsert) < CacheMax
<1> USE TokensAssumption, TimesAssumption
<1>0. IsFiniteSet(Cached) /\ Cardinality(Cached) \in Nat
  BY FS_Subset, FS_CardinalityType DEF Cached
<1>1. CASE Cardinality(Cached) < CacheMax
  BY <1>1 DEF KeptForInsert
<1>2. CASE ~(Cardinality(Cached) < CacheMax)
  <2>1. Swept \in SUBSET Cached /\ IsFiniteSet(Swept)
    BY <1>0, FS_Subset DEF Swept
  <2>2. IsLinear(older, Swept)
    BY <2>1 DEF CapInv, IsLinear
  <2>3. KeptForInsert = {t \in Swept : Cardinality(Younger(Swept, t)) < CacheMax - 1}
    BY <1>2 DEF KeptForInsert, Younger
  <2>4. CacheMax - 1 \in Nat
    OBVIOUS
  <2>5. Cardinality(KeptForInsert) <= CacheMax - 1
    BY <2>1, <2>2, <2>3, <2>4, FewWithFewYounger
  <2>6. IsFiniteSet(KeptForInsert) /\ Cardinality(KeptForInsert) \in Nat
    BY <2>1, <2>3, FS_Subset, FS_CardinalityType
  <2> QED BY <2>1, <2>3, <2>5, <2>6
<1> QED BY <1>1, <1>2

(* Deleting an entry keeps the cap and the order.                          *)
LEMMA DropKeepsCap ==
  ASSUME TypeOK, CapInv, NEW t \in Token, Drop(t)
  PROVE  CapInv'
<1>1. Cached' = Cached \ {t}
  BY DEF TypeOK, Drop, Cached, Absent
<1>2. IsFiniteSet(Cached)
  BY TokensAssumption, FS_Subset DEF Cached
<1>3. Cardinality(Cached') <= Cardinality(Cached) /\ Cardinality(Cached) \in Nat
         /\ Cardinality(Cached') \in Nat
  BY <1>1, <1>2, FS_Subset, FS_CardinalityType
<1>4. CacheBounded'
  BY <1>3, TimesAssumption DEF CapInv, CacheBounded
<1>5. \A p \in Token \X Token : p \in older' <=> p \in older /\ p[1] # t /\ p[2] # t
  BY DEF Drop, TypeOK
<1>6. older' \subseteq Cached' \X Cached'
  BY <1>1, <1>5 DEF Drop, CapInv, TypeOK
<1>7. IsLinear(older', Cached')
  BY <1>1, <1>5 DEF CapInv, IsLinear, Cached
<1> QED BY <1>4, <1>6, <1>7 DEF CapInv

(* Inserting one keeps them too: the entry goes last, or stays in place.   *)
LEMMA InsertKeepsCap ==
  ASSUME TypeOK, CapInv, Caching, NEW t \in Token, Insert(t)
  PROVE  CapInv'
<1> DEFINE K == KeptForInsert
<1>1. K \subseteq Cached /\ Cardinality(K) < CacheMax
  BY KeptLeavesRoom
<1>2. IsFiniteSet(K) /\ Cardinality(K) \in Nat
  BY <1>1, TokensAssumption, FS_Subset, FS_CardinalityType DEF Cached
<1> HIDE DEF K
<1>3. Cached' = K \union {t}
  <2>1. clock + CacheTtl # 0
    BY TimesAssumption DEF TypeOK, Caching
  <2> QED BY <1>1, <2>1 DEF Insert, Cached, Absent, K
<1>4. CacheBounded'
  <2>1. Cardinality(Cached') <= Cardinality(K) + 1
    BY <1>2, <1>3, FS_AddElement
  <2>2. Cardinality(Cached') \in Nat
    BY <1>2, <1>3, FS_AddElement, FS_CardinalityType
  <2> QED BY <1>1, <1>2, <2>1, <2>2, TimesAssumption DEF CacheBounded
<1>5. older' = (older \intersect (K \X K)) \union (IF t \in K THEN {} ELSE K \X {t})
  BY DEF Insert, K
<1>6. older' \subseteq Cached' \X Cached'
  BY <1>3, <1>5
<1>7. IsLinear(older, K) /\ older \subseteq Cached \X Cached
  BY <1>1 DEF CapInv, IsLinear
<1>8. IsLinear(older', Cached')
  BY <1>3, <1>5, <1>7 DEF IsLinear
<1> QED BY <1>4, <1>6, <1>8 DEF CapInv

(* Every step keeps the order and the cap: several requests may miss at    *)
(* once, and a token already in the Map may be inserted again.             *)
LEMMA CapInvariant == Spec => []CapInv
<1> USE TokensAssumption, TimesAssumption
<1>1. Init => CapInv
  <2> SUFFICES ASSUME Init PROVE CapInv
    OBVIOUS
  <2>1. Cached = {} /\ older = {}
    BY DEF Init, Cached
  <2> QED BY <2>1, FS_EmptySet DEF CapInv, IsLinear, CacheBounded
<1>2. TypeOK /\ CapInv /\ [Next]_vars => CapInv'
  <2> SUFFICES ASSUME TypeOK, CapInv, [Next]_vars PROVE CapInv'
    OBVIOUS
  <2>1. ASSUME UNCHANGED cacheVars PROVE CapInv'
    BY <2>1 DEF cacheVars, CapInv, Cached, CacheBounded, IsLinear
  <2>2. ASSUME NEW r \in Request, NEW t \in Token, StartIntrospection(r, t) PROVE CapInv'
    BY <2>1, <2>2, DropKeepsCap DEF StartIntrospection
  <2>3. ASSUME NEW r \in Request, FinishActive(r) PROVE CapInv'
    <3>1. token[r] \in Token
      BY <2>3 DEF TypeOK, FinishActive
    <3> QED BY <2>1, <2>3, <3>1, InsertKeepsCap DEF FinishActive
  <2>4. CASE \E r \in Request : \/ RefuseMisconfigured(r) \/ RefuseAnonymous(r)
                                \/ FinishInactive(r) \/ FinishFailed(r)
                                \/ FinishTimedOut(r) \/ ServiceAnswers(r)
                                \/ \E t \in Token : AdmitFromCache(r, t)
    BY <2>1, <2>4 DEF RefuseMisconfigured, RefuseAnonymous, FinishInactive, FinishFailed,
                      FinishTimedOut, ServiceAnswers, AdmitFromCache
  <2>5. CASE Tick \/ \E t \in Token : Issue(t) \/ Revoke(t)
    BY <2>1, <2>5 DEF Tick, Issue, Revoke
  <2>6. CASE UNCHANGED vars
    BY <2>1, <2>6 DEF vars
  <2> QED BY <2>2, <2>3, <2>4, <2>5, <2>6 DEF Next
<1> QED BY <1>1, <1>2, TypeCorrect, PTL DEF Spec

(* The Map never outgrows its cap.                                         *)
THEOREM CacheCapacity == Spec => []CacheBounded
<1>1. CapInv => CacheBounded
  BY DEF CapInv
<1> QED BY <1>1, CapInvariant, PTL

-----------------------------------------------------------------------------
(* What an insertion displaces.                                            *)

(* A live entry is not kept only if the Map is full of live entries, all   *)
(* the others of which are younger.                                        *)
LEMMA DisplacedIsOldest ==
  ASSUME TypeOK, CapInv, NEW t \in Swept, t \notin KeptForInsert
  PROVE  /\ Cardinality(Swept) = CacheMax
         /\ \A u \in Swept \ {t} : <<t, u>> \in older
<1> USE TokensAssumption, TimesAssumption
<1> DEFINE Y == {u \in Swept : <<t, u>> \in older}
<1>1. Swept \subseteq Cached /\ t \in Cached
  BY DEF Swept
<1>2. IsFiniteSet(Cached) /\ IsFiniteSet(Swept)
  BY <1>1, FS_Subset DEF Cached
<1>3. /\ Cardinality(Swept) \in Nat /\ Cardinality(Cached) \in Nat
      /\ Cardinality(Swept) <= Cardinality(Cached) /\ Cardinality(Cached) <= CacheMax
  BY <1>1, <1>2, FS_Subset, FS_CardinalityType DEF CapInv, CacheBounded
<1>4. Y \subseteq Swept \ {t}
  BY <1>1 DEF CapInv, IsLinear
<1>5. /\ IsFiniteSet(Swept \ {t})
      /\ Cardinality(Swept \ {t}) = Cardinality(Swept) - 1
  BY <1>2, FS_RemoveElement
<1>6. /\ Cardinality(Y) \in Nat /\ Cardinality(Y) <= Cardinality(Swept \ {t})
      /\ Cardinality(Y) = Cardinality(Swept \ {t}) => Y = Swept \ {t}
  BY <1>4, <1>5, FS_Subset, FS_CardinalityType
<1>7. ~(Cardinality(Y) < CacheMax - 1)
  BY <1>1 DEF KeptForInsert
<1> HIDE DEF Y
<1>8. Cardinality(Swept) = CacheMax /\ Y = Swept \ {t}
  BY <1>3, <1>5, <1>6, <1>7
<1> QED BY <1>8 DEF Y

(* Live decisions are displaced only from a Map full of them, the oldest   *)
(* first (bearer-auth.strategy.ts:84-95).                                  *)
THEOREM LiveAreSpared == Spec => EvictionSparesLive
<1> USE TokensAssumption, TimesAssumption
<1> DEFINE Displaced(t) == Live(t) /\ expiresAt'[t] = Absent
           Deserved(t) == /\ Cardinality(Swept) = CacheMax
                          /\ \A u \in Swept : expiresAt'[u] = expiresAt[u] => <<t, u>> \in older
<1>1. ASSUME TypeOK, CapInv, Next, NEW t \in Cached, Displaced(t)
      PROVE  Deserved(t)
  <2>1. t \in Token /\ t \in Swept /\ expiresAt[t] # Absent
    BY <1>1 DEF Cached, Swept
  <2>2. ~UNCHANGED expiresAt
    BY <1>1, <2>1
  <2>3. ASSUME NEW s \in Token, Insert(s), CacheTtl # 0 PROVE Deserved(t)
    <3>1. t # s
      BY <1>1, <2>1, <2>3 DEF Insert, TypeOK, Absent
    <3>2. t \notin KeptForInsert
      BY <1>1, <2>1, <2>3, <3>1 DEF Insert
    <3>3. /\ Cardinality(Swept) = CacheMax
          /\ \A u \in Swept \ {t} : <<t, u>> \in older
      BY <1>1, <2>1, <3>2, DisplacedIsOldest
    <3> QED BY <1>1, <2>1, <3>3
  <2>4. CASE \E r \in Request, s \in Token : StartIntrospection(r, s)
    <3>1. PICK r \in Request, s \in Token : StartIntrospection(r, s)
      BY <2>4
    <3>2. Drop(s) /\ ~Live(s)
      BY <2>2, <3>1 DEF StartIntrospection, cacheVars
    <3>3. s = t
      BY <1>1, <2>1, <3>2 DEF Drop, TypeOK
    <3> QED BY <1>1, <3>2, <3>3
  <2>5. CASE \E r \in Request : FinishActive(r)
    <3>1. PICK r \in Request : FinishActive(r)
      BY <2>5
    <3>2. Insert(token[r]) /\ token[r] \in Token /\ CacheTtl # 0
      BY <1>1, <2>2, <3>1 DEF FinishActive, Caching, cacheVars, TypeOK
    <3> QED BY <2>3, <3>2
  <2> QED
    BY <1>1, <2>2, <2>4, <2>5
       DEF Next, RefuseMisconfigured, RefuseAnonymous, AdmitFromCache, FinishInactive,
           FinishFailed, FinishTimedOut, ServiceAnswers, Issue, Revoke, Tick, cacheVars
<1>2. TypeOK /\ CapInv /\ [Next]_vars =>
        [\A t \in Cached : Displaced(t) => Deserved(t)]_vars
  BY <1>1
<1> QED BY <1>2, TypeCorrect, CapInvariant, PTL DEF Spec, EvictionSparesLive
=============================================================================
