---------------------------- MODULE RateLimitProof ----------------------------
(***************************************************************************)
(* Theorems about RateLimit, for any set of configurations, requests,       *)
(* workers and loaders, any retention and any sweep period.                 *)
(***************************************************************************)
EXTENDS RateLimit, NaturalsInduction, WellFoundedInduction, TLAPS

-------------------------------------------------------------------------------
(* Integer division. *)

LEMMA DivRange ==
  ASSUME NEW t \in Nat, NEW d \in Nat \ {0}
  PROVE  t \div d \in Nat /\ t \div d <= t
  BY SMTT(30)

LEMMA DivMonotone ==
  ASSUME NEW t \in Nat, NEW u \in Nat, NEW d \in Nat \ {0}, t <= u
  PROVE  t \div d <= u \div d
  BY SMTT(30)

LEMMA DivStep ==
  ASSUME NEW t \in Nat, NEW u \in Nat, NEW d \in Nat \ {0}, t + d <= u
  PROVE  t \div d < u \div d
  BY SMTT(30)

-------------------------------------------------------------------------------
(* The policy chosen for a request. *)

LEMMA SmallestElement ==
  ASSUME NEW S \in SUBSET Nat, S # {}
  PROVE  \E i \in S : \A j \in S : i <= j
<1>1. \A i, j \in Nat : <<j, i>> \in OpToRel(<, Nat) <=> j < i
  BY DEF OpToRel
<1>2. PICK R : IsWellFoundedOn(R, Nat) /\ \A i, j \in Nat : <<j, i>> \in R <=> j < i
  BY <1>1, NatLessThanWellFounded
<1>3. PICK i \in S : \A j \in S : ~ (<<j, i>> \in R)
  BY <1>2, WFMin
<1>4. ASSUME NEW j \in S
      PROVE  i <= j
  <2>1. i \in Nat /\ j \in Nat
    OBVIOUS
  <2>2. ~ (<<j, i>> \in R)
    BY <1>3
  <2>3. ~ (j < i)
    BY <1>2, <2>1, <2>2
  <2>4. QED
    BY <2>1, <2>3
<1>5. QED
  BY <1>4

LEMMA RuleIndices ==
  ASSUME NEW rt \in Configs
  PROVE  DOMAIN rt.rules \in SUBSET Nat
<1>1. ValidConfig(rt)
  BY ConfigsAssumption
<1>2. QED
  BY <1>1 DEF ValidConfig

(* pickRateLimitPolicy returns the default policy or that of some rule.      *)
LEMMA PickInConfig ==
  ASSUME NEW rt \in Configs, NEW q
  PROVE  PickRateLimitPolicy(rt, q) \in Picks
<1> DEFINE hits == {i \in DOMAIN rt.rules : RuleMatches(rt.rules[i], q)}
           first == CHOOSE i \in hits : \A j \in hits : i <= j
<1>1. CASE hits = {}
  BY <1>1 DEF PickRateLimitPolicy, Picks, PoliciesOf
<1>2. CASE hits # {}
  <2>1. \E i \in hits : \A j \in hits : i <= j
    BY <1>2, RuleIndices, SmallestElement
  <2>2. first \in DOMAIN rt.rules
    BY <2>1
  <2>3. PickRateLimitPolicy(rt, q) =
          [id |-> PolicyID(rt, first), policy |-> rt.rules[first].policy]
    BY <1>2 DEF PickRateLimitPolicy
  <2>4. PickRateLimitPolicy(rt, q) \in PoliciesOf(rt)
    <3> HIDE DEF first
    <3>1. QED
      BY <2>2, <2>3 DEF PoliciesOf
  <2>5. QED
    BY <2>4 DEF Picks
<1>3. QED
  BY <1>1, <1>2

LEMMA PolicyInteger ==
  ASSUME NEW pick \in Picks
  PROVE  pick.policy.window \in Int /\ MaxHits(pick.policy) \in Int
<1>1. PICK rt \in Configs : pick \in PoliciesOf(rt)
  BY DEF Picks
<1>2. ValidConfig(rt)
  BY ConfigsAssumption
<1>3. \/ pick.policy = rt.defaultPolicy
      \/ \E i \in DOMAIN rt.rules : pick.policy = rt.rules[i].policy
  BY <1>1 DEF PoliciesOf
<1>4. ValidPolicy(pick.policy)
  BY <1>2, <1>3 DEF ValidConfig
<1>5. QED
  BY <1>4, MaxIntAssumption DEF ValidPolicy, MaxHits

LEMMA CountedPolicy ==
  ASSUME NEW p \in CountedPolicies
  PROVE  /\ p.window \in WindowLengths
         /\ p.window \in Nat \ {0}
         /\ MaxHits(p) \in Nat \ {0}
  BY PolicyInteger DEF CountedPolicies, WindowLengths

(* A request that is not exempt is counted under a key and a policy of the    *)
(* configuration it read.                                                     *)
LEMMA CountedPick ==
  ASSUME NEW rt \in Configs, NEW q \in Requests, ~Exempt(rt, q)
  PROVE  LET pick == PickRateLimitPolicy(rt, q)
         IN  /\ pick.policy \in CountedPolicies
             /\ <<pick.id, BuildRateLimitKey(pick.policy.keyBy, q)>> \in CounterKeys
<1> DEFINE pick == PickRateLimitPolicy(rt, q)
<1>1. pick \in Picks
  BY PickInConfig
<1>2. pick.policy.window > 0 /\ MaxHits(pick.policy) > 0
  BY <1>1, PolicyInteger DEF Exempt
<1>3. QED
  BY <1>1, <1>2 DEF CountedPolicies, CounterKeys

-------------------------------------------------------------------------------
(* Type correctness. *)

LEMMA WindowInTimes ==
  ASSUME NEW p \in CountedPolicies, NEW now \in Times
  PROVE  WindowID(now, p) \in Times
<1>1. now \div p.window \in Nat /\ now \div p.window <= now
  BY CountedPolicy, DivRange, BoundsAssumption DEF Times
<1>2. QED
  BY <1>1, BoundsAssumption DEF WindowID, Times

LEMMA HitType ==
  ASSUME NEW c \in Counter, NEW p \in CountedPolicies, NEW now \in Times
  PROVE  /\ Hit(c, p, now) \in Counter
         /\ Rolled(c, WindowID(now, p)) \in Counter
<1>1. WindowID(now, p) \in Times
  BY WindowInTimes
<1>2. Rolled(c, WindowID(now, p)) \in Counter
  BY <1>1 DEF Rolled, Counter
<1>3. QED
  BY <1>1, <1>2 DEF Hit, Counter

LEMMA NoCounterType == NoCounter \in Counter
  BY BoundsAssumption DEF NoCounter, Counter, Times

LEMMA NothingAdmittedType ==
  /\ NothingAdmitted \in [CounterKeys -> [WindowLengths -> [Times -> Nat]]]
  /\ NeverCounted \in [CounterKeys -> Times]
  BY BoundsAssumption DEF NothingAdmitted, NoRequests, NeverCounted, Times

LEMMA RememberedType ==
  ASSUME TypeOK, NEW k \in CounterKeys, NEW now
  PROVE  Remembered(k, now) \in [WindowLengths -> [Times -> Nat]]
<1>1. NoRequests \in [Times -> Nat]
  BY DEF NoRequests
<1>2. QED
  BY <1>1 DEF Remembered, TypeOK

LEMMA InitType == Init => TypeOK
  BY BoundsAssumption, SweepAssumption, NoCounterType, NothingAdmittedType
     DEF Init, TypeOK, Times, IdleCall

(* What the guard of Count and the type invariant say of the values it uses.  *)
LEMMA CountFacts ==
  ASSUME TypeOK, NEW g \in Workers, call[g].pc = "counting"
  PROVE  /\ call[g].ckey \in CounterKeys
         /\ call[g].policy \in CountedPolicies
         /\ call[g].now \in Times
         /\ call[g].policy.window \in WindowLengths
         /\ WindowID(call[g].now, call[g].policy) \in Times
<1>1. call[g] \in CountingCall
  BY DEF TypeOK, IdleCall, ArrivedCall
<1>2. QED
  BY <1>1, CountedPolicy, WindowInTimes DEF CountingCall

LEMMA StepType == TypeOK /\ [Next]_vars => TypeOK'
<1> SUFFICES ASSUME TypeOK, [Next]_vars
             PROVE  TypeOK'
  OBVIOUS
<1> USE DEF TypeOK
<1>1. CASE Tick
  BY <1>1, BoundsAssumption DEF Tick, counting, history, Times
<1>2. ASSUME NEW g \in Workers, NEW q \in Requests, Arrive(g, q)
      PROVE  TypeOK'
  BY <1>2, BoundsAssumption DEF Arrive, counting, history, ArrivedCall
<1>3. ASSUME NEW g \in Workers, PickPolicy(g)
      PROVE  TypeOK'
  <2> DEFINE rt == rateLimitRuntime
             q == call[g].req
             pick == PickRateLimitPolicy(rt, q)
  <2>1. call[g] \in ArrivedCall
    BY <1>3 DEF PickPolicy, IdleCall, CountingCall
  <2>2. call'[g] \in IdleCall \cup CountingCall
    <3>1. CASE rt = NoRuntime \/ Exempt(rt, q)
      BY <1>3, <3>1 DEF PickPolicy, IdleCall
    <3>2. CASE ~(rt = NoRuntime \/ Exempt(rt, q))
      <4>1. rt \in Configs /\ q \in Requests /\ ~Exempt(rt, q)
        BY <2>1, <3>2 DEF ArrivedCall
      <4>2. /\ pick.policy \in CountedPolicies
            /\ <<pick.id, BuildRateLimitKey(pick.policy.keyBy, q)>> \in CounterKeys
        BY <4>1, CountedPick
      <4>3. call'[g] = [pc |-> "counting",
                        ckey |-> <<pick.id, BuildRateLimitKey(pick.policy.keyBy, q)>>,
                        policy |-> pick.policy,
                        now |-> call[g].now]
        BY <1>3, <3>2 DEF PickPolicy
      <4>4. QED
        BY <2>1, <4>2, <4>3 DEF ArrivedCall, CountingCall
    <3>3. QED
      BY <3>1, <3>2
  <2>3. call' \in [Workers -> IdleCall \cup ArrivedCall \cup CountingCall]
    <3>1. \A h \in Workers : h # g => call'[h] = call[h]
      BY <1>3 DEF PickPolicy
    <3>2. DOMAIN call' = Workers /\ call' = [h \in Workers |-> call'[h]]
      BY <1>3 DEF PickPolicy
    <3>3. QED
      BY <2>2, <3>1, <3>2
  <2>4. QED
    BY <1>3, <2>3 DEF PickPolicy, counting, history
<1>4. ASSUME NEW g \in Workers, Count(g)
      PROVE  TypeOK'
  <2> DEFINE p == call[g].policy
             now == call[g].now
             k == call[g].ckey
             c == rateCounters[k]
             w == WindowID(now, p)
             counters == [rateCounters EXCEPT ![k] = Hit(c, p, now)]
  <2>1. /\ k \in CounterKeys /\ p \in CountedPolicies /\ now \in Times
        /\ p.window \in WindowLengths /\ w \in Times
    BY <1>4, CountFacts DEF Count
  <2>2. counters \in [CounterKeys -> Counter]
    <3>1. Hit(c, p, now) \in Counter
      BY <2>1, HitType
    <3>2. QED
      BY <3>1
  <2>3. rateCounters' \in [CounterKeys -> Counter]
    <3>1. Swept(counters, now) \in [CounterKeys -> Counter]
      BY <2>2, NoCounterType DEF Swept
    <3>2. rateCounters' = Swept(counters, now) \/ rateCounters' = counters
      BY <1>4 DEF Count
    <3>3. QED
      BY <2>2, <3>1, <3>2
  <2>4. rateCounterSweep' \in 0..(SweepEvery - 1)
    <3>1. rateCounterSweep' = (rateCounterSweep + 1) % SweepEvery
      BY <1>4 DEF Count
    <3>2. rateCounterSweep \in Nat
      BY SweepAssumption
    <3> HIDE DEF TypeOK
    <3>3. QED
      BY <3>1, <3>2, SweepAssumption
  <2>5. call' \in [Workers -> IdleCall \cup ArrivedCall \cup CountingCall]
    BY <1>4 DEF Count, IdleCall
  <2>6. admitted' \in [CounterKeys -> [WindowLengths -> [Times -> Nat]]]
    <3>1. [admitted EXCEPT ![k][p.window][w] = @ + 1]
            \in [CounterKeys -> [WindowLengths -> [Times -> Nat]]]
      BY <2>1
    <3>2. admitted' = admitted \/ admitted' = [admitted EXCEPT ![k][p.window][w] = @ + 1]
      BY <1>4 DEF Count
    <3>3. QED
      BY <3>1, <3>2
  <2>7. high' \in Times /\ calm' \in BOOLEAN /\ last' \in [CounterKeys -> Times]
    BY <1>4, <2>1 DEF Count
  <2>8. remembered' \in [CounterKeys -> [WindowLengths -> [Times -> Nat]]]
    <3> DEFINE R == Remembered(k, now)
    <3>1. R \in [WindowLengths -> [Times -> Nat]]
      BY <2>1, RememberedType
    <3>2. \/ remembered' = [remembered EXCEPT ![k] = R]
          \/ remembered' = [remembered EXCEPT ![k] = [R EXCEPT ![p.window][w] = @ + 1]]
      BY <1>4 DEF Count
    <3> HIDE DEF R
    <3>3. [R EXCEPT ![p.window][w] = @ + 1] \in [WindowLengths -> [Times -> Nat]]
      BY <2>1, <3>1
    <3>4. QED
      BY <2>1, <3>1, <3>2, <3>3
  <2>9. QED
    BY <1>4, <2>3, <2>4, <2>5, <2>6, <2>7, <2>8 DEF Count
<1>5. ASSUME NEW l \in Loaders, ReloadBuild(l)
      PROVE  TypeOK'
  BY <1>5 DEF ReloadBuild, counting, history, Reloading
<1>6. ASSUME NEW l \in Loaders, ReloadSwap(l)
      PROVE  TypeOK'
  <2>1. reload[l] \in Reloading
    BY <1>6 DEF ReloadSwap, IdleReload
  <2>2. QED
    BY <1>6, <2>1 DEF ReloadSwap, counting, history, Reloading
<1>7. ASSUME NEW l \in Loaders, ReloadReset(l)
      PROVE  TypeOK'
  <2>1. /\ reload' \in [Loaders -> {IdleReload} \cup Reloading]
        /\ UNCHANGED <<clock, rateLimitRuntime, call, arrived>>
    BY <1>7 DEF ReloadReset, TypeOK
  <2>2. rateCounters' \in [CounterKeys -> Counter] /\ rateCounterSweep' \in 0..(SweepEvery - 1)
    BY <1>7, SweepAssumption, NoCounterType DEF ReloadReset
  <2>3. /\ admitted' \in [CounterKeys -> [WindowLengths -> [Times -> Nat]]]
        /\ remembered' \in [CounterKeys -> [WindowLengths -> [Times -> Nat]]]
    BY <1>7, NothingAdmittedType DEF ReloadReset
  <2>4. last' \in [CounterKeys -> Times] /\ high' \in Times /\ calm' \in BOOLEAN
    BY <1>7, BoundsAssumption DEF ReloadReset, NeverCounted, Times
  <2>5. QED
    BY <2>1, <2>2, <2>3, <2>4 DEF TypeOK
<1>8. CASE UNCHANGED vars
  BY <1>8 DEF vars
<1>9. QED
  BY <1>1, <1>2, <1>3, <1>4, <1>5, <1>6, <1>7, <1>8 DEF Next

(* Every reachable state has the declared types: in particular every counted   *)
(* request belongs to an enabled policy with a positive window and quota, so   *)
(* EvaluateRateLimit never divides by zero.                                    *)
THEOREM TypeCorrect == Spec => []TypeOK
  BY InitType, StepType, PTL DEF Spec

-------------------------------------------------------------------------------
(* The quota. *)

LEMMA Readings ==
  ASSUME TypeOK, NEW len \in WindowLengths
  PROVE  /\ len \in Nat \ {0}
         /\ high \in Nat /\ high \div len \in Times
         /\ \A k \in CounterKeys : rateCounters[k] \in Counter
<1>1. len \in Nat \ {0} /\ high \in Times
  BY DEF TypeOK, WindowLengths
<1>2. high \div len \in Nat /\ high \div len <= high
  BY <1>1, DivRange, BoundsAssumption DEF Times
<1>3. QED
  BY <1>1, <1>2, BoundsAssumption DEF TypeOK, Times

(* What a count in clock order knows: the latest reading becomes its own.      *)
LEMMA CalmCount ==
  ASSUME TypeOK, NEW g \in Workers, Count(g), calm'
  PROVE  /\ calm
         /\ high <= call[g].now
         /\ high' = call[g].now
         /\ rateCounters[call[g].ckey].window <= WindowID(call[g].now, call[g].policy)
<1>1. /\ call[g].now \in Times /\ high \in Times
      /\ WindowID(call[g].now, call[g].policy) \in Times
      /\ rateCounters[call[g].ckey].window \in Times
  BY CountFacts DEF Count, TypeOK, Counter
<1>2. calm /\ ~Overtaken(rateCounters[call[g].ckey], call[g].policy, call[g].now)
  BY DEF Count
<1>3. high' = IF call[g].now > high THEN call[g].now ELSE high
  BY DEF Count
<1>4. QED
  BY <1>1, <1>2, <1>3, BoundsAssumption DEF Overtaken, Times

(* A key silent for longer than Retain made no request in the current window, *)
(* unless that window is longer than Retain.                                    *)
LEMMA SilenceOutlastsWindow ==
  ASSUME NEW t \in Nat, NEW u \in Nat, NEW len \in Nat \ {0}, len <= Retain, t < u - Retain
  PROVE  t \div len < u \div len
<1>1. t + len <= u
  BY RetainAssumption
<1>2. QED
  BY <1>1, DivStep

(* What the invariant says of a key when its window is read at a later time.    *)
LEMMA Covered ==
  ASSUME TypeOK, QuotaInv, calm, NEW now \in Times, high <= now,
         NEW k \in CounterKeys, NEW len \in WindowLengths,
         Remembered(k, now)[len][now \div len] > 0
  PROVE  /\ now \div len = high \div len
         /\ ~MayForget(k, len, now)
         /\ now \div len <= rateCounters[k].window
         /\ now \div len = rateCounters[k].window
              => Remembered(k, now)[len][now \div len] <= rateCounters[k].count
         /\ now \div len = last[k] \div len
         /\ last[k] >= now - Retain
         /\ rateCounters[k].updated = last[k]
<1> DEFINE w == now \div len
           h == high \div len
<1>1. /\ len \in Nat \ {0} /\ now \in Nat /\ high \in Nat /\ last[k] \in Nat
      /\ h \in Times
  <2>1. len \in Nat \ {0} /\ high \in Nat /\ h \in Times
    BY Readings
  <2>2. now \in Nat /\ last[k] \in Nat
    BY BoundsAssumption DEF TypeOK, Times
  <2>3. QED
    BY <2>1, <2>2
<1>2. w \in Times /\ w \in Nat /\ h \in Nat /\ h <= w
  <2>1. w \in Nat /\ w <= now
    BY <1>1, DivRange
  <2>2. h <= w
    BY <1>1, DivMonotone
  <2>3. QED
    BY <1>1, <2>1, <2>2, BoundsAssumption DEF Times
<1>3. CounterCoversWindow(k, len) /\ NothingAhead(k, len) /\ CounterKept(k)
  BY DEF QuotaInv
<1>4. ~MayForget(k, len, now) /\ Remembered(k, now)[len] = remembered[k][len]
  <2>1. MayForget(k, len, now) => Remembered(k, now)[len][w] = 0
    BY <1>2 DEF Remembered, NoRequests
  <2>2. QED
    BY <2>1 DEF Remembered
<1>5. w = h
  <2>1. w > h => remembered[k][len][w] = 0
    BY <1>2, <1>3 DEF NothingAhead
  <2>2. QED
    BY <1>2, <1>4, <2>1
<1>6. ~MayForget(k, len, high) /\ Remembered(k, high)[len] = remembered[k][len]
  <2>1. ~MayForget(k, len, high)
    BY <1>1, <1>4, RetainAssumption DEF MayForget
  <2>2. QED
    BY <2>1 DEF Remembered
<1>7. /\ h <= rateCounters[k].window
      /\ h = rateCounters[k].window => remembered[k][len][h] <= rateCounters[k].count
      /\ h = last[k] \div len
  BY <1>3, <1>4, <1>5, <1>6 DEF CounterCoversWindow
<1>8. last[k] >= now - Retain
  <2>1. CASE len > Retain
    BY <1>1, <1>4, <2>1, RetainAssumption DEF MayForget
  <2>2. CASE len <= Retain
    <3>1. last[k] < now - Retain => last[k] \div len < w
      BY <1>1, <2>2, SilenceOutlastsWindow
    <3> DEFINE l == last[k] \div len
    <3>2. l = w
      BY <1>5, <1>7
    <3> HIDE DEF l, w
    <3>3. ~(last[k] < now - Retain)
      BY <1>2, <3>1, <3>2 DEF l
    <3>4. QED
      BY <1>1, <3>3, RetainAssumption
  <2>3. QED
    BY <1>1, <2>1, <2>2, RetainAssumption
<1>9. rateCounters[k].updated = last[k]
  BY <1>1, <1>3, <1>8, RetainAssumption DEF CounterKept
<1>10. QED
  BY <1>4, <1>5, <1>7, <1>8, <1>9

(* The counter, rolled to the request's window, covers all the requests that    *)
(* were let through in that window and not forgotten.                           *)
LEMMA CountCovers ==
  ASSUME TypeOK, QuotaInv, NEW g \in Workers, Count(g), calm'
  PROVE  LET w == WindowID(call[g].now, call[g].policy)
         IN  RememberedInWindow(g) <= Rolled(rateCounters[call[g].ckey], w).count
<1> DEFINE p == call[g].policy
           now == call[g].now
           k == call[g].ckey
           c == rateCounters[k]
           w == WindowID(now, p)
           passed == Remembered(k, now)[p.window][w]
           counted == Rolled(c, w).count
<1>1. /\ k \in CounterKeys /\ p \in CountedPolicies /\ now \in Times
      /\ p.window \in WindowLengths /\ w \in Times
  BY CountFacts DEF Count
<1>2. calm /\ high <= now /\ c.window <= w
  BY CalmCount
<1>3. passed \in Nat
  BY <1>1, RememberedType
<1>4. counted \in Nat /\ c.window \in Nat /\ w \in Nat
  <2>1. c \in Counter
    BY <1>1 DEF TypeOK
  <2>2. Rolled(c, w) \in Counter
    BY <1>1, <2>1, HitType
  <2>3. QED
    BY <1>1, <2>1, <2>2, BoundsAssumption DEF Counter, Times
<1>5. passed > 0 => w <= c.window /\ (w = c.window => passed <= c.count)
  BY <1>1, <1>2, Covered DEF WindowID
<1>6. passed <= counted
  <2>1. CASE passed > 0
    <3>1. w = c.window
      BY <1>2, <1>4, <1>5, <2>1
    <3>2. QED
      BY <1>5, <2>1, <3>1 DEF Rolled
  <2> HIDE DEF passed, counted
  <2>2. QED
    BY <1>3, <1>4, <2>1
<1>7. QED
  BY <1>6 DEF RememberedInWindow

Cleared ==
    /\ high = 0
    /\ admitted = NothingAdmitted /\ remembered = NothingAdmitted
    /\ last = NeverCounted
    /\ rateCounters = [k \in CounterKeys |-> NoCounter]

LEMMA ClearedQuota == TypeOK /\ Cleared => QuotaInv
<1> SUFFICES ASSUME TypeOK, Cleared
             PROVE  QuotaInv
  OBVIOUS
<1> USE DEF Cleared
<1>1. ASSUME NEW k \in CounterKeys, NEW len \in WindowLengths, NEW w \in Times
      PROVE  remembered[k][len][w] = 0 /\ Remembered(k, high)[len][w] = 0
  BY <1>1 DEF NothingAdmitted, Remembered, NoRequests
<1>2. ASSUME NEW k \in CounterKeys, NEW len \in WindowLengths
      PROVE  CounterCoversWindow(k, len) /\ NothingAhead(k, len)
  BY <1>1, Readings DEF CounterCoversWindow, NothingAhead
<1>3. \A k \in CounterKeys : CounterKept(k)
  BY DEF CounterKept, NoCounter, NeverCounted
<1>4. QED
  BY <1>2, <1>3 DEF QuotaInv

(* Count preserves the invariant: the counter it updates covers the window of   *)
(* the request, and a sweep deletes only counters of keys that were silent for   *)
(* longer than Retain.                                                          *)
LEMMA CountQuota ==
  ASSUME TypeOK, TypeOK', QuotaInv, NEW g \in Workers, Count(g), calm'
  PROVE  QuotaInv'
<1> DEFINE p == call[g].policy
           now == call[g].now
           k == call[g].ckey
           c == rateCounters[k]
           w == WindowID(now, p)
           r == Rolled(c, w)
           counters == [rateCounters EXCEPT ![k] = Hit(c, p, now)]
<1>1. /\ k \in CounterKeys /\ p \in CountedPolicies /\ now \in Times /\ now \in Nat
      /\ p.window \in WindowLengths /\ w \in Times /\ w \in Nat
  <2>1. /\ k \in CounterKeys /\ p \in CountedPolicies /\ now \in Times
        /\ p.window \in WindowLengths /\ w \in Times
    BY CountFacts DEF Count
  <2>2. QED
    BY <2>1, BoundsAssumption DEF Times
<1>2. calm /\ high <= now /\ high' = now /\ c.window <= w /\ high \in Nat
  <2>1. high \in Nat
    BY BoundsAssumption DEF TypeOK, Times
  <2>2. QED
    BY <2>1, CalmCount
<1>3. c \in Counter /\ r \in Counter /\ Hit(c, p, now) \in Counter
  BY <1>1, HitType DEF TypeOK
<1>4. counters[k] = [window |-> w,
                     count |-> IF Allowed(r, p) THEN r.count + 1 ELSE r.count,
                     updated |-> now]
  <2>1. r.window = w
    BY <1>3 DEF Rolled, Counter
  <2>2. counters[k] = Hit(c, p, now)
    BY <1>1 DEF TypeOK
  <2>3. QED
    BY <2>1, <2>2 DEF Hit
<1>5. ASSUME NEW j \in CounterKeys, j # k
      PROVE  /\ counters[j] = rateCounters[j] /\ last'[j] = last[j]
             /\ remembered'[j] = remembered[j]
  BY <1>1, <1>5 DEF TypeOK, Count
<1>6. \A j \in CounterKeys :
        rateCounters'[j] = counters[j] \/ (Idle(counters[j], now) /\ rateCounters'[j] = NoCounter)
  BY DEF Count, Swept, TypeOK
<1>7. rateCounters'[k] = counters[k] /\ last'[k] = now
  <2>1. rateCounters'[k] = counters[k]
    BY <1>1, <1>4, <1>6, RetainAssumption DEF Idle
  <2>2. last'[k] = now
    BY <1>1 DEF Count, TypeOK
  <2>3. QED
    BY <2>1, <2>2
<1>8. ASSUME NEW len \in WindowLengths
      PROVE  /\ len \in Nat \ {0}
             /\ high \div len \in Nat /\ now \div len \in Times /\ now \div len \in Nat
             /\ high \div len <= now \div len
  <2>1. len \in Nat \ {0}
    BY Readings
  <2>2. now \div len \in Nat /\ now \div len <= now /\ high \div len \in Nat
    BY <1>1, <1>2, <2>1, DivRange
  <2>3. high \div len <= now \div len
    BY <1>1, <1>2, <2>1, DivMonotone
  <2>4. QED
    BY <1>1, <2>1, <2>2, <2>3, BoundsAssumption DEF Times
\* The key of the request: what it remembers, and one more in its window.
<1>9. ASSUME NEW len \in WindowLengths
      PROVE  /\ ~(len = p.window) => remembered'[k][len] = Remembered(k, now)[len]
             /\ len = p.window => \A x \in Times \ {w} :
                  remembered'[k][len][x] = Remembered(k, now)[len][x]
             /\ len = p.window => remembered'[k][len][w] =
                  IF Allowed(r, p) THEN Remembered(k, now)[len][w] + 1
                                   ELSE Remembered(k, now)[len][w]
  <2> DEFINE R == Remembered(k, now)
  <2>1. remembered' = [remembered EXCEPT ![k] =
                        IF Allowed(r, p) THEN [R EXCEPT ![p.window][w] = @ + 1] ELSE R]
    BY DEF Count
  <2>2. R \in [WindowLengths -> [Times -> Nat]]
    BY <1>1, RememberedType
  <2> HIDE DEF R, r, w, p, k
  <2>3. remembered'[k] = IF Allowed(r, p) THEN [R EXCEPT ![p.window][w] = @ + 1] ELSE R
    BY <1>1, <2>1 DEF TypeOK
  <2>4. QED
    BY <1>1, <2>2, <2>3 DEF R
<1>10. ASSUME NEW j \in CounterKeys
       PROVE  CounterKept(j)'
  <2>1. CounterKept(j)
    BY <1>2 DEF QuotaInv
  <2>2. CASE j = k
    BY <1>1, <1>2, <1>4, <1>7, <2>2 DEF CounterKept
  <2>3. CASE j # k
    <3>1. /\ last'[j] = last[j] /\ counters[j] = rateCounters[j] /\ last[j] \in Nat
      BY <1>5, <2>3, BoundsAssumption DEF TypeOK, Times
    <3>2. /\ last[j] <= high
          /\ last[j] < high - Retain \/ rateCounters[j].updated = last[j]
      BY <2>1 DEF CounterKept
    <3>3. rateCounters'[j] = rateCounters[j] \/ rateCounters[j].updated < now - Retain
      BY <1>6, <3>1 DEF Idle
    <3>4. last[j] <= now /\ (last[j] < now - Retain \/ rateCounters'[j].updated = last[j])
      BY <1>1, <1>2, <3>1, <3>2, <3>3, RetainAssumption
    <3>5. QED
      BY <1>2, <3>1, <3>4 DEF CounterKept
  <2>4. QED
    BY <2>2, <2>3
\* Nothing was let through in a window after that of the latest reading.
<1>11. ASSUME NEW j \in CounterKeys, NEW len \in WindowLengths
       PROVE  NothingAhead(j, len)'
  <2> SUFFICES ASSUME NEW x \in Times, x > now \div len
               PROVE  remembered'[j][len][x] = 0
    BY <1>2 DEF NothingAhead
  <2>1. remembered[j][len][x] = 0
    <3>1. NothingAhead(j, len)
      BY <1>2 DEF QuotaInv
    <3>2. x > high \div len
      BY <1>8, BoundsAssumption DEF Times
    <3>3. QED
      BY <3>1, <3>2 DEF NothingAhead
  <2>2. CASE j # k
    BY <1>5, <2>1, <2>2
  <2>3. CASE j = k
    <3>1. Remembered(j, now)[len][x] = 0
      BY <2>1 DEF Remembered, NoRequests
    <3>2. len = p.window => x # w
      BY <1>8 DEF WindowID
    <3>3. QED
      BY <1>9, <2>3, <3>1, <3>2
  <2>4. QED
    BY <2>2, <2>3
\* The counters that the sweep leaves cover the window of the latest reading.
<1>12. ASSUME NEW j \in CounterKeys, NEW len \in WindowLengths
       PROVE  CounterCoversWindow(j, len)'
  <2> DEFINE x == now \div len
             passed == remembered'[j][len][x]
             d == rateCounters'[j]
  <2>1. SUFFICES ASSUME ~(len > Retain /\ last'[j] < now - Retain), passed > 0
                 PROVE  /\ x <= d.window
                        /\ x = d.window => passed <= d.count
                        /\ x = last'[j] \div len
    BY <1>2, <1>8 DEF CounterCoversWindow, Remembered, MayForget, NoRequests
  <2>2. CASE j = k /\ len = p.window
    <3>1. x = w
      BY <2>2 DEF WindowID
    <3> DEFINE before == Remembered(k, now)[len][w]
    <3>2. before <= r.count /\ before \in Nat /\ r.count \in Nat
      <4>1. before <= r.count
        BY <2>2, CountCovers DEF RememberedInWindow
      <4>2. before \in Nat
        BY <1>1, RememberedType
      <4>3. QED
        BY <1>3, <4>1, <4>2 DEF Counter
    <3>3. passed = IF Allowed(r, p) THEN before + 1 ELSE before
      BY <1>9, <2>1, <2>2, <3>1
    <3>4. /\ d.window = w /\ d.count = IF Allowed(r, p) THEN r.count + 1 ELSE r.count
      BY <1>4, <1>7, <2>2
    <3> HIDE DEF before, passed, r
    <3>5. passed <= d.count
      BY <3>2, <3>3, <3>4
    <3> HIDE DEF d
    <3>6. QED
      BY <1>1, <1>7, <2>2, <3>1, <3>4, <3>5
  <2>3. CASE j = k /\ len # p.window
    <3>1. passed = Remembered(k, now)[len][x]
      BY <1>9, <2>1, <2>3
    <3>2. x <= c.window /\ (x = c.window => passed <= c.count)
      BY <1>1, <1>2, <2>1, <2>3, <3>1, Covered
    <3>3. passed \in Nat /\ x \in Nat /\ c.window \in Nat /\ r.count \in Nat
      <4>1. passed \in Nat
        BY <1>1, <1>8, <3>1, RememberedType
      <4>2. QED
        BY <1>3, <1>8, <4>1, BoundsAssumption DEF Counter, Times
    <3>4. d.window = w /\ d.count >= r.count
      BY <1>4, <1>7, <2>3, <3>3
    <3>5. w = c.window => r.count = c.count
      BY DEF Rolled
    <3> HIDE DEF passed, r, d, x
    <3>6. x <= w /\ (x = w => passed <= r.count)
      BY <1>1, <1>2, <3>2, <3>3, <3>5
    <3>7. d.count \in Nat
      BY <2>3 DEF d, TypeOK, Counter
    <3>8. x <= d.window /\ (x = d.window => passed <= d.count)
      BY <3>3, <3>4, <3>6, <3>7
    <3>9. x = last'[j] \div len
      BY <1>7, <2>3 DEF x
    <3>10. QED
      BY <3>8, <3>9
  <2>4. CASE j # k
    <3>1. /\ counters[j] = rateCounters[j] /\ last'[j] = last[j]
          /\ passed = Remembered(j, now)[len][x]
      BY <1>5, <2>1, <2>4 DEF Remembered, MayForget
    <3>2. /\ x <= rateCounters[j].window
          /\ x = rateCounters[j].window => passed <= rateCounters[j].count
          /\ x = last[j] \div len
          /\ last[j] >= now - Retain
          /\ rateCounters[j].updated = last[j]
      BY <1>1, <1>2, <2>1, <3>1, Covered
    <3>3. ~Idle(counters[j], now)
      <4>1. last[j] \in Nat
        BY BoundsAssumption DEF TypeOK, Times
      <4>2. QED
        BY <1>1, <3>1, <3>2, <4>1, RetainAssumption DEF Idle
    <3>4. d = rateCounters[j]
      BY <1>6, <3>1, <3>3
    <3>5. QED
      BY <3>1, <3>2, <3>4
  <2>5. QED
    BY <2>2, <2>3, <2>4
<1>13. QED
  BY <1>10, <1>11, <1>12 DEF QuotaInv

LEMMA StepQuota ==
  ASSUME TypeOK, TypeOK', QuotaInv, [Next]_vars
  PROVE  QuotaInv'
<1>1. ASSUME NEW g \in Workers, Count(g)
      PROVE  QuotaInv'
  <2>1. CASE calm'
    BY <1>1, <2>1, CountQuota
  <2>2. CASE ~calm'
    BY <2>2 DEF QuotaInv
  <2>3. QED
    BY <2>1, <2>2
<1>2. ASSUME NEW l \in Loaders, ReloadReset(l)
      PROVE  QuotaInv'
  <2>1. TypeOK' /\ Cleared'
    BY <1>2 DEF ReloadReset, Cleared
  <2>2. TypeOK' /\ Cleared' => QuotaInv'
    BY ClearedQuota, PTL
  <2>3. QED
    BY <2>1, <2>2
<1>3. CASE UNCHANGED <<counting, history>>
  BY <1>3 DEF counting, history, QuotaInv, CounterKept, CounterCoversWindow, NothingAhead,
              Remembered, MayForget
<1>4. ASSUME [Next]_vars, \A g \in Workers : ~Count(g), \A l \in Loaders : ~ReloadReset(l)
      PROVE  UNCHANGED <<counting, history>>
  BY <1>4 DEF Next, vars, counting, history, Tick, Arrive, PickPolicy, ReloadBuild, ReloadSwap
<1>5. QED
  BY <1>1, <1>2, <1>3, <1>4

(* While requests are counted in clock order, the counter of the current window    *)
(* has lost no request that was let through, whatever sweeps and reloads happen,   *)
(* unless the window is longer than a counter may stay idle and the key was silent  *)
(* for longer than that.                                                           *)
THEOREM QuotaInvariant == Spec => []QuotaInv
<1>1. Init => QuotaInv
  BY InitType, ClearedQuota DEF Init, Cleared
<1>2. TypeOK /\ TypeOK' /\ QuotaInv /\ [Next]_vars => QuotaInv'
  BY StepQuota
<1>3. QED
  BY <1>1, <1>2, TypeCorrect, PTL DEF Spec

(* A step that decides the evaluation of g is g's critical section.             *)
LEMMA DecidedByCount ==
  ASSUME TypeOK, [Next]_vars, NEW g \in Workers, NEW reply, Decided(g, reply)
  PROVE  Count(g)
<1> USE DEF TypeOK, Decided
<1>1. ASSUME NEW f \in Workers, NEW q \in Requests, Arrive(f, q)
      PROVE  FALSE
  BY <1>1 DEF Arrive
<1>2. ASSUME NEW f \in Workers, PickPolicy(f)
      PROVE  FALSE
  BY <1>2 DEF PickPolicy
<1>3. ASSUME NEW f \in Workers, Count(f)
      PROVE  f = g
  BY <1>3 DEF Count
<1>4. Tick \/ UNCHANGED vars => FALSE
  BY DEF Tick, vars
<1>5. ASSUME NEW l \in Loaders, ReloadBuild(l) \/ ReloadSwap(l) \/ ReloadReset(l)
      PROVE  FALSE
  BY <1>5 DEF ReloadBuild, ReloadSwap, ReloadReset
<1>6. QED
  BY <1>1, <1>2, <1>3, <1>4, <1>5 DEF Next

(* In every epoch in which requests are counted in clock order, the limiter admits  *)
(* at most limit + burst requests of a key per window, if the window is no longer    *)
(* than an idle counter is kept; in a longer one, at most that many between two       *)
(* silences of the key that are longer than that.                                    *)
THEOREM QuotaRespected == Spec => AdmitsWithinQuota
<1>1. ASSUME TypeOK, QuotaInv, [Next]_vars, NEW g \in Workers,
             Decided(g, "allowed"), calm'
      PROVE  RememberedInWindow(g) < MaxHits(call[g].policy)
  <2> DEFINE r == Rolled(rateCounters[call[g].ckey], WindowID(call[g].now, call[g].policy))
  <2>1. Count(g)
    BY <1>1, DecidedByCount
  <2>2. RememberedInWindow(g) <= r.count
    BY <1>1, <2>1, CountCovers
  <2>3. r.count < MaxHits(call[g].policy)
    BY <1>1, <2>1 DEF Count, Decided, Allowed, TypeOK
  <2>4. /\ RememberedInWindow(g) \in Nat /\ r.count \in Nat
        /\ MaxHits(call[g].policy) \in Nat
    <3>1. /\ call[g].ckey \in CounterKeys /\ call[g].policy \in CountedPolicies
          /\ call[g].now \in Times /\ call[g].policy.window \in WindowLengths
          /\ WindowID(call[g].now, call[g].policy) \in Times
      BY <1>1, <2>1, CountFacts DEF Count
    <3>2. r \in Counter
      BY <1>1, <3>1, HitType DEF TypeOK
    <3>3. QED
      BY <1>1, <3>1, <3>2, CountedPolicy, RememberedType DEF RememberedInWindow, Counter
  <2>5. QED
    BY <2>2, <2>3, <2>4
<1>2. TypeOK /\ QuotaInv /\ [Next]_vars =>
        [\A g \in Workers :
           Decided(g, "allowed") /\ calm' => RememberedInWindow(g) < MaxHits(call[g].policy)]_vars
  BY <1>1
<1>3. QED
  BY <1>2, TypeCorrect, QuotaInvariant, PTL DEF Spec, AdmitsWithinQuota

-------------------------------------------------------------------------------
(* Refusals. *)

(* A request that is being counted follows a policy of some configuration.       *)
CallsPick ==
    \A g \in Workers : call[g].pc = "counting" =>
        \E x \in Picks : x.id = call[g].ckey[1] /\ x.policy = call[g].policy

(* No counter stands above what was let through in the window it is for.         *)
CountsAdmitted ==
    \A x \in Picks, k \in CounterKeys :
        x.id = k[1] /\ x.policy \in CountedPolicies =>
            rateCounters[k].count <= admitted[k][x.policy.window][rateCounters[k].window]

LEMMA StepCallsPick == TypeOK /\ CallsPick /\ [Next]_vars => CallsPick'
<1> SUFFICES ASSUME TypeOK, CallsPick, [Next]_vars, NEW g \in Workers, call'[g].pc = "counting"
             PROVE  \E x \in Picks : x.id = call'[g].ckey[1] /\ x.policy = call'[g].policy
  BY DEF CallsPick
<1>1. CASE call'[g] = call[g]
  BY <1>1 DEF CallsPick
<1>2. CASE call'[g] # call[g]
  <2>1. PickPolicy(g)
    <3>1. ASSUME NEW f \in Workers, NEW q \in Requests, Arrive(f, q)
          PROVE  FALSE
      BY <1>2, <3>1 DEF Arrive, TypeOK
    <3>2. ASSUME NEW f \in Workers, PickPolicy(f)
          PROVE  f = g
      BY <1>2, <3>2 DEF PickPolicy, TypeOK
    <3>3. ASSUME NEW f \in Workers, Count(f)
          PROVE  FALSE
      BY <1>2, <3>3 DEF Count, TypeOK
    <3>4. Tick \/ UNCHANGED vars => FALSE
      BY <1>2 DEF Tick, vars
    <3>5. ASSUME NEW l \in Loaders, ReloadBuild(l) \/ ReloadSwap(l) \/ ReloadReset(l)
          PROVE  FALSE
      BY <1>2, <3>5 DEF ReloadBuild, ReloadSwap, ReloadReset
    <3>6. QED
      BY <3>1, <3>2, <3>3, <3>4, <3>5 DEF Next
  <2> DEFINE rt == rateLimitRuntime
             q == call[g].req
             pick == PickRateLimitPolicy(rt, q)
  <2>2. call[g] \in ArrivedCall
    BY <2>1 DEF PickPolicy, TypeOK, IdleCall, CountingCall
  <2>3. rt \in Configs /\ q \in Requests
    BY <2>1, <2>2 DEF PickPolicy, ArrivedCall, TypeOK
  <2>4. /\ call'[g].ckey = <<pick.id, BuildRateLimitKey(pick.policy.keyBy, q)>>
        /\ call'[g].policy = pick.policy
    BY <2>1 DEF PickPolicy, TypeOK
  <2>5. pick \in Picks
    BY <2>3, PickInConfig
  <2>6. QED
    BY <2>4, <2>5
<1>3. QED
  BY <1>1, <1>2

(* The counter that a request finds, rolled to its window, is covered by what     *)
(* was let through in that window.                                               *)
LEMMA RolledAdmitted ==
  ASSUME TypeOK, CallsPick, CountsAdmitted, NEW g \in Workers, Count(g)
  PROVE  Rolled(rateCounters[call[g].ckey], WindowID(call[g].now, call[g].policy)).count
           <= AdmittedInWindow(g)
<1> DEFINE p == call[g].policy
           k == call[g].ckey
           c == rateCounters[k]
           w == WindowID(call[g].now, p)
<1>1. /\ k \in CounterKeys /\ p \in CountedPolicies /\ p.window \in WindowLengths
      /\ w \in Times
  BY CountFacts DEF Count
<1>2. PICK x \in Picks : x.id = k[1] /\ x.policy = p
  BY DEF CallsPick, Count
<1>3. c.count <= admitted[k][p.window][c.window]
  BY <1>1, <1>2 DEF CountsAdmitted
<1>4. admitted[k][p.window][w] \in Nat /\ c \in Counter
  BY <1>1 DEF TypeOK
<1>5. AdmittedInWindow(g) = admitted[k][p.window][w]
  BY DEF AdmittedInWindow
<1> HIDE DEF p, k, c, w
<1>6. Rolled(c, w).count <= admitted[k][p.window][w]
  BY <1>3, <1>4 DEF Rolled, Counter
<1>7. QED
  BY <1>5, <1>6 DEF p, k, c, w

LEMMA CountAdmits ==
  ASSUME UniformWindows, TypeOK, TypeOK', CallsPick, CountsAdmitted,
         NEW g \in Workers, Count(g)
  PROVE  CountsAdmitted'
<1> DEFINE p == call[g].policy
           now == call[g].now
           k == call[g].ckey
           c == rateCounters[k]
           w == WindowID(now, p)
           r == Rolled(c, w)
           counters == [rateCounters EXCEPT ![k] = Hit(c, p, now)]
<1>1. /\ k \in CounterKeys /\ p \in CountedPolicies /\ p.window \in WindowLengths
      /\ w \in Times /\ now \in Times
  BY CountFacts DEF Count
<1>2. PICK y \in Picks : y.id = k[1] /\ y.policy = p
  BY DEF CallsPick, Count
<1>3. /\ r \in Counter /\ r.count \in Nat /\ r.window = w
      /\ r.count <= admitted[k][p.window][w] /\ admitted[k][p.window][w] \in Nat
  <2>1. r \in Counter
    BY <1>1, HitType DEF TypeOK
  <2>2. r.count <= admitted[k][p.window][w]
    BY RolledAdmitted DEF AdmittedInWindow
  <2>3. admitted[k][p.window][w] \in Nat
    BY <1>1 DEF TypeOK
  <2>4. r.window = w
    BY DEF Rolled
  <2> HIDE DEF p, k, w, r
  <2>5. QED
    BY <2>1, <2>2, <2>3, <2>4 DEF Counter
<1>4. admitted' = IF Allowed(r, p) THEN [admitted EXCEPT ![k][p.window][w] = @ + 1]
                                   ELSE admitted
  BY DEF Count
<1>5. SUFFICES ASSUME NEW x \in Picks, NEW j \in CounterKeys,
                      x.id = j[1], x.policy \in CountedPolicies
               PROVE  rateCounters'[j].count
                        <= admitted'[j][x.policy.window][rateCounters'[j].window]
  BY DEF CountsAdmitted
<1> DEFINE len == x.policy.window
<1>6. len \in WindowLengths
  BY <1>5, CountedPolicy
<1>7. counters[j] \in Counter /\ counters[j].count <= admitted'[j][len][counters[j].window]
  <2>1. CASE j # k
    <3>1. counters[j] = rateCounters[j] /\ rateCounters[j] \in Counter
      BY <2>1 DEF TypeOK
    <3>2. admitted'[j] = admitted[j]
      BY <1>1, <1>4, <2>1 DEF TypeOK
    <3>3. QED
      BY <1>5, <3>1, <3>2 DEF CountsAdmitted
  <2>2. CASE j = k
    <3>1. len = p.window
      BY <1>1, <1>2, <1>5, <2>2 DEF UniformWindows
    <3>2. /\ counters[j] = Hit(c, p, now) /\ Hit(c, p, now) \in Counter
      BY <1>1, <2>2, HitType DEF TypeOK
    <3>3. /\ Hit(c, p, now).window = w
          /\ Hit(c, p, now).count = IF Allowed(r, p) THEN r.count + 1 ELSE r.count
      BY <1>3 DEF Hit
    <3> DEFINE hit == Hit(c, p, now)
    <3> HIDE DEF p, k, c, w, r, hit, len
    <3>4. admitted'[k][p.window][w] = IF Allowed(r, p) THEN admitted[k][p.window][w] + 1
                                                       ELSE admitted[k][p.window][w]
      BY <1>1, <1>4 DEF TypeOK
    <3>5. hit.window = w /\ hit.count <= admitted'[k][p.window][w]
      BY <1>3, <3>3, <3>4 DEF hit
    <3>6. counters[j] = hit /\ hit \in Counter
      BY <3>2 DEF hit
    <3> HIDE DEF counters
    <3>7. QED
      BY <2>2, <3>1, <3>5, <3>6
  <2>3. QED
    BY <2>1, <2>2
<1>8. rateCounters'[j] = counters[j] \/ rateCounters'[j] = NoCounter
  BY DEF Count, Swept
<1> HIDE DEF counters, len
<1>9. admitted'[j][len][0] \in Nat
  <2>1. admitted'[j] \in [WindowLengths -> [Times -> Nat]]
    BY DEF TypeOK
  <2>2. 0 \in Times
    BY BoundsAssumption DEF Times
  <2>3. QED
    BY <1>6, <2>1, <2>2
<1>10. rateCounters'[j].count <= admitted'[j][len][rateCounters'[j].window]
  BY <1>7, <1>8, <1>9 DEF NoCounter
<1>11. QED
  BY <1>10 DEF len

LEMMA ClearedAdmits == Cleared => CountsAdmitted
<1> SUFFICES ASSUME Cleared,
                    NEW x \in Picks, NEW k \in CounterKeys, x.policy \in CountedPolicies
             PROVE  rateCounters[k].count <= admitted[k][x.policy.window][rateCounters[k].window]
  BY DEF CountsAdmitted
<1>1. x.policy.window \in WindowLengths /\ 0 \in Times
  BY CountedPolicy, BoundsAssumption DEF Times
<1>2. QED
  BY <1>1 DEF Cleared, NoCounter, NothingAdmitted, NoRequests

LEMMA StepAdmits ==
  ASSUME UniformWindows, TypeOK, TypeOK', CallsPick, CountsAdmitted, [Next]_vars
  PROVE  CountsAdmitted'
<1>1. ASSUME NEW g \in Workers, Count(g)
      PROVE  CountsAdmitted'
  BY <1>1, CountAdmits
<1>2. ASSUME NEW l \in Loaders, ReloadReset(l)
      PROVE  CountsAdmitted'
  <2>1. Cleared'
    BY <1>2 DEF ReloadReset, Cleared
  <2>2. Cleared' => CountsAdmitted'
    BY ClearedAdmits, PTL
  <2>3. QED
    BY <2>1, <2>2
<1>3. CASE UNCHANGED <<counting, history>>
  BY <1>3 DEF counting, history, CountsAdmitted
<1>4. ASSUME [Next]_vars, \A g \in Workers : ~Count(g), \A l \in Loaders : ~ReloadReset(l)
      PROVE  UNCHANGED <<counting, history>>
  BY <1>4 DEF Next, vars, counting, history, Tick, Arrive, PickPolicy, ReloadBuild, ReloadSwap
<1>5. QED
  BY <1>1, <1>2, <1>3, <1>4

(* As long as no reload gives a policy ID another window length, a request is       *)
(* refused only after limit + burst requests of its key and window were let         *)
(* through, in whatever order requests are counted and whatever is swept.           *)
THEOREM RefusalsJustified ==
  ASSUME UniformWindows
  PROVE  Spec => RefusesOnlyOverQuota
<1>1. Init => CallsPick /\ CountsAdmitted
  BY ClearedAdmits DEF Init, CallsPick, Cleared
<1>2. TypeOK /\ TypeOK' /\ CallsPick /\ CountsAdmitted /\ [Next]_vars => CallsPick' /\ CountsAdmitted'
  BY StepCallsPick, StepAdmits
<1>3. Spec => [](CallsPick /\ CountsAdmitted)
  BY <1>1, <1>2, TypeCorrect, PTL DEF Spec
<1>4. ASSUME TypeOK, CallsPick, CountsAdmitted, [Next]_vars, NEW g \in Workers,
             Decided(g, "denied")
      PROVE  AdmittedInWindow(g) >= MaxHits(call[g].policy)
  <2> DEFINE r == Rolled(rateCounters[call[g].ckey], WindowID(call[g].now, call[g].policy))
  <2>1. Count(g)
    BY <1>4, DecidedByCount
  <2>2. /\ call[g].ckey \in CounterKeys /\ call[g].policy \in CountedPolicies
        /\ call[g].now \in Times /\ call[g].policy.window \in WindowLengths
        /\ WindowID(call[g].now, call[g].policy) \in Times
    BY <1>4, <2>1, CountFacts DEF Count
  <2>3. r.count <= AdmittedInWindow(g)
    BY <1>4, <2>1, RolledAdmitted
  <2>4. ~(r.count < MaxHits(call[g].policy))
    BY <1>4, <2>1 DEF Count, Decided, Allowed, TypeOK
  <2>5. r.count \in Nat /\ AdmittedInWindow(g) \in Nat /\ MaxHits(call[g].policy) \in Nat
    <3>1. r \in Counter
      BY <1>4, <2>2, HitType DEF TypeOK
    <3>2. QED
      BY <1>4, <2>2, <3>1, CountedPolicy DEF AdmittedInWindow, TypeOK, Counter
  <2>6. QED
    BY <2>3, <2>4, <2>5
<1>5. TypeOK /\ CallsPick /\ CountsAdmitted /\ [Next]_vars =>
        [\A g \in Workers :
           Decided(g, "denied") => AdmittedInWindow(g) >= MaxHits(call[g].policy)]_vars
  BY <1>4
<1>6. QED
  BY <1>3, <1>5, TypeCorrect, PTL DEF Spec, RefusesOnlyOverQuota
===============================================================================
