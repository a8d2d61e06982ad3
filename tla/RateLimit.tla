------------------------------ MODULE RateLimit ------------------------------
(***************************************************************************)
(* The rate limiter of internal/handler/rate_limit_store.go: fixed-window   *)
(* counters shared by all request goroutines, evaluated while the           *)
(* configuration is being reloaded.                                         *)
(*                                                                          *)
(* EvaluateRateLimit is not atomic.  The caller reads the clock (Arrive),   *)
(* the runtime configuration is read under its own lock (PickPolicy), and   *)
(* only then is the counter updated under the counter lock (Count).  A      *)
(* reload reads and builds the file (ReloadBuild), swaps the runtime        *)
(* (ReloadSwap) and resets the counters (ReloadReset) in three steps, and   *)
(* several reloads may overlap: the PUT handler, the storage sync loop and  *)
(* their rollbacks do not exclude one another.                              *)
(***************************************************************************)
EXTENDS RateLimitRules

CONSTANTS
    Workers,      \* the goroutines that serve requests
    Loaders,      \* the goroutines that may run ReloadRateLimit
    NoRuntime,    \* the nil runtime left by a failed initialisation
    SweepEvery,   \* a sweep every SweepEvery-th evaluation (1000 in the code)
    Retain,       \* idle seconds a counter survives a sweep (600 in the code)
    MaxClock,     \* bound: the last second of the model
    MaxRequests   \* bound: evaluations started

ASSUME SweepAssumption == SweepEvery \in Nat \ {0}
ASSUME RetainAssumption == Retain \in Nat
ASSUME BoundsAssumption == MaxClock \in Nat /\ MaxRequests \in Nat

VARIABLES
    clock,             \* wall-clock seconds
    rateLimitRuntime,  \* the runtime configuration in force
    rateCounters,      \* counter key -> [window, count, updated]
    rateCounterSweep,  \* evaluations since the last sweep
    call,              \* worker -> the state of its EvaluateRateLimit
    reload,            \* loader -> the state of its ReloadRateLimit
    arrived,           \* number of evaluations started (for the bound)
    \* History of the current epoch, i.e. since the counters were last reset:
    admitted,          \* counter key, window length, window -> requests let through
    remembered,        \* those of them that no sweep may have made the limiter forget
    last,              \* counter key -> when a request was last counted under it
    high,              \* the latest clock reading that was counted
    calm               \* no request was counted after one that it preceded

control == <<clock, rateLimitRuntime, call, reload, arrived>>
counting == <<rateCounters, rateCounterSweep>>
history == <<admitted, remembered, last, high, calm>>
vars == <<clock, rateLimitRuntime, rateCounters, rateCounterSweep, call,
          reload, arrived, admitted, remembered, last, high, calm>>

Times == 0..MaxClock
CounterKeys ==
    {<<pick.id, BuildRateLimitKey(pick.policy.keyBy, q)>> : pick \in Picks, q \in Requests}
WindowLengths == {pick.policy.window : pick \in Picks} \cap (Nat \ {0})

(* A missing map entry reads as the zero value, so deleting an entry is      *)
(* writing NoCounter.                                                        *)
NoCounter == [window |-> 0, count |-> 0, updated |-> 0]
Counter == [window : Times, count : Nat, updated : Times]

IdleCall == [pc : {"idle"}, reply : {"none", "allowed", "denied"}]
ArrivedCall == [pc : {"arrived"}, req : Requests, now : Times]
CountedPolicies ==
    {pick.policy : pick \in {x \in Picks : x.policy.window > 0 /\ MaxHits(x.policy) > 0}}
CountingCall == [pc : {"counting"}, ckey : CounterKeys,
                 policy : CountedPolicies, now : Times]

IdleReload == [pc |-> "idle"]
Reloading == [pc : {"built", "swapped"}, rt : Configs]

NoRequests == [w \in Times |-> 0]
NothingAdmitted == [k \in CounterKeys |-> [len \in WindowLengths |-> NoRequests]]
NeverCounted == [k \in CounterKeys |-> 0]

-------------------------------------------------------------------------------

Init ==
    /\ clock = 0
    /\ rateLimitRuntime \in Configs \cup {NoRuntime}
    /\ rateCounters = [k \in CounterKeys |-> NoCounter]
    /\ rateCounterSweep = 0
    /\ call = [g \in Workers |-> [pc |-> "idle", reply |-> "none"]]
    /\ reload = [l \in Loaders |-> IdleReload]
    /\ arrived = 0
    /\ admitted = NothingAdmitted /\ remembered = NothingAdmitted
    /\ last = NeverCounted
    /\ high = 0
    /\ calm = TRUE

Tick ==
    /\ clock < MaxClock
    /\ clock' = clock + 1
    /\ UNCHANGED <<rateLimitRuntime, call, reload, arrived, counting, history>>

(* ProxyHandler evaluates time.Now() and calls EvaluateRateLimit.            *)
Arrive(g, q) ==
    /\ call[g].pc = "idle"
    /\ arrived < MaxRequests
    /\ arrived' = arrived + 1
    /\ call' = [call EXCEPT ![g] = [pc |-> "arrived", req |-> q, now |-> clock]]
    /\ UNCHANGED <<clock, rateLimitRuntime, reload, counting, history>>

(* EvaluateRateLimit up to the counter lock: read the runtime, return early  *)
(* or choose the policy and the key.                                         *)
PickPolicy(g) ==
    /\ call[g].pc = "arrived"
    /\ LET rt == rateLimitRuntime
           q == call[g].req
       IN  call' = [call EXCEPT ![g] =
             IF rt = NoRuntime \/ Exempt(rt, q)
               THEN [pc |-> "idle", reply |-> "allowed"]
               ELSE LET pick == PickRateLimitPolicy(rt, q)
                    IN  [pc |-> "counting",
                         ckey |-> <<pick.id, BuildRateLimitKey(pick.policy.keyBy, q)>>,
                         policy |-> pick.policy,
                         now |-> call[g].now]]
    /\ UNCHANGED <<clock, rateLimitRuntime, reload, arrived, counting, history>>

WindowID(now, p) == now \div p.window

(* A bug RefusesOnlyOverQuota would catch: a new window keeps the old count.  *)
RolledKeepingCount(c, w) == [c EXCEPT !.window = w]

(* A counter of another window, earlier or later, restarts from zero.        *)
Rolled(c, w) == IF c.window # w THEN [c EXCEPT !.window = w, !.count = 0] ELSE c

(* A bug AdmitsWithinQuota would catch: the limit is off by one.              *)
AllowedOneTooMany(c, p) == c.count <= MaxHits(p)

Allowed(c, p) == c.count < MaxHits(p)

(* The counter after one evaluation: refused requests do not count.          *)
Hit(c, p, now) ==
    LET r == Rolled(c, WindowID(now, p))
    IN  [window |-> r.window,
         count |-> IF Allowed(r, p) THEN r.count + 1 ELSE r.count,
         updated |-> now]

(* A bug QuotaInv would catch: the sweep spares only this second's counters.  *)
IdleAtOnce(c, now) == c.updated < now

(* The sweep deletes every counter idle for longer than Retain.              *)
Idle(c, now) == c.updated < now - Retain
Swept(counters, now) ==
    [k \in CounterKeys |-> IF Idle(counters[k], now) THEN NoCounter ELSE counters[k]]

(* The request reads an earlier time, or belongs to an earlier window, than  *)
(* one that was counted before it.                                           *)
Overtaken(c, p, now) == now < high \/ WindowID(now, p) < c.window

(* History: a sweep may delete the counter of a key that was silent for longer *)
(* than Retain.  A window longer than that can still be running then, and what *)
(* was let through in it before the silence is forgotten.                      *)
MayForget(k, len, now) == len > Retain /\ last[k] < now - Retain
Remembered(k, now) ==
    [len \in WindowLengths |->
        IF MayForget(k, len, now) THEN NoRequests ELSE remembered[k][len]]

(* The critical section of EvaluateRateLimit under rateCounterMu.            *)
Count(g) ==
    /\ call[g].pc = "counting"
    /\ LET p == call[g].policy
           now == call[g].now
           k == call[g].ckey
           c == rateCounters[k]
           w == WindowID(now, p)
           allowed == Allowed(Rolled(c, w), p)
           counters == [rateCounters EXCEPT ![k] = Hit(c, p, now)]
       IN  /\ rateCounterSweep' = (rateCounterSweep + 1) % SweepEvery
           /\ rateCounters' = IF rateCounterSweep' = 0 THEN Swept(counters, now)
                                                       ELSE counters
           /\ call' = [call EXCEPT ![g] =
                [pc |-> "idle", reply |-> IF allowed THEN "allowed" ELSE "denied"]]
           /\ admitted' = IF allowed THEN [admitted EXCEPT ![k][p.window][w] = @ + 1]
                                     ELSE admitted
           /\ remembered' = [remembered EXCEPT ![k] =
                IF allowed THEN [Remembered(k, now) EXCEPT ![p.window][w] = @ + 1]
                           ELSE Remembered(k, now)]
           /\ last' = [last EXCEPT ![k] = now]
           /\ high' = IF now > high THEN now ELSE high
           /\ calm' = (calm /\ ~Overtaken(c, p, now))
    /\ UNCHANGED <<clock, rateLimitRuntime, reload, arrived>>

(* ReloadRateLimit reads and builds whatever valid file is on disk; an       *)
(* unreadable or invalid file makes it return with nothing changed.          *)
ReloadBuild(l) ==
    /\ reload[l].pc = "idle"
    /\ \E rt \in Configs : reload' = [reload EXCEPT ![l] = [pc |-> "built", rt |-> rt]]
    /\ UNCHANGED <<clock, rateLimitRuntime, call, arrived, counting, history>>

ReloadSwap(l) ==
    /\ reload[l].pc = "built"
    /\ rateLimitRuntime' = reload[l].rt
    /\ reload' = [reload EXCEPT ![l].pc = "swapped"]
    /\ UNCHANGED <<clock, call, arrived, counting, history>>

(* The counter reset ends the epoch the history is about.                    *)
ReloadReset(l) ==
    /\ reload[l].pc = "swapped"
    /\ reload' = [reload EXCEPT ![l] = IdleReload]
    /\ rateCounters' = [k \in CounterKeys |-> NoCounter]
    /\ rateCounterSweep' = 0
    /\ admitted' = NothingAdmitted /\ remembered' = NothingAdmitted
    /\ last' = NeverCounted
    /\ high' = 0
    /\ calm' = TRUE
    /\ UNCHANGED <<clock, rateLimitRuntime, call, arrived>>

Next ==
    \/ Tick
    \/ \E g \in Workers :
         \/ \E q \in Requests : Arrive(g, q)
         \/ PickPolicy(g)
         \/ Count(g)
    \/ \E l \in Loaders : ReloadBuild(l) \/ ReloadSwap(l) \/ ReloadReset(l)

Spec == Init /\ [][Next]_vars

-------------------------------------------------------------------------------
(* Type invariant. *)
TypeOK ==
    /\ clock \in Times
    /\ rateLimitRuntime \in Configs \cup {NoRuntime}
    /\ rateCounters \in [CounterKeys -> Counter]
    /\ rateCounterSweep \in 0..(SweepEvery - 1)
    /\ call \in [Workers -> IdleCall \cup ArrivedCall \cup CountingCall]
    /\ reload \in [Loaders -> {IdleReload} \cup Reloading]
    /\ arrived \in Nat
    /\ admitted \in [CounterKeys -> [WindowLengths -> [Times -> Nat]]]
    /\ remembered \in [CounterKeys -> [WindowLengths -> [Times -> Nat]]]
    /\ last \in [CounterKeys -> Times]
    /\ high \in Times
    /\ calm \in BOOLEAN

Decided(g, reply) ==
    /\ call[g].pc = "counting"
    /\ call'[g].pc = "idle"
    /\ call'[g].reply = reply

(* How many requests of g's key were let through in g's window this epoch.   *)
AdmittedInWindow(g) ==
    LET p == call[g].policy IN admitted[call[g].ckey][p.window][WindowID(call[g].now, p)]

(* The same, for a window longer than Retain without those that were let      *)
(* through before the key was last silent for longer than Retain.             *)
RememberedInWindow(g) ==
    LET p == call[g].policy
        now == call[g].now
    IN  Remembered(call[g].ckey, now)[p.window][WindowID(now, p)]

(* "Effective cap is limit + burst" (README): as long as every counted       *)
(* request was counted in clock order, a request is let through only while   *)
(* fewer than limit + burst requests of its key were let through in its      *)
(* window, whatever requests, sweeps and reloads overlap with it.  A window   *)
(* longer than Retain grants the cap again, but to no key that did not first  *)
(* stay silent for longer than Retain.                                        *)
AdmitsWithinQuota ==
    [][\A g \in Workers :
         Decided(g, "allowed") /\ calm' => RememberedInWindow(g) < MaxHits(call[g].policy)]_vars

(* No request is turned away early: a refusal, however late its request was  *)
(* counted, means that limit + burst requests really were let through for    *)
(* its key and window since the counters were last reset.                    *)
RefusesOnlyOverQuota ==
    [][\A g \in Workers :
         Decided(g, "denied") => AdmittedInWindow(g) >= MaxHits(call[g].policy)]_vars

-------------------------------------------------------------------------------
(* The inductive invariant behind AdmitsWithinQuota: in a calm epoch, the     *)
(* counter of a key has lost no request let through in the window that the    *)
(* latest reading lies in, but those that a sweep may have made it forget,     *)
(* and nothing was let through in later windows.                              *)
CounterCoversWindow(k, len) ==
    LET now == high \div len
        c == rateCounters[k]
        passed == Remembered(k, high)[len][now]
    IN  passed > 0 =>
          /\ now <= c.window
          /\ now = c.window => passed <= c.count
          /\ now = last[k] \div len

NothingAhead(k, len) ==
    \A w \in Times : w > high \div len => remembered[k][len][w] = 0

(* Only a key that has been silent for longer than Retain may lack its counter. *)
CounterKept(k) ==
    /\ last[k] <= high
    /\ last[k] < high - Retain \/ rateCounters[k].updated = last[k]

QuotaInv ==
    calm => /\ \A k \in CounterKeys : CounterKept(k)
            /\ \A k \in CounterKeys, len \in WindowLengths :
                 CounterCoversWindow(k, len) /\ NothingAhead(k, len)

(* No reload changes the window length that a policy ID stands for.            *)
UniformWindows ==
    \A x, y \in Picks :
        x.id = y.id /\ x.policy \in CountedPolicies /\ y.policy \in CountedPolicies =>
            x.policy.window = y.policy.window
===============================================================================
