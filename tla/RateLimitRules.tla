---------------------------- MODULE RateLimitRules ----------------------------
(***************************************************************************)
(* The stateless part of the rate limiter of                               *)
(* src/coraza/src/internal/handler/rate_limit_store.go: what a built       *)
(* runtime configuration looks like, which policy a request falls under,   *)
(* and under which key it is counted.                                      *)
(*                                                                         *)
(* A client address, a country, a method and a path are opaque values; a   *)
(* rule's match_type/match_value pair is the set of paths it matches, and  *)
(* an allowlist of prefixes is the set of addresses it covers.             *)
(***************************************************************************)
EXTENDS Integers, Sequences, FiniteSets

CONSTANTS
    Configs,    \* the runtime configurations a valid rate-limit file builds
    Requests,   \* the requests: records [method, path, ip, country]
    NoIP,       \* the empty client address
    NoCountry,  \* the country component of a key built from the address only
    MaxInt      \* the largest value of Go's int

KeyBys == {"ip", "country", "ip_country"}

(* normalizeRateLimitPolicy: a policy of a file that loads.  A disabled     *)
(* policy keeps whatever limit and window the file gives it.                *)
ValidPolicy(p) ==
    /\ p.burst \in 0..MaxInt
    /\ p.limit \in (-MaxInt - 1)..MaxInt
    /\ p.window \in (-MaxInt - 1)..MaxInt
    /\ p.keyBy \in KeyBys
    /\ p.enabled \in BOOLEAN
    /\ p.enabled => p.limit > 0 /\ p.window > 0

(* The policy IDs "default" and "rule:<index>:<name>".                     *)
DefaultID == [rule |-> 0, name |-> "default"]
PolicyID(rt, i) == [rule |-> i, name |-> rt.rules[i].name]

(* buildRateLimitRuntimeFromRaw: the runtime configurations it can return;  *)
(* the file order of the rules is kept (the final sort compares indices).   *)
ValidConfig(rt) ==
    /\ rt.enabled \in BOOLEAN
    /\ ValidPolicy(rt.defaultPolicy)
    /\ rt.rules \in Seq({rt.rules[i] : i \in DOMAIN rt.rules})
    /\ \A i \in DOMAIN rt.rules : ValidPolicy(rt.rules[i].policy)

ASSUME ConfigsAssumption == \A rt \in Configs : ValidConfig(rt)
ASSUME MaxIntAssumption == MaxInt \in Nat

PoliciesOf(rt) ==
    {[id |-> DefaultID, policy |-> rt.defaultPolicy]} \cup
    {[id |-> PolicyID(rt, i), policy |-> rt.rules[i].policy] : i \in DOMAIN rt.rules}

Picks == UNION {PoliciesOf(rt) : rt \in Configs}

(* matchesMethod: a rule without methods matches every method.             *)
MatchesMethod(methods, method) == methods = {} \/ method \in methods

(* matchesPathRule *)
MatchesPathRule(rule, path) == path \in rule.paths

RuleMatches(rule, q) ==
    /\ rule.policy.enabled
    /\ MatchesMethod(rule.methods, q.method)
    /\ MatchesPathRule(rule, q.path)

(* pickRateLimitPolicy: the first enabled rule that matches, or the default. *)
PickRateLimitPolicy(rt, q) ==
    LET hits == {i \in DOMAIN rt.rules : RuleMatches(rt.rules[i], q)}
        first == CHOOSE i \in hits : \A j \in hits : i <= j
    IN  IF hits = {}
          THEN [id |-> DefaultID, policy |-> rt.defaultPolicy]
          ELSE [id |-> PolicyID(rt, first), policy |-> rt.rules[first].policy]

(* buildRateLimitKey: a key is a pair <<address, country>>; without an       *)
(* address, ip_country falls back to the country alone.                      *)
BuildRateLimitKey(keyBy, q) ==
    CASE keyBy = "country"    -> <<NoIP, q.country>>
      [] keyBy = "ip_country" -> <<q.ip, q.country>>
      [] OTHER                -> <<q.ip, NoCountry>>

EmptyKey == <<NoIP, NoCountry>>

(* policy.Limit + policy.Burst in Go's int, which wraps.                    *)
MaxHits(p) ==
    LET sum == p.limit + p.burst
    IN  IF sum > MaxInt THEN sum - 2 * (MaxInt + 1) ELSE sum

IsAllowlisted(rt, q) ==
    \/ q.ip # NoIP /\ q.ip \in rt.allowlistIPs
    \/ q.country \in rt.allowlistCountries

(* A bug the type invariant would catch: a disabled policy, or one without a  *)
(* limit or a window, is counted.                                           *)
ExemptIgnoringPolicy(rt, q) == ~rt.enabled \/ IsAllowlisted(rt, q)

(* The early returns of EvaluateRateLimit: the request is let through       *)
(* without being counted.                                                   *)
Exempt(rt, q) ==
    \/ ~rt.enabled
    \/ IsAllowlisted(rt, q)
    \/ LET p == PickRateLimitPolicy(rt, q).policy
       IN  \/ ~p.enabled
           \/ BuildRateLimitKey(p.keyBy, q) = EmptyKey
           \/ MaxHits(p) <= 0
           \/ p.window <= 0
===============================================================================
