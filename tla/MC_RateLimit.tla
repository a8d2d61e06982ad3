----------------------------- MODULE MC_RateLimit -----------------------------
(***************************************************************************)
(* Small instances of RateLimit for TLC.                                    *)
(***************************************************************************)
EXTENDS RateLimit, TLC

CONSTANTS g1, g2, l1, l2, alice, bob, jp, us, login, home, get, post

MCPolicy(limit, burst, window, keyBy) ==
    [enabled |-> TRUE, limit |-> limit, burst |-> burst, window |-> window,
     keyBy |-> keyBy]

MCOff == [MCPolicy(0, 0, 0, "ip") EXCEPT !.enabled = FALSE]

MCConfig(default, rules) ==
    [enabled |-> TRUE, allowlistIPs |-> {}, allowlistCountries |-> {},
     defaultPolicy |-> default, rules |-> rules]

MCRule(methods, paths, policy) ==
    [name |-> "r", methods |-> methods, paths |-> paths, policy |-> policy]

MCRequest(method, path, ip, country) ==
    [method |-> method, path |-> path, ip |-> ip, country |-> country]

\* One key under attack and a second one that triggers the sweeps.
MCRequests == {MCRequest(get, login, alice, jp), MCRequest(get, home, bob, us)}

\* A reload replaces the default policy, whose window is as long as a counter may
\* stay idle, by two rules: the cap of the first wraps, the second counts per
\* country in a longer window.
TwoQuotas == {MCConfig(MCPolicy(1, 1, 2, "ip"), <<>>),
              MCConfig(MCOff, <<MCRule({get}, {login}, MCPolicy(MaxInt, 1, 2, "ip")),
                                MCRule({get}, {login, home}, MCPolicy(1, 0, 4, "country"))>>)}

Symmetry == Permutations(Workers) \cup Permutations(Loaders)
===============================================================================
