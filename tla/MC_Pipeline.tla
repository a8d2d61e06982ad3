---------------------------- MODULE MC_Pipeline ----------------------------
(* Small instances of Pipeline for TLC: one kind of request, of score 9.     *)
EXTENDS Pipeline, TLC

CONSTANTS A, g, c, d, home, away, k, botCookie, semCookie, secret1

AtHome == (c :> home @@ d :> home)
MCScore == (k :> 9)

Bot1(covers, secret) == [covers |-> covers, name |-> botCookie, secret |-> secret, ttl |-> 1]
EphemeralBot == Bot1({home, away} \X {k}, Ephemeral)
SecretBot == Bot1({home, away} \X {k}, secret1)
TwoBots == {EphemeralBot, SecretBot}

Thresholds(mode) == [mode |-> mode, exempt |-> {}, log |-> 4, challenge |-> 7, block |-> 9]
Challenging == Thresholds("challenge")
ThreeModes == {Thresholds("log_only"), Challenging, Thresholds("block")}
===============================================================================
