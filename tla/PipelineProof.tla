--------------------------- MODULE PipelineProof ---------------------------
(* Proofs about Pipeline: its types, that neither check lets a request pass     *)
(* whose client was not handed a token by that check, and that neither         *)
(* challenges a browser again that holds a token of the runtime in force.      *)
EXTENDS Pipeline, TLAPS

\* A cookie holds a token that the check whose cookie it is handed out to its client.
FromGrants(c, cookies) ==
    \A name \in Names : cookies[name] # NoToken =>
        \E grant \in granted :
            /\ grant.check = IF name = SemanticName THEN "semantic" ELSE "bot"
            /\ grant.client = c /\ grant.token = cookies[name]
            /\ grant.token.expires <= grant.until

Held(c) == FromGrants(c, jar[c])
Served(g) == proc[g] \in Job => FromGrants(proc[g].client, proc[g].cookies)

CookiesGranted ==
    /\ \A c \in Clients : Held(c)
    /\ \A g \in Workers : Served(g)

-------------------------------------------------------------------------------
(* Building a runtime from a configuration gives a runtime.                     *)
LEMMA Builds ==
    ASSUME NEW n \in Nodes, NEW build \in Nat
    PROVE  /\ \A cfg \in BotConfigs : BuildBot(cfg, n, build) \in BotRuntime
           /\ \A cfg \in SemanticConfigs : BuildSemantic(cfg, n, build) \in SemanticRuntime
<1>1. Draw("bot", n, build) \in Drawn /\ Draw("semantic", n, build) \in Drawn
  BY DEF Draw, Drawn
<1>2. ASSUME NEW cfg \in BotConfigs
      PROVE  BuildBot(cfg, n, build) \in BotRuntime
  <2>1. cfg \in BotConfig
    BY ConfigAssumption
  <2>2. cfg.secret \in Secrets \cup {Ephemeral}
    BY <2>1 DEF BotConfig
  <2> QED
    BY <1>1, <2>2 DEF BuildBot, BotRuntime, Secret
<1>3. ASSUME NEW cfg \in SemanticConfigs
      PROVE  BuildSemantic(cfg, n, build) \in SemanticRuntime
  BY <1>1 DEF BuildSemantic, SemanticRuntime
<1> QED
  BY <1>2, <1>3

(* The three shapes of a goroutine's state are told apart by pc.                *)
LEMMA Shapes ==
    ASSUME TypeOK, NEW g \in Workers
    PROVE  /\ proc[g].pc \in {"bot", "semantic", "cookie", "challenge"} => proc[g] \in Job
           /\ proc[g].pc = "limit" => proc[g].node \in Nodes /\ proc[g] \notin Job
           /\ proc[g].pc = "idle" => proc[g] \notin Job
<1>1. proc[g] \in Job \cup {Passed(n) : n \in Nodes} \cup {Idle}
  BY DEF TypeOK
<1>2. CASE proc[g] \in Job
  BY <1>2 DEF Job
<1>3. CASE proc[g] \in {Passed(n) : n \in Nodes}
  <2>1. PICK n \in Nodes : proc[g] = Passed(n)
    BY <1>3
  <2>2. proc[g].pc = "limit" /\ proc[g].node = n
    BY <2>1 DEF Passed
  <2> QED
    BY <2>2 DEF Job
<1>4. CASE proc[g] = Idle
  <2>1. proc[g].pc = "idle"
    BY <1>4 DEF Idle
  <2> QED
    BY <2>1 DEF Job
<1> QED
  BY <1>1, <1>2, <1>3, <1>4

(* A request that goes on to the next check is still a request, with the same   *)
(* client and cookies.                                                          *)
LEMMA GoesOn ==
    ASSUME NEW job \in Job, NEW pc \in {"bot", "semantic", "cookie", "challenge"}
    PROVE  /\ [job EXCEPT !.pc = pc] \in Job
           /\ [job EXCEPT !.pc = pc].client = job.client
           /\ [job EXCEPT !.pc = pc].cookies = job.cookies
  BY DEF Job

(* The challenge page of either check stores a token of that check.             *)
LEMMA HandsOut ==
    ASSUME TypeOK, \A c \in Clients : Held(c),
           NEW job \in Job, NEW check \in {"bot", "semantic"}, NEW name \in Names,
           NEW secret \in Secret, NEW ttl \in Nat,
           check = IF name = SemanticName THEN "semantic" ELSE "bot",
           HandOut(job, check, name, secret, ttl)
    PROVE  /\ jar' \in [Clients -> Cookies] /\ granted' \subseteq Grant
           /\ granted \subseteq granted'
           /\ \A c \in Clients : Held(c)'
<1> DEFINE token == Issued(secret, job.address, clock, ttl)
           grant == [check |-> check, client |-> job.client, token |-> token,
                     until |-> clock + ttl]
<1>1. job.address \in Addresses /\ job.client \in Clients /\ clock \in Nat
  BY DEF Job, TypeOK
<1>2. token \in Token /\ token.expires = clock + ttl
  BY <1>1 DEF Issued, Token
<1>3. jar \in [Clients -> Cookies] /\ granted \subseteq Grant
  BY DEF TypeOK
<1>4. CASE job.client \notin Browsers
  BY <1>3, <1>4 DEF HandOut, Held, FromGrants
<1>5. CASE job.client \in Browsers
  <2> HIDE DEF token
  <2>1. /\ jar' = [jar EXCEPT ![job.client] = Stored(@, name, token)]
        /\ granted' = granted \cup {grant}
    BY <1>5 DEF HandOut, token
  <2>2. grant \in Grant
    BY <1>1, <1>2, <1>5 DEF Grant
  <2>3. Stored(jar[job.client], name, token) \in Cookies
    BY <1>1, <1>2, <1>3 DEF Stored, Cookies
  <2>4. ASSUME NEW c \in Clients, NEW nm \in Names, jar'[c][nm] # NoToken
        PROVE  \E gr \in granted' :
                  /\ gr.check = IF nm = SemanticName THEN "semantic" ELSE "bot"
                  /\ gr.client = c /\ gr.token = jar'[c][nm]
                  /\ gr.token.expires <= gr.until
    <3>1. CASE c = job.client /\ nm = name
      <4>1. jar'[c][nm] = token
        BY <1>1, <1>3, <2>1, <3>1 DEF Stored, Cookies
      <4>2. /\ grant.check = check /\ grant.client = c /\ grant.token = token
            /\ grant.until = clock + ttl
        BY <3>1
      <4>3. grant.token.expires <= grant.until
        BY <1>1, <1>2, <4>2
      <4> HIDE DEF grant
      <4> QED
        BY <2>1, <3>1, <4>1, <4>2, <4>3
    <3>2. CASE ~(c = job.client /\ nm = name)
      <4>1. jar'[c][nm] = jar[c][nm]
        BY <1>1, <1>3, <2>1, <3>2 DEF Stored, Cookies
      <4> QED
        BY <2>1, <2>4, <4>1 DEF Held, FromGrants
    <3> QED
      BY <3>1, <3>2
  <2>5. \A c \in Clients : Held(c)'
    BY <2>4 DEF Held, FromGrants
  <2> HIDE DEF grant
  <2> QED
    BY <1>1, <1>3, <2>1, <2>2, <2>3, <2>5
<1> QED
  BY <1>4, <1>5

-------------------------------------------------------------------------------
IInv == TypeOK /\ CookiesGranted

(* At the start nobody has a cookie and no request is served.                     *)
LEMMA InitCorrect == Init => IInv
<1> SUFFICES ASSUME Init PROVE IInv
  OBVIOUS
<1>1. bot \in [Nodes -> BotRuntime] /\ semantic \in [Nodes -> SemanticRuntime]
  BY Builds, ConfigAssumption DEF Init
<1>2. jar \in [Clients -> Cookies]
  BY DEF Init, Cookies
<1>3. TypeOK
  BY <1>1, <1>2, ConfigAssumption DEF Init, TypeOK
<1>4. \A g \in Workers : Served(g)
  BY DEF Init, Served, Idle, Job
<1> QED
  BY <1>3, <1>4 DEF IInv, CookiesGranted, Held, FromGrants, Init

(* Cookies, tokens and counters are left alone, and so is what the invariant says *)
(* of the cookies of clients; requests may end or go on.                          *)
LEMMA RequestsGoOn ==
    ASSUME IInv, NEW g \in Workers,
           proc' = [proc EXCEPT ![g] = proc'[g]],
           proc'[g] \in Job \cup {Passed(n) : n \in Nodes} \cup {Idle},
           proc'[g] \in Job => /\ proc[g] \in Job
                               /\ proc'[g].client = proc[g].client
                               /\ proc'[g].cookies = proc[g].cookies,
           jar' \in [Clients -> Cookies], granted' \subseteq Grant, granted \subseteq granted',
           \A c \in Clients : Held(c)',
           UNCHANGED <<runtimes, address, clock, builds, moves>>
    PROVE  IInv'
<1>1. TypeOK'
  BY DEF IInv, TypeOK, runtimes
<1>2. ASSUME NEW h \in Workers PROVE Served(h)'
  <2>1. Served(h)
    BY DEF IInv, CookiesGranted
  <2>2. proc'[h] \in Job => /\ proc[h] \in Job
                            /\ proc'[h].client = proc[h].client
                            /\ proc'[h].cookies = proc[h].cookies
    BY DEF IInv, TypeOK
  <2> QED
    BY <2>1, <2>2 DEF Served, FromGrants
<1> QED
  BY <1>1, <1>2 DEF IInv, CookiesGranted

(* Bot either hands out a bot defense token or lets the request go on.            *)
LEMMA BotCorrect == ASSUME IInv, NEW g \in Workers, Bot(g) PROVE IInv'
<1> DEFINE job == proc[g]
           rt == bot[job.node]
<1>1. TypeOK /\ \A c \in Clients : Held(c)
  BY DEF IInv, CookiesGranted
<1>2. job \in Job
  BY <1>1, Shapes DEF Bot
<1>3. rt \in BotRuntime
  BY <1>1, <1>2 DEF TypeOK, Job
<1>4. rt.cfg.name \in Names /\ rt.cfg.ttl \in Nat /\ rt.secret \in Secret
      /\ rt.cfg.name # SemanticName
  <2>1. rt.cfg \in BotConfigs /\ rt.secret \in Secret
    BY <1>3 DEF BotRuntime
  <2>2. rt.cfg \in BotConfig
    BY <2>1, ConfigAssumption
  <2> QED
    BY <2>1, <2>2, NamesDiffer DEF BotConfig
<1>5. CASE Reply(g) /\ HandOut(job, "bot", rt.cfg.name, rt.secret, rt.cfg.ttl)
  <2> HIDE DEF rt
  <2>1. /\ jar' \in [Clients -> Cookies] /\ granted' \subseteq Grant
        /\ granted \subseteq granted' /\ \A c \in Clients : Held(c)'
    BY <1>1, <1>2, <1>4, <1>5, HandsOut
  <2>2. proc' = [proc EXCEPT ![g] = Idle] /\ proc'[g] = Idle
    BY <1>1, <1>5 DEF Reply, TypeOK
  <2>3. Idle \notin Job
    BY DEF Idle, Job
  <2>4. UNCHANGED <<runtimes, address, clock, builds, moves>>
    BY DEF Bot
  <2> QED
    BY <2>1, <2>2, <2>3, <2>4, RequestsGoOn
<1>6. CASE Goto(g, "semantic") /\ UNCHANGED <<jar, granted>>
  <2>1. proc' = [proc EXCEPT ![g] = [job EXCEPT !.pc = "semantic"]]
        /\ proc'[g] = [job EXCEPT !.pc = "semantic"]
    BY <1>1, <1>6 DEF Goto, TypeOK
  <2>2. /\ proc'[g] \in Job
        /\ proc'[g].client = proc[g].client /\ proc'[g].cookies = proc[g].cookies
    BY <1>2, <2>1, GoesOn
  <2>3. \A c \in Clients : Held(c)'
    BY <1>1, <1>6 DEF Held, FromGrants
  <2>4. UNCHANGED <<runtimes, address, clock, builds, moves>>
    BY DEF Bot
  <2>5. jar' \in [Clients -> Cookies] /\ granted' \subseteq Grant /\ granted \subseteq granted'
    BY <1>1, <1>6 DEF TypeOK
  <2> QED
    BY <1>2, <2>1, <2>2, <2>3, <2>4, <2>5, RequestsGoOn
<1> QED
  BY <1>5, <1>6 DEF Bot

(* A step that hands nothing out, after which the request goes on or ends.        *)
LEMMA NothingHandedOut ==
    ASSUME IInv, NEW g \in Workers, proc[g].pc \in {"semantic", "cookie", "limit"},
           \/ \E pc \in {"cookie", "challenge"} : proc[g].pc # "limit" /\ Goto(g, pc)
           \/ proc[g].pc # "limit" /\ Pass(g)
           \/ Reply(g),
           UNCHANGED <<runtimes, address, jar, clock, builds, moves, granted>>
    PROVE  IInv'
<1>1. TypeOK /\ \A c \in Clients : Held(c)
  BY DEF IInv, CookiesGranted
<1>2. \A c \in Clients : Held(c)'
  BY <1>1 DEF Held, FromGrants
<1>3. jar' \in [Clients -> Cookies] /\ granted' \subseteq Grant /\ granted \subseteq granted'
  BY <1>1 DEF TypeOK
<1>4. proc[g].pc # "limit" => proc[g] \in Job
  BY <1>1, Shapes
<1>5. ASSUME NEW pc \in {"cookie", "challenge"}, proc[g].pc # "limit", Goto(g, pc)
      PROVE  IInv'
  <2>1. proc' = [proc EXCEPT ![g] = [proc[g] EXCEPT !.pc = pc]]
        /\ proc'[g] = [proc[g] EXCEPT !.pc = pc]
    BY <1>1, <1>5 DEF Goto, TypeOK
  <2>2. proc[g] \in Job /\ pc \in {"bot", "semantic", "cookie", "challenge"}
    BY <1>4, <1>5
  <2>3. /\ proc'[g] \in Job
        /\ proc'[g].client = proc[g].client /\ proc'[g].cookies = proc[g].cookies
    BY <2>1, <2>2 DEF Job
  <2> QED
    BY <1>2, <1>3, <2>1, <2>2, <2>3, RequestsGoOn
<1>6. CASE proc[g].pc # "limit" /\ Pass(g)
  <2>1. proc' = [proc EXCEPT ![g] = Passed(proc[g].node)] /\ proc'[g] = Passed(proc[g].node)
    BY <1>1, <1>6 DEF Pass, TypeOK
  <2>2. proc[g].node \in Nodes
    BY <1>4, <1>6 DEF Job
  <2>3. Passed(proc[g].node) \notin Job
    BY DEF Passed, Job
  <2> QED
    BY <1>2, <1>3, <2>1, <2>2, <2>3, RequestsGoOn
<1>7. CASE Reply(g)
  <2>1. proc' = [proc EXCEPT ![g] = Idle] /\ proc'[g] = Idle
    BY <1>1, <1>7 DEF Reply, TypeOK
  <2>2. Idle \notin Job
    BY DEF Idle, Job
  <2> QED
    BY <1>2, <1>3, <2>1, <2>2, RequestsGoOn
<1> QED
  BY <1>5, <1>6, <1>7

(* Challenge hands out a semantic token and ends the request.                     *)
LEMMA ChallengeCorrect == ASSUME IInv, NEW g \in Workers, Challenge(g) PROVE IInv'
<1> DEFINE job == proc[g]
           rt == semantic[job.node]
<1>1. TypeOK /\ \A c \in Clients : Held(c)
  BY DEF IInv, CookiesGranted
<1>2. job \in Job
  BY <1>1, Shapes DEF Challenge
<1>3. rt.secret \in Secret
  BY <1>1, <1>2 DEF TypeOK, Job, SemanticRuntime, Secret
<1>4. HandOut(job, "semantic", SemanticName, rt.secret, SemanticTTL)
  BY DEF Challenge
<1> HIDE DEF rt
<1>5. /\ jar' \in [Clients -> Cookies] /\ granted' \subseteq Grant
      /\ granted \subseteq granted' /\ \A c \in Clients : Held(c)'
  BY <1>1, <1>2, <1>3, <1>4, HandsOut, ConfigAssumption
<1>6. proc' = [proc EXCEPT ![g] = Idle] /\ proc'[g] = Idle
  BY <1>1 DEF Challenge, Reply, TypeOK
<1>7. Idle \notin Job
  BY DEF Idle, Job
<1>8. UNCHANGED <<runtimes, address, clock, builds, moves>>
  BY DEF Challenge
<1> QED
  BY <1>5, <1>6, <1>7, <1>8, RequestsGoOn

(* Every step of a request keeps the invariant.                                   *)
LEMMA StepCorrect == ASSUME IInv, NEW g \in Workers, Step(g) PROVE IInv'
<1>1. CASE Bot(g)
  BY <1>1, BotCorrect
<1>2. CASE Evaluate(g)
  BY <1>2, NothingHandedOut DEF Evaluate
<1>3. CASE Cookie(g)
  BY <1>3, NothingHandedOut DEF Cookie
<1>4. CASE Challenge(g)
  BY <1>4, ChallengeCorrect
<1>5. CASE Limit(g)
  BY <1>5, NothingHandedOut DEF Limit
<1> QED
  BY <1>1, <1>2, <1>3, <1>4, <1>5 DEF Step

(* A new request takes the cookies of its client along.                           *)
LEMMA ArriveCorrect ==
    ASSUME IInv, NEW g \in Workers, NEW n \in Nodes, NEW c \in Clients, NEW kind \in Kinds,
           Arrive(g, n, c, kind)
    PROVE  IInv'
<1> DEFINE job == [pc |-> "bot", node |-> n, client |-> c, address |-> address[c],
                   kind |-> kind, cookies |-> jar[c]]
<1>1. TypeOK /\ Held(c)
  BY DEF IInv, CookiesGranted
<1>2. job \in Job
  BY <1>1 DEF Job, TypeOK
<1>3. proc' = [proc EXCEPT ![g] = job]
  BY DEF Arrive
<1>4. job.client = c /\ job.cookies = jar[c]
  OBVIOUS
<1> HIDE DEF job
<1>5. TypeOK'
  BY <1>1, <1>2, <1>3 DEF Arrive, TypeOK, runtimes
<1>6. ASSUME NEW h \in Workers PROVE Served(h)'
  <2>1. CASE h = g
    BY <1>1, <1>3, <1>4, <2>1 DEF TypeOK, Arrive, Served, Held, FromGrants
  <2>2. CASE h # g
    BY <1>1, <1>3, <2>2 DEF IInv, CookiesGranted, TypeOK, Arrive, Served, FromGrants
  <2> QED
    BY <2>1, <2>2
<1>7. \A d \in Clients : Held(d)'
  BY DEF IInv, CookiesGranted, Arrive, Held, FromGrants
<1> QED
  BY <1>5, <1>6, <1>7 DEF IInv, CookiesGranted

(* Reloads, restarts, moves and time.                                            *)
LEMMA EnvironmentCorrect ==
    ASSUME IInv,
           \/ Tick \/ \E c \in Clients : Move(c)
           \/ \E n \in Nodes : ReloadBotDefense(n) \/ ReloadSemantic(n) \/ Restart(n)
    PROVE  IInv'
<1>1. TypeOK
  BY DEF IInv
<1>2. \A c \in Clients : Held(c)'
  BY DEF IInv, CookiesGranted, Held, FromGrants, Tick, Move, ReloadBotDefense, ReloadSemantic,
         Restart
<1>3. ASSUME UNCHANGED <<proc, granted>> PROVE \A g \in Workers : Served(g)'
  BY <1>3 DEF IInv, CookiesGranted, Served, FromGrants
<1>4. CASE Tick \/ \E c \in Clients : Move(c)
  <2>1. TypeOK'
    BY <1>1, <1>4 DEF Tick, Move, TypeOK, runtimes
  <2> QED
    BY <1>2, <1>3, <1>4, <2>1 DEF IInv, CookiesGranted, Tick, Move
<1>5. ASSUME NEW n \in Nodes, ReloadBotDefense(n) PROVE IInv'
  <2>1. builds' \in Nat
    BY <1>1, <1>5 DEF ReloadBotDefense, Built, TypeOK
  <2>2. bot' \in [Nodes -> BotRuntime]
    BY <1>1, <1>5, <2>1, Builds DEF ReloadBotDefense, TypeOK
  <2>3. TypeOK'
    BY <1>1, <1>5, <2>1, <2>2 DEF ReloadBotDefense, TypeOK
  <2> QED
    BY <1>2, <1>3, <1>5, <2>3 DEF IInv, CookiesGranted, ReloadBotDefense
<1>6. ASSUME NEW n \in Nodes, ReloadSemantic(n) PROVE IInv'
  <2>1. builds' \in Nat
    BY <1>1, <1>6 DEF ReloadSemantic, Built, TypeOK
  <2>2. semantic' \in [Nodes -> SemanticRuntime]
    BY <1>1, <1>6, <2>1, Builds DEF ReloadSemantic, TypeOK
  <2>3. TypeOK'
    BY <1>1, <1>6, <2>1, <2>2 DEF ReloadSemantic, TypeOK
  <2> QED
    BY <1>2, <1>3, <1>6, <2>3 DEF IInv, CookiesGranted, ReloadSemantic
<1>7. ASSUME NEW n \in Nodes, Restart(n) PROVE IInv'
  <2>1. builds' \in Nat
    BY <1>1, <1>7 DEF Restart, Built, TypeOK
  <2>2. bot[n].cfg \in BotConfigs /\ semantic[n].cfg \in SemanticConfigs
    BY <1>1 DEF TypeOK, BotRuntime, SemanticRuntime
  <2>3. bot' \in [Nodes -> BotRuntime] /\ semantic' \in [Nodes -> SemanticRuntime]
    BY <1>1, <1>7, <2>1, <2>2, Builds DEF Restart, TypeOK
  <2>4. proc' \in [Workers -> Job \cup {Passed(m) : m \in Nodes} \cup {Idle}]
        /\ \A g \in Workers : proc'[g] \in {Idle, proc[g]}
    BY <1>1, <1>7 DEF Restart, TypeOK
  <2>5. TypeOK'
    BY <1>1, <1>7, <2>1, <2>3, <2>4 DEF Restart, TypeOK
  <2>6. Idle \notin Job
    BY DEF Idle, Job
  <2>7. \A g \in Workers : Served(g)'
    BY <1>7, <2>4, <2>6 DEF IInv, CookiesGranted, Restart, Served, FromGrants
  <2> QED
    BY <1>2, <2>5, <2>7 DEF IInv, CookiesGranted
<1> QED
  BY <1>4, <1>5, <1>6, <1>7

(* The invariant is inductive.                                                    *)
LEMMA NextCorrect == IInv /\ [Next]_vars => IInv'
<1> SUFFICES ASSUME IInv, [Next]_vars PROVE IInv'
  OBVIOUS
<1>1. CASE UNCHANGED vars
  BY <1>1 DEF vars, runtimes, IInv, TypeOK, CookiesGranted, Held, Served, FromGrants
<1>2. CASE Next
  BY <1>2, StepCorrect, ArriveCorrect, EnvironmentCorrect DEF Next
<1> QED
  BY <1>1, <1>2

(* The invariant holds throughout every behaviour.                                *)
LEMMA InvariantHolds == Spec => []IInv
BY InitCorrect, NextCorrect, PTL DEF Spec

(* Every variable keeps its type; in particular a bot defense runtime never signs *)
(* with an empty secret (buildBotDefenseRuntimeFromRaw).                           *)
THEOREM TypeCorrect == Spec => []TypeOK
<1>1. IInv => TypeOK
  BY DEF IInv
<1> QED
  BY <1>1, InvariantHolds, PTL

-------------------------------------------------------------------------------
(* Which step took a request out of bot defense, or out of the cookie check.      *)
LEMMA StepTaken ==
    ASSUME TypeOK, [Next]_vars, NEW g \in Workers
    PROVE  /\ proc[g].pc = "bot" /\ proc'[g].pc = "semantic" => Bot(g)
           /\ proc[g].pc = "cookie" /\ proc'[g].pc \in {"limit", "challenge"} => Cookie(g)
           /\ proc[g].pc = "bot" /\ proc'[g].pc = "idle" /\ builds' = builds => Bot(g)
<1>1. CASE \E h \in Workers : Step(h)
  <2>1. PICK h \in Workers : Step(h)
    BY <1>1
  <2>2. CASE h = g
    BY <2>1, <2>2 DEF Step, Bot, Evaluate, Cookie, Challenge, Limit
  <2>3. CASE h # g
    <3>1. proc'[g] = proc[g]
      BY <2>1, <2>3 DEF Step, Bot, Evaluate, Cookie, Challenge, Limit, Goto, Pass, Reply, TypeOK
    <3> QED
      BY <3>1
  <2> QED
    BY <2>2, <2>3
<1>2. CASE \E h \in Workers, n \in Nodes, c \in Clients, kind \in Kinds : Arrive(h, n, c, kind)
  <2>1. PICK h \in Workers, n \in Nodes, c \in Clients, kind \in Kinds : Arrive(h, n, c, kind)
    BY <1>2
  <2>2. h # g => proc'[g] = proc[g]
    BY <2>1 DEF Arrive, TypeOK
  <2>3. proc[h].pc = "idle"
    BY <2>1 DEF Arrive
  <2> QED
    BY <2>2, <2>3
<1>3. CASE \E n \in Nodes : Restart(n)
  <2>1. proc'[g] \in {Idle, proc[g]}
    BY <1>3 DEF Restart
  <2>2. Idle.pc = "idle"
    BY DEF Idle
  <2>3. builds' # builds
    BY <1>3 DEF Restart, Built, TypeOK
  <2> QED
    BY <2>1, <2>2, <2>3
<1>4. CASE UNCHANGED proc
  BY <1>4
<1> QED
  BY <1>1, <1>2, <1>3, <1>4 DEF Next, vars, Tick, Move, ReloadBotDefense, ReloadSemantic

(* The step that takes a covered request past bot defense was preceded by a grant. *)
LEMMA BotGateStep == IInv /\ [Next]_vars =>
    \A g \in Workers :
        LET job == proc[g]
            rt == bot[job.node]
        IN  job.pc = "bot" /\ proc'[g].pc = "semantic" /\ Covers(rt, job) =>
              Granted("bot", job, rt.secret)
<1> SUFFICES ASSUME IInv, [Next]_vars, NEW g \in Workers,
                    proc[g].pc = "bot", proc'[g].pc = "semantic",
                    Covers(bot[proc[g].node], proc[g])
             PROVE  Granted("bot", proc[g], bot[proc[g].node].secret)
  OBVIOUS
<1> DEFINE job == proc[g]
           rt == bot[job.node]
           token == job.cookies[rt.cfg.name]
<1>1. TypeOK /\ Served(g)
  BY DEF IInv, CookiesGranted
<1>2. job \in Job
  BY <1>1, Shapes
<1>3. Bot(g)
  BY <1>1, StepTaken
<1>4. Verified(rt.secret, token, job.address, clock)
  BY <1>1, <1>3 DEF Bot, Reply, Idle, TypeOK
<1>5. rt.cfg.name \in Names /\ rt.cfg.name # SemanticName
  <2>1. rt.cfg \in BotConfigs
    BY <1>1, <1>2 DEF TypeOK, Job, BotRuntime
  <2> QED
    BY <2>1, ConfigAssumption, NamesDiffer DEF BotConfig
<1>6. PICK grant \in granted :
        /\ grant.check = "bot" /\ grant.client = job.client /\ grant.token = token
        /\ grant.token.expires <= grant.until
  BY <1>1, <1>2, <1>4, <1>5 DEF Served, FromGrants, Verified
<1>7. grant.token.expires \in Nat /\ grant.until \in Nat /\ clock \in Nat
  BY <1>1, <1>6 DEF TypeOK, Grant, Token
<1>8. clock <= grant.token.expires /\ grant.token.secret = rt.secret
      /\ grant.token.address = job.address
  BY <1>4, <1>6 DEF Verified
<1> HIDE DEF job, rt, token
<1>9. clock <= grant.until
  BY <1>6, <1>7, <1>8
<1>10. Granted("bot", job, rt.secret)
  BY <1>6, <1>8, <1>9 DEF Granted
<1> QED
  BY <1>10 DEF job, rt

(* Bot defense lets nobody past whom it has not given a token                       *)
(* (EvaluateBotDefense), for any overlap of requests, reloads and restarts.          *)
THEOREM BotGateHolds == Spec => BotGate
BY InvariantHolds, BotGateStep, PTL DEF Spec, BotGate

(* The same for the step that takes a request past the cookie check.              *)
LEMMA SemanticGateStep == IInv /\ [Next]_vars =>
    \A g \in Workers :
        LET job == proc[g]
            rt == semantic[job.node]
        IN  job.pc = "cookie" /\ proc'[g].pc = "limit" =>
              rt.cfg.mode # "challenge" \/ Granted("semantic", job, rt.secret)
<1> SUFFICES ASSUME IInv, [Next]_vars, NEW g \in Workers,
                    proc[g].pc = "cookie", proc'[g].pc = "limit",
                    semantic[proc[g].node].cfg.mode = "challenge"
             PROVE  Granted("semantic", proc[g], semantic[proc[g].node].secret)
  OBVIOUS
<1> DEFINE job == proc[g]
           rt == semantic[job.node]
           token == job.cookies[SemanticName]
<1>1. TypeOK /\ Served(g)
  BY DEF IInv, CookiesGranted
<1>2. job \in Job
  BY <1>1, Shapes
<1>3. Cookie(g)
  BY <1>1, StepTaken
<1>4. Verified(rt.secret, token, job.address, clock)
  <2>1. ASSUME Goto(g, "challenge") PROVE FALSE
    <3>1. proc'[g] = [job EXCEPT !.pc = "challenge"]
      BY <1>1, <2>1 DEF Goto, TypeOK
    <3>2. proc'[g].pc = "challenge"
      BY <1>2, <3>1 DEF Job
    <3> QED
      BY <3>2
  <2> QED
    BY <1>3, <2>1 DEF Cookie
<1>5. PICK grant \in granted :
        /\ grant.check = "semantic" /\ grant.client = job.client /\ grant.token = token
        /\ grant.token.expires <= grant.until
  BY <1>1, <1>2, <1>4, ConfigAssumption DEF Served, FromGrants, Verified
<1>6. grant.token.expires \in Nat /\ grant.until \in Nat /\ clock \in Nat
  BY <1>1, <1>5 DEF TypeOK, Grant, Token
<1>7. clock <= grant.token.expires /\ grant.token.secret = rt.secret
      /\ grant.token.address = job.address
  BY <1>4, <1>5 DEF Verified
<1>8. clock <= grant.until
  BY <1>5, <1>6, <1>7
<1> QED
  BY <1>5, <1>7, <1>8 DEF Granted

(* A request whose decision was to challenge passes the cookie check              *)
(* (HasValidSemanticChallengeCookie) only with a token of that check, or under a   *)
(* runtime that no longer challenges.                                              *)
THEOREM SemanticGateHolds == Spec => SemanticGate
BY InvariantHolds, SemanticGateStep, PTL DEF Spec, SemanticGate

-------------------------------------------------------------------------------
(* A token expires when the time is up that it was handed out for.                *)
Lasting == \A grant \in granted : grant.token.expires = grant.until

LEMMA LastingStep == Lasting /\ [Next]_vars => Lasting'
<1> SUFFICES ASSUME Lasting, [Next]_vars PROVE Lasting'
  OBVIOUS
<1>1. ASSUME NEW job, NEW check, NEW name, NEW secret, NEW ttl,
             HandOut(job, check, name, secret, ttl)
      PROVE  Lasting'
  <2> DEFINE token == Issued(secret, job.address, clock, ttl)
             grant == [check |-> check, client |-> job.client, token |-> token,
                       until |-> clock + ttl]
  <2>1. token.expires = clock + ttl
    BY DEF Issued
  <2> HIDE DEF token
  <2>2. grant.token.expires = grant.until
    BY <2>1
  <2>3. granted' = granted \cup {grant} \/ granted' = granted
    BY <1>1 DEF HandOut, token
  <2> HIDE DEF grant
  <2>4. QED
    BY <2>2, <2>3 DEF Lasting
<1>2. ASSUME NEW g \in Workers, Bot(g) \/ Challenge(g)
      PROVE  granted' = granted
             \/ \E job, check, name, secret, ttl : HandOut(job, check, name, secret, ttl)
  BY <1>2, Zenon DEF Bot, Challenge
<1>3. CASE UNCHANGED granted
  BY <1>3 DEF Lasting
<1> QED
  BY <1>1, <1>2, <1>3 DEF Next, Step, Evaluate, Cookie, Limit, Arrive, Tick, Move,
         ReloadBotDefense, ReloadSemantic, Restart, vars

(* A token that was handed out and has not expired is one that verifies.           *)
LEMMA ReturnsVerified ==
    ASSUME TypeOK, Lasting, NEW check, NEW job, NEW name, NEW secret,
           Returns(check, job, name, secret)
    PROVE  Verified(secret, job.cookies[name], job.address, clock)
<1>1. PICK grant \in granted :
        /\ grant.token = job.cookies[name] /\ grant.token.address = job.address
        /\ grant.token.secret = secret /\ clock <= grant.until
  BY DEF Returns
<1>2. grant.token \in Token /\ grant.token.expires = grant.until
  BY DEF TypeOK, Grant, Lasting
<1>3. grant.token # NoToken
  BY <1>2, TokenAssumption
<1> QED
  BY <1>1, <1>2, <1>3 DEF Verified

LEMMA ChallengedOnceStep == TypeOK /\ Lasting /\ [Next]_vars =>
    \A g \in Workers :
        LET job == proc[g]
            b == bot[job.node]
            s == semantic[job.node]
        IN  /\ job.pc = "bot" /\ Returns("bot", job, b.cfg.name, b.secret) => ~Challenged(g)
            /\ job.pc = "cookie" /\ Returns("semantic", job, SemanticName, s.secret) =>
                 proc'[g].pc # "challenge"
<1> SUFFICES ASSUME TypeOK, Lasting, [Next]_vars, NEW g \in Workers
             PROVE  LET job == proc[g]
                        b == bot[job.node]
                        s == semantic[job.node]
                    IN  /\ job.pc = "bot" /\ Returns("bot", job, b.cfg.name, b.secret) =>
                             ~Challenged(g)
                        /\ job.pc = "cookie" /\ Returns("semantic", job, SemanticName, s.secret) =>
                             proc'[g].pc # "challenge"
  BY Zenon
<1> DEFINE job == proc[g]
           b == bot[job.node]
           s == semantic[job.node]
<1>1. ASSUME job.pc = "bot", Returns("bot", job, b.cfg.name, b.secret), Challenged(g)
      PROVE  FALSE
  <2>1. Verified(b.secret, job.cookies[b.cfg.name], job.address, clock)
    BY <1>1, ReturnsVerified
  <2>2. Bot(g) /\ proc'[g].pc = "idle"
    BY <1>1, StepTaken DEF Challenged
  <2>3. Goto(g, "semantic")
    BY <2>1, <2>2 DEF Bot
  <2>4. proc'[g] = [job EXCEPT !.pc = "semantic"] /\ job \in Job
    BY <1>1, <2>3, Shapes DEF Goto, TypeOK
  <2>5. proc'[g].pc = "semantic"
    BY <2>4 DEF Job
  <2> QED
    BY <2>2, <2>5
<1>2. ASSUME job.pc = "cookie", Returns("semantic", job, SemanticName, s.secret),
             proc'[g].pc = "challenge"
      PROVE  FALSE
  <2>1. Verified(s.secret, job.cookies[SemanticName], job.address, clock)
    BY <1>2, ReturnsVerified
  <2>2. Cookie(g)
    BY <1>2, StepTaken
  <2>3. Pass(g)
    BY <2>1, <2>2 DEF Cookie
  <2>4. proc'[g] = Passed(job.node)
    BY <2>3 DEF Pass, TypeOK
  <2>5. proc'[g].pc = "limit"
    BY <2>4 DEF Passed
  <2> QED
    BY <1>2, <2>5
<1> QED
  BY <1>1, <1>2

(* A browser that comes back from the same address within the TTL, with a token     *)
(* handed out under the runtime in force, is challenged by neither check            *)
(* (EvaluateBotDefense, HasValidSemanticChallengeCookie), whatever else was handed   *)
(* out, reloaded or restarted between.                                              *)
THEOREM ChallengedOnceHolds == Spec => ChallengedOnce
<1>1. Init => Lasting
  BY DEF Init, Lasting
<1>2. IInv => TypeOK
  BY DEF IInv
<1> QED
  BY <1>1, <1>2, InvariantHolds, LastingStep, ChallengedOnceStep, PTL DEF Spec, ChallengedOnce
===============================================================================
