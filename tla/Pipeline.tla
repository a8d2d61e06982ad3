------------------------------ MODULE Pipeline ------------------------------
(***************************************************************************)
(* ProxyHandler: a request that the country block lets in passes the bot      *)
(* defense, the semantic check, and then the rate limit and the WAF.  Bot     *)
(* defense and semantic check may answer with a challenge: a page whose script stores a  *)
(* token as a cookie and loads the address again.                            *)
(*                                                                           *)
(* Each check takes the runtime in force when the request reaches it, the    *)
(* semantic one up to three times; reloads replace the runtimes meanwhile.   *)
(* A step is one such use of a runtime.  The rate limit has a module of its  *)
(* own (RateLimit), the WAF and the proxied server may answer anything.      *)
(***************************************************************************)
EXTENDS Integers

CONSTANTS
    Nodes,            \* the server processes
    Workers,          \* goroutines that serve requests
    Clients,
    Browsers,         \* the clients that run the script of a challenge page
    Addresses,        \* client addresses, each with a User-Agent
    FirstAddress,     \* Clients -> Addresses
    Kinds,            \* methods, paths and contents of requests
    Score,            \* Kinds -> what the semantic patterns add up to
    BotConfigs,       \* bot defense configurations
    SemanticConfigs,  \* semantic configurations
    FirstBot,         \* those found at the first start
    FirstSemantic,
    Names,            \* cookie names
    SemanticName,     \* "__mamotama_semantic_ok"
    Secrets,          \* values of challenge_secret
    Ephemeral,        \* no challenge_secret
    SemanticTTL,      \* challengeTTL of the semantic runtime
    NoToken,
    MaxClock,         \* bound: the last second of the model
    MaxBuilds,        \* bound: reloads and restarts
    MaxMoves          \* bound: changes of a client's address

Modes == {"off", "log_only", "challenge", "block"}

\* covers: the requests that bot defense asks for a token, given by method, path,
\* address and User-Agent; none when it is disabled.
BotConfig == [covers : SUBSET (Addresses \X Kinds), name : Names,
              secret : Secrets \cup {Ephemeral}, ttl : Nat]
SemanticConfig == [mode : Modes, exempt : SUBSET Kinds,
                   log : Nat, challenge : Nat, block : Nat]

\* What rand.Read draws: no two builds draw the same secret.
Drawn == [check : {"bot", "semantic"}, node : Nodes, build : Nat]

ASSUME ConfigAssumption ==
    /\ Browsers \subseteq Clients
    /\ FirstAddress \in [Clients -> Addresses]
    /\ Score \in [Kinds -> Nat]
    /\ BotConfigs \subseteq BotConfig /\ SemanticConfigs \subseteq SemanticConfig
    /\ FirstBot \in BotConfigs /\ FirstSemantic \in SemanticConfigs
    /\ \A cfg \in SemanticConfigs :
         cfg.mode # "off" => cfg.log <= cfg.challenge /\ cfg.challenge <= cfg.block
    /\ SemanticName \in Names /\ SemanticTTL \in Nat

\* Not checked by the code.  With one name for both cookies each challenge replaces
\* the token of the other, and a browser is sent from one to the other for ever.
ASSUME NamesDiffer == \A cfg \in BotConfigs : cfg.name # SemanticName

VARIABLES
    bot,        \* node -> bot defense runtime
    semantic,   \* node -> semantic runtime
    proc,       \* goroutine -> the request it serves
    address,    \* client -> its present address
    jar,        \* client -> its cookies
    clock,
    builds, moves,  \* counts, for the bounds
    granted     \* history: the tokens handed out

runtimes == <<bot, semantic>>
vars == <<bot, semantic, proc, address, jar, clock, builds, moves, granted>>

Secret == Secrets \cup Drawn
BotRuntime == [cfg : BotConfigs, secret : Secret]
SemanticRuntime == [cfg : SemanticConfigs, secret : Drawn]

Token == [secret : Secret, address : Addresses, expires : Nat]
ASSUME TokenAssumption == NoToken \notin Token
Cookies == [Names -> Token \cup {NoToken}]
Grant == [check : {"bot", "semantic"}, client : Browsers, token : Token, until : Nat]

Job == [pc : {"bot", "semantic", "cookie", "challenge"},
        node : Nodes, client : Clients, address : Addresses, kind : Kinds, cookies : Cookies]
Idle == [pc |-> "idle"]
Passed(n) == [pc |-> "limit", node |-> n]

-------------------------------------------------------------------------------
(* buildBotDefenseRuntimeFromRaw and buildSemanticRuntimeFromRaw: rand.Read      *)
(* draws a secret that no other build has drawn.                                 *)
Draw(check, n, build) == [check |-> check, node |-> n, build |-> build]

(* A bug TypeOK would catch: an empty challenge_secret is used as it is.          *)
BuildBotUndrawn(cfg, n, build) == [cfg |-> cfg, secret |-> cfg.secret]

BuildBot(cfg, n, build) ==
    [cfg |-> cfg, secret |-> IF cfg.secret = Ephemeral THEN Draw("bot", n, build) ELSE cfg.secret]

BuildSemantic(cfg, n, build) == [cfg |-> cfg, secret |-> Draw("semantic", n, build)]

Init ==
    /\ bot = [n \in Nodes |-> BuildBot(FirstBot, n, 0)]
    /\ semantic = [n \in Nodes |-> BuildSemantic(FirstSemantic, n, 0)]
    /\ proc = [g \in Workers |-> Idle]
    /\ address = FirstAddress
    /\ jar = [c \in Clients |-> [name \in Names |-> NoToken]]
    /\ clock = 0 /\ builds = 0 /\ moves = 0
    /\ granted = {}

-------------------------------------------------------------------------------
(* Tokens.                                                                       *)

(* A bug ChallengedOnce would catch: the token expires a second early.            *)
IssuedShort(secret, from, now, ttl) ==
    [secret |-> secret, address |-> from, expires |-> now + ttl - 1]

(* issueBotDefenseToken, issueSemanticChallengeToken                              *)
Issued(secret, from, now, ttl) ==
    [secret |-> secret, address |-> from, expires |-> now + ttl]

(* A bug BotGate would catch: the signature leaves out the client's address.      *)
VerifiedAnywhere(secret, token, from, now) ==
    token # NoToken /\ token.secret = secret /\ now <= token.expires

(* verifyBotDefenseToken, verifySemanticChallengeToken: the signature depends on   *)
(* the secret, the client's address and User-Agent, and the expiry.               *)
Verified(secret, token, from, now) ==
    /\ token # NoToken
    /\ token.secret = secret /\ token.address = from
    /\ now <= token.expires

(* document.cookie = name=token                                                    *)
Stored(cookies, name, token) == [cookies EXCEPT ![name] = token]

(* The challenge page; a client that does not accept HTML gets no token.           *)
HandOut(job, check, name, secret, ttl) ==
    LET token == Issued(secret, job.address, clock, ttl)
    IN  IF job.client \in Browsers
          THEN /\ jar' = [jar EXCEPT ![job.client] = Stored(@, name, token)]
               /\ granted' = granted \cup {[check |-> check, client |-> job.client,
                                            token |-> token, until |-> clock + ttl]}
          ELSE UNCHANGED <<jar, granted>>

-------------------------------------------------------------------------------
(* ProxyHandler.                                                                 *)

Goto(g, pc) == proc' = [proc EXCEPT ![g].pc = pc]
Pass(g) == proc' = [proc EXCEPT ![g] = Passed(@.node)]
Reply(g) == proc' = [proc EXCEPT ![g] = Idle]

Arrive(g, n, c, kind) ==
    /\ proc[g].pc = "idle"
    /\ proc' = [proc EXCEPT ![g] =
         [pc |-> "bot", node |-> n, client |-> c, address |-> address[c], kind |-> kind,
          cookies |-> jar[c]]]
    /\ UNCHANGED <<runtimes, address, jar, clock, builds, moves, granted>>

Covers(rt, job) == <<job.address, job.kind>> \in rt.cfg.covers

(* EvaluateBotDefense and WriteBotDefenseChallenge, all under one runtime.        *)
Bot(g) ==
    /\ proc[g].pc = "bot"
    /\ LET job == proc[g]
           rt == bot[job.node]
       IN  IF Covers(rt, job) /\ ~Verified(rt.secret, job.cookies[rt.cfg.name], job.address, clock)
             THEN Reply(g) /\ HandOut(job, "bot", rt.cfg.name, rt.secret, rt.cfg.ttl)
             ELSE Goto(g, "semantic") /\ UNCHANGED <<jar, granted>>
    /\ UNCHANGED <<runtimes, address, clock, builds, moves>>

(* The action of EvaluateSemantic. *)
Action(rt, kind) ==
    LET cfg == rt.cfg
        score == Score[kind]
    IN  CASE cfg.mode = "off" \/ kind \in cfg.exempt \/ score < cfg.log -> "none"
          [] cfg.mode = "challenge" /\ kind \notin cfg.exempt /\ score >= cfg.challenge -> "challenge"
          [] cfg.mode = "block" /\ kind \notin cfg.exempt /\ score >= cfg.block -> "block"
          [] OTHER -> "log_only"

Evaluate(g) ==
    /\ proc[g].pc = "semantic"
    /\ LET action == Action(semantic[proc[g].node], proc[g].kind)
       IN  \/ action \in {"none", "log_only"} /\ Pass(g)
           \/ action = "challenge" /\ Goto(g, "cookie")
           \/ action = "block" /\ Reply(g)
    /\ UNCHANGED <<runtimes, address, jar, clock, builds, moves, granted>>

(* A bug SemanticGate would catch: a cookie that does not verify passes.            *)
CookieUnverified(g) ==
    /\ proc[g].pc = "cookie"
    /\ LET rt == semantic[proc[g].node]
       IN  IF rt.cfg.mode # "challenge" \/ proc[g].cookies[SemanticName] # NoToken
             THEN Pass(g) ELSE Goto(g, "challenge")
    /\ UNCHANGED <<runtimes, address, jar, clock, builds, moves, granted>>

(* HasValidSemanticChallengeCookie *)
Cookie(g) ==
    /\ proc[g].pc = "cookie"
    /\ LET rt == semantic[proc[g].node]
           token == proc[g].cookies[SemanticName]
       IN  IF rt.cfg.mode # "challenge" \/ Verified(rt.secret, token, proc[g].address, clock)
             THEN Pass(g) ELSE Goto(g, "challenge")
    /\ UNCHANGED <<runtimes, address, jar, clock, builds, moves, granted>>

(* A bug ChallengesEnd would catch: both challenges use one cookie name.             *)
ChallengeOneName(g) ==
    /\ proc[g].pc = "challenge"
    /\ Reply(g)
    /\ LET n == proc[g].node
       IN  HandOut(proc[g], "semantic", bot[n].cfg.name, semantic[n].secret, SemanticTTL)
    /\ UNCHANGED <<runtimes, address, clock, builds, moves>>

(* WriteSemanticChallenge *)
Challenge(g) ==
    /\ proc[g].pc = "challenge"
    /\ Reply(g)
    /\ HandOut(proc[g], "semantic", SemanticName, semantic[proc[g].node].secret, SemanticTTL)
    /\ UNCHANGED <<runtimes, address, clock, builds, moves>>

(* EvaluateRateLimit and the WAF.                                                  *)
Limit(g) ==
    /\ proc[g].pc = "limit"
    /\ Reply(g)
    /\ UNCHANGED <<runtimes, address, jar, clock, builds, moves, granted>>

-------------------------------------------------------------------------------
(* Reloads, restarts, clients that move, and time.                                *)

Built == builds < MaxBuilds /\ builds' = builds + 1

ReloadBotDefense(n) ==
    /\ Built
    /\ \E cfg \in BotConfigs : bot' = [bot EXCEPT ![n] = BuildBot(cfg, n, builds')]
    /\ UNCHANGED <<semantic, proc, address, jar, clock, moves, granted>>

ReloadSemantic(n) ==
    /\ Built
    /\ \E cfg \in SemanticConfigs :
         semantic' = [semantic EXCEPT ![n] = BuildSemantic(cfg, n, builds')]
    /\ UNCHANGED <<bot, proc, address, jar, clock, moves, granted>>

(* The process dies and starts with the files it has.                             *)
Restart(n) ==
    /\ Built
    /\ bot' = [bot EXCEPT ![n] = BuildBot(@.cfg, n, builds')]
    /\ semantic' = [semantic EXCEPT ![n] = BuildSemantic(@.cfg, n, builds')]
    /\ proc' = [g \in Workers |->
         IF proc[g].pc # "idle" /\ proc[g].node = n THEN Idle ELSE proc[g]]
    /\ UNCHANGED <<address, jar, clock, moves, granted>>

Move(c) ==
    /\ moves < MaxMoves
    /\ moves' = moves + 1
    /\ \E a \in Addresses : address' = [address EXCEPT ![c] = a]
    /\ UNCHANGED <<runtimes, proc, jar, clock, builds, granted>>

Tick ==
    /\ clock < MaxClock
    /\ clock' = clock + 1
    /\ UNCHANGED <<runtimes, proc, address, jar, builds, moves, granted>>

Step(g) == Bot(g) \/ Evaluate(g) \/ Cookie(g) \/ Challenge(g) \/ Limit(g)

Next ==
    \/ Tick
    \/ \E n \in Nodes :
         ReloadBotDefense(n) \/ ReloadSemantic(n) \/ Restart(n)
    \/ \E c \in Clients : Move(c)
    \/ \E g \in Workers :
         \/ Step(g)
         \/ \E n \in Nodes, c \in Clients, kind \in Kinds : Arrive(g, n, c, kind)

Spec == Init /\ [][Next]_vars

(* Goroutines run on; clients need not send anything, nor has anything to reload.  *)
FairSpec == Spec /\ \A g \in Workers : WF_vars(Step(g))

-------------------------------------------------------------------------------
TypeOK ==
    /\ bot \in [Nodes -> BotRuntime] /\ semantic \in [Nodes -> SemanticRuntime]
    /\ proc \in [Workers -> Job \cup {Passed(n) : n \in Nodes} \cup {Idle}]
    /\ address \in [Clients -> Addresses] /\ jar \in [Clients -> Cookies]
    /\ clock \in Nat /\ builds \in Nat /\ moves \in Nat
    /\ granted \subseteq Grant

Granted(check, job, secret) ==
    \E grant \in granted :
        /\ grant.check = check /\ grant.client = job.client
        /\ grant.token.address = job.address /\ grant.token.secret = secret
        /\ clock <= grant.until

(* A request that bot defense covers gets past it only when its client was handed *)
(* a token, at its present address, under the secret in force and at most the TTL  *)
(* ago, whatever was reloaded, restarted or handed out since.                      *)
BotGate ==
    [][\A g \in Workers :
         LET job == proc[g]
             rt == bot[job.node]
         IN  job.pc = "bot" /\ proc'[g].pc = "semantic" /\ Covers(rt, job) =>
               Granted("bot", job, rt.secret)]_vars

(* A request that the semantic check means to challenge goes on without a new      *)
(* challenge only when its client was handed a token under the secret in force, or *)
(* when the mode has been changed since.                                           *)
SemanticGate ==
    [][\A g \in Workers :
         LET job == proc[g]
             rt == semantic[job.node]
         IN  job.pc = "cookie" /\ proc'[g].pc = "limit" =>
               rt.cfg.mode # "challenge" \/ Granted("semantic", job, rt.secret)]_vars

(* The step answers with a challenge.                                              *)
Challenged(g) ==
    proc[g].pc \in {"bot", "challenge"} /\ proc'[g].pc = "idle" /\ builds' = builds

(* A browser that returns from the same address, within the TTL, with a token that  *)
(* was handed out under the runtime in force is not challenged again.              *)
Returns(check, job, name, secret) ==
    \E grant \in granted :
        /\ grant.check = check /\ grant.token = job.cookies[name]
        /\ grant.token.address = job.address /\ grant.token.secret = secret
        /\ clock <= grant.until

ChallengedOnce ==
    [][\A g \in Workers :
         LET job == proc[g]
             b == bot[job.node]
             s == semantic[job.node]
         IN  /\ job.pc = "bot" /\ Returns("bot", job, b.cfg.name, b.secret) => ~Challenged(g)
             /\ job.pc = "cookie" /\ Returns("semantic", job, SemanticName, s.secret) =>
                  proc'[g].pc # "challenge"]_vars

(* A browser is not challenged for ever: once it stays at its address and nothing is *)
(* reloaded it comes to hold both tokens, neither check takes the other's away, and  *)
(* until they expire (the clock has a last second) it is not challenged again.       *)
ChallengesEnd ==
    <>[][\A g \in Workers :
           Challenged(g) => proc[g].client \notin Browsers]_vars
===============================================================================
