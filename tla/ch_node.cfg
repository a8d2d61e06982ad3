SPECIFICATION FairSpec
CONSTANTS
    A = A  g = g   c = c  d = d  home = home  away = away  k = k  secret1 = secret1
    botCookie = botCookie  semCookie = semCookie
    Ephemeral = Ephemeral  NoToken = NoToken
    Nodes = {A}
    Workers = {g}
    Clients = {c, d}
    Browsers = {c}
    Addresses = {home, away}
    FirstAddress <- AtHome
    Kinds = {k}
    Score <- MCScore
    BotConfigs <- TwoBots
    FirstBot <- EphemeralBot
    FirstSemantic <- Challenging
    SemanticConfigs <- ThreeModes
    Names = {botCookie, semCookie}
    SemanticName = semCookie
    Secrets = {secret1}
    SemanticTTL = 1
    MaxClock = 2
    MaxBuilds = 2
    MaxMoves = 1
INVARIANT TypeOK
PROPERTIES BotGate SemanticGate ChallengedOnce ChallengesEnd
