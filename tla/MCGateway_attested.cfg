CONSTANTS
    Deployments <- MCDeployments
    Thread = {"h1"}
    Limit = 1
    ArtifactTTL = 1
    MaxBoots = 3
    LastSecond = 0
    GatewayEnv = {"crash"}
SPECIFICATION GatewaySpec
INVARIANT AttestationIsLive
CHECK_DEADLOCK FALSE
