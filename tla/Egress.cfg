CONSTANTS
    default = default
    strict = strict
    open = open
    domain = domain
    sub = sub
    inner = inner
    local = local
    public = public
    Policies = {default, strict, open}
    Default = default
    Garbage = garbage
    Unloaded = unloaded
    MaxWrites = 3
    Backdating = FALSE
    IOErrors = TRUE
    Names = {domain, sub, inner}
    Addrs = {local, public}
    Hosts = {sub, inner, local}
    Covers <- MCCovers
    Domains <- MCDomains
    Cidrs <- MCCidrs
    Answers <- MCAnswers
    Payloads <- MCPayloads
    DigitRuns <- MCDigitRuns
    Bodies <- MCBodies
    Cap = 2
    Signer = TRUE
SPECIFICATION EgressSpec
CHECK_DEADLOCK FALSE
INVARIANTS
    EgressTypeOK
    CaughtUpMeansCurrent
    AccountedFor
    
PROPERTIES
    RevokedHostGoesDark
