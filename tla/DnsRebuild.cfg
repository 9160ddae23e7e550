SPECIFICATION CalmSpec
CONSTANTS
    Labels = {"site", "shop", "other", "localhost"}
    Addresses = {"origin", "cdn", "lan"}
    Programs = {"browser", "player"}
    Unreal <- MCUnreal
    Passed = {"lan"}
    Virtual = {}
    Domains <- MCDomains
    Resolves <- MCResolves
    Configs <- MCConfigs
    Queries = {1}
    MaxSessions = 2
PROPERTY RebuildKeepsSession
