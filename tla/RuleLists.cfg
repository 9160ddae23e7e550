SPECIFICATION FairSpec
CONSTANTS
    Targets = {"ads", "shop"}
    Rows <- MCRows
    Urls = {"home", "work"}
    References = {"trackers", "shops", "more"}
    Contents <- MCContents
    Backups <- MCBackups
    Queries <- MCQueries
    Starts <- MCStarts
    Importers = {1, 2}
    RuleSetLimit = 2
    Batch = 1
    MaxEdits = 3
    MaxPrograms = 2
INVARIANTS TypeOK OneRulePerTarget ImportedFromSource PagesFollow
PROPERTIES BlockKept ButtonsReturn
