SPECIFICATION FairSpec
CONSTANTS
    Servers = {"home", "work"}
    Starts <- MCStarts
    MaxGeneration = 5
    MaxEvents = 3
INVARIANTS TypeOK TrayFollows CardsTell ShownServer
PROPERTIES StopIsTold ShownInTheEnd
