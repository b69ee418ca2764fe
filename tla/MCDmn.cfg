SPECIFICATION DmnSpec
CONSTANTS
    quipc = quipc
    msapm = msapm
    Client <- Daemons
    WaitForClose = TRUE
    EnforceSingle = TRUE
    DropOnRestart = FALSE
    MaxCmds = 3
    MaxEvents = 3
    MaxPipe = 3
    MaxAnswers = 2
INVARIANTS
    ViewIsTrue
    NoStaleAnswer
PROPERTIES
    DaemonAnswered
