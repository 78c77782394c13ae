\* Shells nested up to three deep, at a terminal and behind a pipe.
SPECIFICATION ShellSpec
CONSTANTS
    MaxProcess = 3
    MaxLine = 3
    MaxStop = 1
INVARIANTS ShellTypeOK OneReader JobsAreDone NumbersAgree ParentsEndLast FirstShellStays
PROPERTIES EndsAfterInterrupt ScriptEnds
CHECK_DEADLOCK FALSE
