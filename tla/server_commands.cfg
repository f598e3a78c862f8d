SPECIFICATION FairSpec
CONSTANTS
 Admins={a1,a2}
 Kernel=Kernel
 Commands <- MCCommands
 MaxCommands=2
 NShells=2
 Threads={t1}
 Size=1
 MaxStarts=3
 MaxQueries=2
CHECK_DEADLOCK FALSE
INVARIANTS RestartComesBack ShellsStopClean PoolsStopClean
PROPERTIES CommandEnds ShellsComeUp
