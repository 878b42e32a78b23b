\* A browser of folders and two choosers of filaments, over each kind of line.
CONSTANTS
    Content <- ThreeFolders
    PageSize = 2
    Worlds <- AllWorlds
    MaxFaults = 1
SPECIFICATION FairSpec
INVARIANTS TypeOK ListIsWhole ShownIsSorted
PROPERTY FolderIsShown
\* Nothing is left to do when the user has asked enough.
CHECK_DEADLOCK FALSE
