SPECIFICATION FileSpec
CONSTANTS
    Trees <- MCTrees
    Name = {"a.php", "b.php", "c.php", "d.php"}
    Key = {"", "x", "y", "short"}
    BlankKey = ""
    ShortKeys = {"short"}
    MaxJobs = 3
    MaxPostings = 4
    Orders = {"backward"}
    MaxDeaths = 1
    Earlier <- MCEarlier
INVARIANTS
    ToolsSeeSerialIndex
    NoCircularWait
PROPERTIES
    Terminates
    NoOrphans
CHECK_DEADLOCK FALSE
