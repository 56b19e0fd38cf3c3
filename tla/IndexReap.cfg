SPECIFICATION FairSpec
CONSTANTS
    Trees <- TwoFiles
    Name = {"a.php", "b.php", "c.php", "d.php"}
    Key = {"", "x", "y", "short"}
    BlankKey = ""
    ShortKeys = {"short"}
    MaxJobs = 2
    MaxPostings = 4
    Orders = {"forward"}
    MaxDeaths = 0
PROPERTY Terminates
CHECK_DEADLOCK FALSE
