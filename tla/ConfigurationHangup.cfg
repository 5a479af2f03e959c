\* A SIGHUP when the command line gave the agents.
SPECIFICATION ConfigSpec
CONSTANTS
    x = x
    y = y
    Unset = Unset
    Agents = {x, y}
    CommandLines <- MCCommandLines
    Files <- MCFiles
INVARIANT CommandLinePrevails
