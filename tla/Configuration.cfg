\* Starts, edits of the file and SIGHUPs.
SPECIFICATION ConfigSpec
CONSTANTS
    x = x
    y = y
    Unset = Unset
    Agents = {x, y}
    CommandLines <- MCCommandLines
    Files <- MCFiles
INVARIANT ConfigTypeOK
INVARIANT AgentsSurviveBadFiles
