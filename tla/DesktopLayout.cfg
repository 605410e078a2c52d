\* Two edits, one change of what is in front; one each of the rest.
SPECIFICATION FairLayoutSpec
CONSTANTS
    x = x
    y = y
    Apps = {x, y}
    Codex = x
    Processes = {x, y}
    Matches <- MCMatches
    Resolvable = {x}
    Found = Found
    Lacking = {1}
    Nothing = Nothing
    MaxEvents = 3
INVARIANT EditsSurvive
PROPERTIES RevisionIdentifies ForegroundIsShown
