SPECIFICATION Spec
CONSTANTS
    MaxTag = 2
    Checks = {"ci-ok"}
    Required = {"ci-ok"}
    MaxCommits = 2
    MaxUpsets = 1
INVARIANTS
    StrangersAreLeft
