\* Two collectors on one state directory, with two listeners each, start a run each.
CONSTANTS
    c1 = c1
    c2 = c2
    l1 = l1
    l2 = l2
    Nobody = Nobody
    Collectors = {c1, c2}
    Listeners = {l1, l2}
    MaxFailures = 0
    MaxRuns = 2
    MaxCrashes = 0
SPECIFICATION BenchSpec
INVARIANT OneRun
