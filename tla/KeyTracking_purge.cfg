CONSTANTS
    ann = ann
    bob = bob
    r1 = r1
    None = None
    Characters = {ann, bob}
    Runs = {r1}
    Participation <- MCParticipation
    NameOf <- DistinctNames
    MaxConcurrent = 1
    MaxEvents = 1
SPECIFICATION Spec
INVARIANT PurgeStaysPurged
