CONSTANTS
    s1 = s1
    s2 = s2
    s3 = s3
    e1 = e1
    A = A
    B = B
    Instances = {s1, s2, s3}
    Nobody = Nobody
    Entries = {e1}
    Builds = {A, B}
    NoBuild = NoBuild
    Configs <- Mixed
    MaxJobs = 1
    Eras <- OneThenTwo
SPECIFICATION Spec
PROPERTY UnreadStays
