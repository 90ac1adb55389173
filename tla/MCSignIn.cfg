SPECIFICATION Spec
CONSTANTS
    n1 = n1
    q1 = q1
    q2 = q2
    i1 = i1
    i2 = i2
    Nonces = {n1}
    Requests = {q1, q2}
    Instances = {i1, i2}
    Deployments <- MCDeployments
    TTL = 2
    MaxTime = 4
INVARIANTS
    OneWinnerInTime
    RefusedMeansTaken
