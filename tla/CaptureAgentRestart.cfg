SPECIFICATION RestartSpec
CONSTANTS
    Jobs = {j1, j2}
    Agents = {a1}
    NoAgent = NoAgent
    NoJob = NoJob
    Timeout = 1
    MaxLag = 0
    MaxFaults = 1
    MaxOrphans = 1
PROPERTIES
    JobsMoveOn
