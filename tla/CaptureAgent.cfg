SPECIFICATION AgentSpec
CONSTANTS
    Jobs = {j1, j2}
    Agents = {a1, a2}
    NoAgent = NoAgent
    NoJob = NoJob
    Timeout = 1
    MaxLag = 0
    MaxFaults = 2
    MaxOrphans = 1
SYMMETRY Symmetry
INVARIANTS
    AgentTypeOK
    AgentsMatchTable
