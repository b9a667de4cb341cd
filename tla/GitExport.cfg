\* A branch that moves, three failures, hanging commands or kills, with and
\* without a token.
SPECIFICATION FairSpec
CONSTANTS MaxRevision = 2
          MaxFaults = 3
          Torn = Torn
INVARIANTS RecordsMatchDocs
PROPERTIES MirrorsTheBranch TenantCatchesUp CallersAreAnswered
