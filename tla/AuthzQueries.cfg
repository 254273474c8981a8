SPECIFICATION Spec
CONSTANTS
  Models <- MCModels
  Tuples <- MCTuples
  Users <- MCUsers
  Contexts <- MCContexts
  Extras <- MCExtras
  Successors <- MCSuccessors
  Drafts <- MCDrafts
  DbOrder <- MCDbOrder
  MaxDepth = 5
  MaxChecks = 50
  Spelled <- MCSpelled
  Hash <- MCHash
  Outcomes <- Check
  Environments <- RequestsAbout
  MaxTuples = 5
INVARIANTS CheckIsExact BatchIsExact CachedReadsAreMarked ListObjectsIsExact ListUsersIsExact ExpandIsExact AcceptedModelsCanBeEntered
