\* One call of every action under every policy, a visitor's or not, or two calls of one
\* conversation of which one may profit from the grant of the other; nobody has to click.
CONSTANTS
  h1 = h1 h2 = h2 c1 = c1 v1 = v1 g1 = g1
  Nothing = Nothing
  Hooks <- MCHooks
  Conversations <- MCBoth
  Visitors <- MCVisitors
  Agents <- MCAgents
  Actions <- MCAllActions
  traits <- MCTraits
  Signatures <- MCAllActions
  signature <- MCSignature
  Policies <- MCPolicies
SPECIFICATION FairSpec
ACTION_CONSTRAINT MCNarrow
INVARIANTS TypeOK HardRulesWin GrantsAreGiven RanIsRecorded RecordIsTrue
PROPERTY HookIsAnswered
\* Every call is used once: the system comes to rest.
CHECK_DEADLOCK FALSE
