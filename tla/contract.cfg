CONSTANTS
  Profiles <- MCProfiles
  Declarations <- MCDeclarations
  Grants <- MCGrants
  Intents <- MCIntents
  Bundles <- MCBundles
  Controls <- MCControls
  Loads <- MCLoads
SPECIFICATION Spec
CHECK_DEADLOCK FALSE
INVARIANTS
  AcceptedSuffices
  AllowedIsGoverned
  StrangersLearnNothing
