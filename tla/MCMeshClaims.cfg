SPECIFICATION ClaimsSpec
CONSTANTS
  a = a
  b = b
  claim_a = claim_a
  claim_b = claim_b
  Sessions = {a, b}
  Claims = {claim_a, claim_b}
  Claimant <- MCClaimant
  Collectors = {g}
  None = None
  Dead = 1
  Ttl = 2
INVARIANTS ClaimsTypeOK ActiveIsListed OneOfTwoIsWarned
PROPERTIES ClaimsLastTheirTime
CHECK_DEADLOCK FALSE
