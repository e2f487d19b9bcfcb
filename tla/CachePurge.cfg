SPECIFICATION Spec
CONSTANTS
  c1 = c1
  c2 = c2
  None = None
  Users = {"ann", "bob", "eve"}
  Digest <- MCDigest
  OriginId <- MCOriginId
  Rules <- MCRules
  NameOrder <- MCNames
  Bearer <- MCBearer
  Clients = {c1, c2}
  Reads <- MCReads
  Purges <- MCPurges
SYMMETRY AnyClient
INVARIANTS
  TypeOK
  KeysIdentify
  PatternsFit
  PurgeReaches
PROPERTIES
  PurgeSpares
