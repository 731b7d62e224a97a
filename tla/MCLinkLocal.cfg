CONSTANTS
  Addresses <- MCAddresses

SPECIFICATION Spec

INVARIANT LinkLocalIsPrefix
