CONSTANTS
  NetProto = 2048
  TransProto = 6
  EndpointFaults = FALSE
  AsyncErrors = {}
  RttSamples = {}
  GetKeys <- MCTosKeys
  SetInputs <- MCTosSetInputs
  ContractKeys <- MCTosKeys
  ContractGroupKeys = {}

SPECIFICATION Spec

PROPERTY ImplementsOptionStore
