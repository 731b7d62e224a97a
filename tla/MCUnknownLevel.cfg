CONSTANTS
  NetProto = 2048
  TransProto = 6
  EndpointFaults = FALSE
  AsyncErrors = {}
  RttSamples = {}
  GetKeys <- MCUnknownGetKeys
  SetInputs <- MCUnknownSetInputs
  ContractKeys = {}
  ContractGroupKeys = {}

SPECIFICATION Spec

PROPERTY UnknownLevelIsUnknownProtocol
