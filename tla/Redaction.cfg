\* Values nested deeper than MaxDepth, longer and wider than the bounds.
SPECIFICATION Spec
CONSTANTS
  Words <- MCWords
  MaxDepth = 3
  MaxStr = 2
  MaxItems = 2
  MaxNesting = 5
  SecretNames <- NamesWithParts
  SafeNames <- Exceptions
  Fields <- MCFields
  Payloads <- MCPayloads
CHECK_DEADLOCK FALSE
INVARIANTS NoSecretValue ValuesBounded HarmlessShown
