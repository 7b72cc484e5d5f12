CONSTANTS
  Domains = 5
  FailingSets <- SomeFail
  Budget = 1
  MaxBackoff = 4
  MaxAbandon = 1
  MaxCool = 1
SPECIFICATION Spec
PROPERTIES WarmableIsWarmed
