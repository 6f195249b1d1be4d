SPECIFICATION Spec
CONSTANTS
  Appium = appium
  webdriver = webdriver
  mjsonwp = mjsonwp
  r1 = r1
  r2 = r2
  r3 = r3
  r4 = r4
  Protocols <- TwoProtocols
  LastVersion <- TwoThenOne
  Routes = {r1, r2, r3, r4}
  Claims <- SomeClaims
  MaxAttempts = 2
  MaxFaults = 1
  Filtered <- AllFiles
  Hub <- SomeHub
INVARIANT ExistsIsHandled
