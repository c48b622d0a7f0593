SPECIFICATION Spec
CONSTANTS
  Attempt = {1, 2, 3}
  EmailOf <- TwoAddresses
  AdminEmail = 20
  Seeder = {"entrypoint", "operator1", "operator2"}
  Entrypoint = "entrypoint"
  MaxStarts = 3
INVARIANTS
  TypeOK
  SeedAllOrNothing
  OneAccountPerEmail
  RefusalMeansAccount
PROPERTIES
  SecondStartSeeds
