\* Starts that may break three times at any step, over two migrations.
SPECIFICATION LiveSpec
CONSTANTS
  Migrations = 2
  MaxFaults = 3
  MaxSecrets = 3
INVARIANTS MigrationsAreWhole OneHostKey NoSecondAdmin
PROPERTIES ServesAgain
