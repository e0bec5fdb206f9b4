SPECIFICATION SettingsSpec
CONSTANTS
  Sections = {"modem", "collecte", "analyse", "abonnement", "sonde", "debit", "notifications", "meteo", "domotique", "sauvegarde", "versions"}
  Typed <- MCTyped
  Environments <- MCEnvironments
  MaxEdits = 2
  MaxSaves = 2
INVARIANTS
  UntouchedFormKeeps
  PagesTellTheTasks
  LimitsStand
CHECK_DEADLOCK FALSE
