SPECIFICATION SettingsSpec
CONSTANTS
  Sections = {"modem", "collecte", "analyse", "abonnement", "sonde", "debit", "notifications", "meteo", "domotique", "sauvegarde", "versions"}
  Typed <- MCTyped
  Environments <- MCEnvironments
  MaxEdits = 2
  MaxSaves = 2
PROPERTY
  LinkStays
CHECK_DEADLOCK FALSE
