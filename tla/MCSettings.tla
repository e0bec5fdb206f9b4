----------------------------- MODULE MCSettings -----------------------------
\* A small instance of Settings: some fields of each section are edited, with a
\* value of each sort.
EXTENDS Settings

MCTyped == [
  ModemModel |-> {"cga4233", "docsis-snmp", "autre"}, ModemPassword |-> {"s"},
  Profile |-> {"voo", "generique"},
  Interval |-> {"0s"}, RetentionDays |-> {"0"}, RetentionGB |-> {"nan"},
  ProbeInterval |-> {"1h"},
  SpeedSource |-> {"unifi"}, SpeedToken |-> {"s"}, SpeedUser |-> {"u"}, SpeedPassword |-> {"s"},
  NotifyService |-> {"ntfy", "telegram"}, NtfyTopic |-> {"t"}, TelegramToken |-> {"s"}, TelegramChat |-> {"c"},
  WeatherPosition |-> {"Namur"}, MQTTServer |-> {"h", "mqtt://h"}, BackupKeep |-> {"400"}]

NoVariable == [k \in {} |-> ""]
MCEnvironments == {
  NoVariable, [BackupKeep |-> "400"],
  [ModemPassword |-> "s", WeatherOn |-> "true", SpeedOn |-> "true", SpeedURL |-> "h", BackupOn |-> "false"]}
=============================================================================
