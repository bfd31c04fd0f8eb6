CONSTANTS
  ana = ana
  alerts = alerts
  None = None
  Users <- OneUser
  Keys <- OnlyAlerts
  KeyTab <- OnDesk
  Alerts = alerts
  MaxEdits = 2
  MaxOps = 2
SPECIFICATION Spec
INVARIANTS
  PullAwaitsReload
