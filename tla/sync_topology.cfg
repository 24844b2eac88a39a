SPECIFICATION SyncSpec
CONSTANTS
  None = None
  Tenants = {t1}
  Addrs = {a1, a2}
  Statuses = {"Ready", "Offline"}
  Sessions = {s1}
  Registers = FALSE
INVARIANT ListFollowsTopology
