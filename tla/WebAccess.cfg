\* Two tabs of one browser, two logins, expiry and a restart with another secret.
SPECIFICATION FairSpec
CONSTANTS
  UserRows = {"alice"}
  Configs <- MCConfigs
  NoToken = NoToken
  Tabs = {t1, t2}
  Slots = {c1, c2}
  Usernames = {"alice", "nobody"}
  NoTab = NoTab
  MaxLogins = 2
  MaxRestarts = 1
  MaxTime = 1
INVARIANT TypeOK
PROPERTIES LoginKept LoginLasts RefusalEndsAtLogin
