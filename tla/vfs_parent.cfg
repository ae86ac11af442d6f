SPECIFICATION Spec
CONSTANTS
  t1 = t1
  t2 = t2
  Task = {t1}
  Mounters = {t1}
  Tmpfs = {"tmp1"}
  Devfs = {"dev1"}
  Name = {"a"}
  Paths <- MCPaths
  Ops = {"mount", "mkdir", "readdir"}
  MaxCalls = 3
INVARIANT ParentOfMountPoint
