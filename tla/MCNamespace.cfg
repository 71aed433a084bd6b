CONSTANTS
  Proc = {p1, p2}
  Name = {"a", "b"}
  NINODES = 3
  NFILE = 1
  NOFILE = 2
  Path <- MCPath
  Second <- MCSecond
  Long <- MCLong
  Op = {"open", "creat", "mkdir", "mknod", "symlink", "link", "unlink", "chdir"}
  OpenMode = {"read", "nofollow"}
  DEPTH = 1
  Start <- MCStart
  CALLS = 3
SPECIFICATION Spec
SYMMETRY Symm
INVARIANTS RefExact IputNeverBlocks LinksExact NoDangling
