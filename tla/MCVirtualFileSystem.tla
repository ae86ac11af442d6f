-------------------------- MODULE MCVirtualFileSystem -------------------------
(* TLC instances of VirtualFileSystem: the paths "/", "/a", "/a/a" and "/..", *)
(* a Tmpfs and a Devfs to mount, and one task that mounts, as at boot.       *)
EXTENDS VirtualFileSystem

CONSTANTS t1, t2

MCPaths == {<<>>, <<"a">>, <<"a", "a">>, <<"..">>}
===============================================================================
