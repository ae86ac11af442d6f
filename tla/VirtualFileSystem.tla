--------------------------- MODULE VirtualFileSystem --------------------------
(***************************************************************************)
(* The virtual file system: Tmpfs and Devfs trees, the mount table that    *)
(* joins them, and the FileManager that walks paths through them.          *)
(*                                                                         *)
(* Several tasks call the FileManager.  A call locks the mount table or    *)
(* one file system's tables for one look-up or update at a time, so the    *)
(* calls of two tasks interleave between those steps.  Directories only    *)
(* grow, so scanning one entry by entry finds what its last read finds.    *)
(***************************************************************************)
EXTENDS Naturals, Sequences, FiniteSets

CONSTANTS
  Task,
  Mounters,       \* the tasks that mount; kernel_init is the only one
  Tmpfs, Devfs,   \* the file systems that may be mounted, by kind
  Name,           \* the literal path tokens
  Paths,          \* the paths that callers use, as sequences of tokens
  Ops,            \* which FileManager operations callers use
  MaxCalls        \* bound: how many calls are made; each makes a node at most

CURRENT == "."
PARENT  == ".."
RootFs  == "rootfs"     \* VirtualFileSystem.root_file_system

FileSystem == {RootFs} \cup Tmpfs \cup Devfs
Node       == [fs : FileSystem, id : 0 .. MaxCalls]
Root(fs)   == [fs |-> fs, id |-> 0]

ASSUME VirtualFileSystemAssumption ==
  /\ Mounters \subseteq Task
  /\ RootFs \notin Tmpfs \cup Devfs /\ Tmpfs \cap Devfs = {}
  /\ CURRENT \notin Name /\ PARENT \notin Name
  /\ Paths \subseteq Seq(Name \cup {CURRENT, PARENT})
  /\ Ops \subseteq {"mount", "mkdir", "mknod", "open", "readdir"}
  /\ MaxCalls \in Nat

VARIABLES
  mounts,    \* VirtualFileSystem.mounts, in order
  dirs,      \* the directories tables of all file systems: node -> links
  files,     \* the nodes that are files or character devices
  counter,   \* node_counter of each file system
  calls,     \* how many calls were made
  pc,        \* where each task is in its call
  req,       \* the call: operation, path and, for mount, the file system
  node,      \* current_node of walk, then the node resolved for the operation
  rest,      \* the tokens walk has left
  result     \* what each task's latest call returned

tables == <<mounts, dirs, files, counter>>
locals == <<calls, pc, req, node, rest, result>>
vars   == <<tables, locals>>

Err == [fs |-> "err", id |-> 0]
Ok  == [fs |-> "ok", id |-> 0]

NoRequest == [op |-> "none", path |-> <<>>, fs |-> RootFs]

Link(name, n) == [name |-> name, node |-> n]

\* Tmpfs::new and Devfs::new: a root that is its own parent.
EmptyTree(fs) == <<Link(CURRENT, Root(fs)), Link(PARENT, Root(fs))>>

Init ==
  /\ mounts = <<>>
  /\ dirs = [n \in {Root(fs) : fs \in FileSystem} |-> EmptyTree(n.fs)]
  /\ files = {}
  /\ counter = [fs \in FileSystem |-> 1]
  /\ calls = 0
  /\ pc = [t \in Task |-> "idle"]
  /\ req = [t \in Task |-> NoRequest]
  /\ node = [t \in Task |-> Root(RootFs)]
  /\ rest = [t \in Task |-> <<>>]
  /\ result = [t \in Task |-> Ok]

-------------------------------------------------------------------------------
(***************************************************************************)
(* The mount table.                                                        *)
(***************************************************************************)
IsDirectory(n) == n \in DOMAIN dirs

MountedOn(n)  == {i \in DOMAIN mounts : mounts[i].point = n}
MountsOf(fs)  == {i \in DOMAIN mounts : mounts[i].subtree = fs}
First(s)      == CHOOSE i \in s : \A j \in s : i <= j

\* One turn of resolve_subtree's loop, and of resolve_mount_point's.
Up(n) ==
  IF MountedOn(n) = {} THEN n ELSE Root(mounts[First(MountedOn(n))].subtree)

Down(n) ==
  IF n # Root(n.fs) \/ MountsOf(n.fs) = {} THEN n
  ELSE mounts[First(MountsOf(n.fs))].point

\* The loops run until nothing changes; with n mounts, after n turns at most
\* unless the mounts form a cycle.
ResolveSubtree(n) ==
  LET up[k \in 0 .. Len(mounts)] == IF k = 0 THEN n ELSE Up(up[k - 1])
  IN  up[Len(mounts)]

ResolveMountPoint(n) ==
  LET down[k \in 0 .. Len(mounts)] == IF k = 0 THEN n ELSE Down(down[k - 1])
  IN  down[Len(mounts)]

-------------------------------------------------------------------------------
(***************************************************************************)
(* FileManager: begin a call, walk its path, then perform the operation.   *)
(***************************************************************************)
\* PathInfo::parent.
ParentPath(p) ==
  IF p # <<>> /\ p[Len(p)] \in Name THEN SubSeq(p, 1, Len(p) - 1)
  ELSE Append(p, PARENT)

LastIsLiteral(p) == p # <<>> /\ p[Len(p)] \in Name

\* mkdir and mknod walk the parent of the path, the others the path itself.
Makes(op) == op \in {"mkdir", "mknod"}

Begin(t, r) ==
  /\ pc[t] = "idle" /\ calls < MaxCalls
  /\ r.op = "mount" => t \in Mounters
  /\ calls' = calls + 1
  /\ req' = [req EXCEPT ![t] = r]
  /\ node' = [node EXCEPT ![t] = Root(RootFs)]
  /\ rest' = [rest EXCEPT ![t] = IF Makes(r.op) THEN ParentPath(r.path) ELSE r.path]
  /\ pc' = [pc EXCEPT ![t] = "walk"]
  /\ UNCHANGED <<tables, result>>

\* The call ends, and with it the lifetime of its locals.
Return(t, r) ==
  /\ pc' = [pc EXCEPT ![t] = "idle"]
  /\ result' = [result EXCEPT ![t] = r]
  /\ req' = [req EXCEPT ![t] = NoRequest]
  /\ node' = [node EXCEPT ![t] = Root(RootFs)]
  /\ rest' = [rest EXCEPT ![t] = <<>>]
  /\ UNCHANGED calls

\* VirtualFileSystem::opendir: resolve_subtree, and only directories open.
Opendir(t) ==
  /\ pc[t] = "walk" /\ rest[t] # <<>>
  /\ LET n == ResolveSubtree(node[t]) IN
       IF IsDirectory(n)
       THEN /\ node' = [node EXCEPT ![t] = n]
            /\ pc' = [pc EXCEPT ![t] = "scan"]
            /\ UNCHANGED <<calls, req, rest, result>>
       ELSE Return(t, Err)
  /\ UNCHANGED tables

Matches(d, name) == {i \in DOMAIN dirs[d] : dirs[d][i].name = name}

\* The loop over Directory::readdir: the first link with the name, or Err.
Scan(t) ==
  /\ pc[t] = "scan"
  /\ LET m == Matches(node[t], Head(rest[t])) IN
       IF m # {}
       THEN /\ node' = [node EXCEPT ![t] = dirs[node[t]][First(m)].node]
            /\ rest' = [rest EXCEPT ![t] = Tail(@)]
            /\ pc' = [pc EXCEPT ![t] = "walk"]
            /\ UNCHANGED <<calls, req, result>>
       ELSE Return(t, Err)
  /\ UNCHANGED tables

\* Mutant of Resolve: the node is taken as it is.
ResolveInPlace(t) ==
  /\ pc[t] = "walk" /\ rest[t] = <<>>
  /\ IF Makes(req[t].op) /\ ~LastIsLiteral(req[t].path)
     THEN Return(t, Err)
     ELSE /\ pc' = [pc EXCEPT ![t] = req[t].op]
          /\ UNCHANGED <<calls, req, node, rest, result>>
  /\ UNCHANGED tables

\* The path is walked; mkdir and mknod want a literal last token.  Every
\* operation starts with resolve_subtree, which unlocks the mount table again.
Resolve(t) ==
  /\ pc[t] = "walk" /\ rest[t] = <<>>
  /\ IF Makes(req[t].op) /\ ~LastIsLiteral(req[t].path)
     THEN Return(t, Err)
     ELSE /\ node' = [node EXCEPT ![t] = ResolveSubtree(node[t])]
          /\ pc' = [pc EXCEPT ![t] = req[t].op]
          /\ UNCHANGED <<calls, req, rest, result>>
  /\ UNCHANGED tables

\* Mutant of Mount: a subtree may be mounted again.
MountAgain(t) ==
  /\ pc[t] = "mount"
  /\ IF IsDirectory(node[t])
     THEN /\ mounts' = Append(mounts, [point |-> node[t], subtree |-> req[t].fs])
          /\ Return(t, Ok)
     ELSE UNCHANGED mounts /\ Return(t, Err)
  /\ UNCHANGED <<dirs, files, counter>>

\* VirtualFileSystem::mount, under the lock that it takes again.
Mount(t) ==
  /\ pc[t] = "mount"
  /\ IF IsDirectory(node[t]) /\ MountsOf(req[t].fs) = {}
     THEN /\ mounts' = Append(mounts, [point |-> node[t], subtree |-> req[t].fs])
          /\ Return(t, Ok)
     ELSE UNCHANGED mounts /\ Return(t, Err)
  /\ UNCHANGED <<dirs, files, counter>>

\* Devfs implements neither mkdir nor mknod.
CanMake(n) == IsDirectory(n) /\ n.fs \notin Devfs

\* Mutant of NextNode: the counter is read after the addition.
NextNodeAfterAdd(n) == [fs |-> n.fs, id |-> counter[n.fs] + 1]

\* node_counter.fetch_add returns the number before the addition.
NextNode(n) == [fs |-> n.fs, id |-> counter[n.fs]]
LastToken(t) == req[t].path[Len(req[t].path)]

Refuse(t) ==
  /\ pc[t] \in {"mkdir", "mknod"}
  /\ ~CanMake(node[t])
  /\ Return(t, Err)
  /\ UNCHANGED tables

\* Mutants of Mkdir: the new directory is not entered in the table; the new
\* link is put before the others.
MkdirDangling(t) ==
  /\ pc[t] = "mkdir" /\ CanMake(node[t])
  /\ LET d == node[t]
         link == Link(LastToken(t), NextNode(d))
     IN  dirs' = [dirs EXCEPT ![d] = @ \o <<link, link>>]
  /\ counter' = [counter EXCEPT ![node[t].fs] = @ + 1]
  /\ UNCHANGED <<mounts, files>>
  /\ Return(t, Ok)

MkdirInFront(t) ==
  /\ pc[t] = "mkdir" /\ CanMake(node[t])
  /\ LET d == node[t]
         n == NextNode(d)
         link == Link(LastToken(t), n)
     IN  dirs' = [x \in DOMAIN dirs \cup {n} |->
                    IF x = n THEN <<Link(CURRENT, n), Link(PARENT, d)>>
                    ELSE IF x = d THEN <<dirs[d][1], dirs[d][2], link>> \o
                                         SubSeq(dirs[d], 3, Len(dirs[d]))
                    ELSE dirs[x]]
  /\ counter' = [counter EXCEPT ![node[t].fs] = @ + 1]
  /\ UNCHANGED <<mounts, files>>
  /\ Return(t, Ok)

\* Tmpfs::mkdir: the link to the new directory is pushed, the directory gets
\* its two links, and the link is pushed again.
Mkdir(t) ==
  /\ pc[t] = "mkdir" /\ CanMake(node[t])
  /\ LET d == node[t]
         n == NextNode(d)
         link == Link(LastToken(t), n)
     IN  dirs' = [x \in DOMAIN dirs \cup {n} |->
                    IF x = n THEN <<Link(CURRENT, n), Link(PARENT, d)>>
                    ELSE IF x = d THEN dirs[d] \o <<link, link>>
                    ELSE dirs[x]]
  /\ counter' = [counter EXCEPT ![node[t].fs] = @ + 1]
  /\ UNCHANGED <<mounts, files>>
  /\ Return(t, Ok)

\* Tmpfs::mknod.
Mknod(t) ==
  /\ pc[t] = "mknod" /\ CanMake(node[t])
  /\ LET n == NextNode(node[t]) IN
       /\ files' = files \cup {n}
       /\ dirs' = [dirs EXCEPT ![node[t]] = Append(@, Link(LastToken(t), n))]
  /\ counter' = [counter EXCEPT ![node[t].fs] = @ + 1]
  /\ UNCHANGED mounts
  /\ Return(t, Ok)

\* VirtualFileSystem::open: everything but a directory.
Open(t) ==
  /\ pc[t] = "open"
  /\ Return(t, IF IsDirectory(node[t]) THEN Err ELSE node[t])
  /\ UNCHANGED tables

ParentLink(d) == dirs[d][First(Matches(d, PARENT))].node

\* opendir, then VirtualFileSystem::readdir up to the ".." link.  In the root
\* of a mounted file system the mount point is resolved first ...
Readdir(t) ==
  /\ pc[t] = "readdir"
  /\ LET low == ResolveMountPoint(node[t]) IN
       IF ~IsDirectory(node[t]) THEN Return(t, Err)
       ELSE IF low = node[t] THEN Return(t, ParentLink(node[t]))
       ELSE /\ node' = [node EXCEPT ![t] = low]
            /\ pc' = [pc EXCEPT ![t] = "reopen"]
            /\ UNCHANGED <<calls, req, rest, result>>
  /\ UNCHANGED tables

\* ... and its ".." read through opendir, that is through resolve_subtree.
Reopen(t) ==
  /\ pc[t] = "reopen"
  /\ Return(t, ParentLink(ResolveSubtree(node[t])))
  /\ UNCHANGED tables

\* Devfs::register_character_device, called with the Devfs in hand.
RegisterDevice(fs, name) ==
  /\ calls < MaxCalls
  /\ calls' = calls + 1
  /\ LET n == NextNode(Root(fs)) IN
       /\ files' = files \cup {n}
       /\ dirs' = [dirs EXCEPT ![Root(fs)] = Append(@, Link(name, n))]
  /\ counter' = [counter EXCEPT ![fs] = @ + 1]
  /\ UNCHANGED <<mounts, pc, req, node, rest, result>>

-------------------------------------------------------------------------------
Request ==
  {r \in [op : Ops, path : Paths, fs : {RootFs} \cup Tmpfs \cup Devfs] :
     (r.op = "mount") <=> (r.fs # RootFs)}

Step(t) ==
  \/ Opendir(t) \/ Scan(t) \/ Resolve(t)
  \/ Mount(t) \/ Refuse(t) \/ Mkdir(t) \/ Mknod(t) \/ Open(t) \/ Readdir(t) \/ Reopen(t)

Done ==
  /\ calls = MaxCalls /\ \A t \in Task : pc[t] = "idle"
  /\ UNCHANGED vars

Next ==
  \/ \E t \in Task : Step(t) \/ \E r \in Request : Begin(t, r)
  \/ \E fs \in Devfs, name \in Name : RegisterDevice(fs, name)
  \/ Done

Spec == Init /\ [][Next]_vars

-------------------------------------------------------------------------------
(***************************************************************************)
(* Properties.                                                             *)
(***************************************************************************)
\* The values the tables and the locals of the calls can take.
TypeOK ==
  /\ \A i \in DOMAIN mounts :
       mounts[i].point \in Node /\ mounts[i].subtree \in Tmpfs \cup Devfs
  /\ DOMAIN dirs \subseteq Node /\ files \subseteq Node
  /\ \A d \in DOMAIN dirs : \A i \in DOMAIN dirs[d] :
       /\ dirs[d][i].node \in Node
       /\ dirs[d][i].name \in Name \cup {CURRENT, PARENT}
  /\ counter \in [FileSystem -> 1 .. MaxCalls + 1]
  /\ calls \in 0 .. MaxCalls
  /\ node \in [Task -> Node]
  /\ rest \in [Task -> Seq(Name \cup {CURRENT, PARENT})]
  /\ result \in [Task -> Node \cup {Ok, Err}]

\* resolve_subtree and resolve_mount_point terminate: the mounts form no cycle,
\* although mount() resolves the mount point before it takes the lock.
ResolutionTerminates ==
  \A d \in DOMAIN dirs :
    /\ MountedOn(ResolveSubtree(d)) = {}
    /\ Down(ResolveMountPoint(d)) = ResolveMountPoint(d)

\* The two ends of every mount resolve alike: "if B is mounted on A, then A is the
\* lowest mount point for either", and "then B is the highest subtree for either".
MountEndsAgree ==
  \A i \in DOMAIN mounts :
    LET root == Root(mounts[i].subtree)
    IN  /\ ResolveMountPoint(root) = ResolveMountPoint(mounts[i].point)
        /\ ResolveSubtree(root) = ResolveSubtree(mounts[i].point)

\* The nodes that a directory's links after "." and ".." lead to.
Entries(links) == {links[i].node : i \in 3 .. Len(links)}

\* The links of each file system form a tree: none dangles, none leads to an older
\* node (node_counter numbers them in the order they are made), so that there is
\* no cycle, and no node is in two directories.  ".." of a root is the root, and
\* that of another directory is the directory it is in.
TreesWellFormed ==
  \A d \in DOMAIN dirs :
    LET parent == dirs[d][2].node IN
      /\ dirs[d][1] = Link(CURRENT, d)
      /\ dirs[d][2].name = PARENT
      /\ IF d = Root(d.fs) THEN parent = d ELSE d \in Entries(dirs[parent])
      /\ \A n \in Entries(dirs[d]) :
           /\ n \in DOMAIN dirs \cup files
           /\ n.fs = d.fs /\ n.id > d.id
           /\ \A e \in DOMAIN dirs : n \in Entries(dirs[e]) => e = d

\* A name that can be looked up keeps meaning the same node, whatever is
\* created next to it.
NamesStable ==
  [][ \A d \in DOMAIN dirs : \A i \in DOMAIN dirs[d] :
        LET old == dirs[d][First(Matches(d, dirs[d][i].name))]
            same == {j \in DOMAIN dirs'[d] : dirs'[d][j].name = old.name}
        IN  dirs'[d][First(same)] = old ]_vars

\* readdir in the root of a mounted file system: the comment says that ".." is
\* then the link "to the parent directory of the mount point instead".
ParentOfMountPoint ==
  \A t \in Task :
    pc[t] = "reopen" =>
      ResolveSubtree(ParentLink(ResolveSubtree(node[t])))
        = ResolveSubtree(ParentLink(node[t]))
===============================================================================
