------------------------ MODULE VirtualFileSystemProofs -----------------------
(***************************************************************************)
(* The virtual file system is correct for every set of tasks, file         *)
(* systems, names and paths, and every number of calls: the trees stay     *)
(* well formed, names stable, and the loops over the mount table end.      *)
(***************************************************************************)
EXTENDS VirtualFileSystem, Iteration

-------------------------------------------------------------------------------
(***************************************************************************)
(* The inductive invariant.                                                *)
(***************************************************************************)
Token     == Name \cup {CURRENT, PARENT}
Position  == {"idle", "walk", "scan", "reopen", "mount", "mkdir", "mknod", "open", "readdir"}
Existing  == DOMAIN dirs \cup files
MountedFs == {RootFs} \cup {mounts[i].subtree : i \in DOMAIN mounts}
Active    == {t \in Task : pc[t] # "idle"}

\* TypeOK, with the tables as sequences and the position of every call.
TypeInv ==
  /\ mounts \in Seq([point : Node, subtree : Tmpfs \cup Devfs])
  /\ DOMAIN dirs \subseteq Node /\ files \subseteq Node
  /\ dirs \in [DOMAIN dirs -> Seq([name : Token, node : Node])]
  /\ counter \in [FileSystem -> Nat]
  /\ calls \in 0 .. MaxCalls
  /\ pc \in [Task -> Position]
  /\ req \in [Task -> Request \cup {NoRequest}]
  /\ node \in [Task -> Node]
  /\ rest \in [Task -> Seq(Token)]
  /\ result \in [Task -> Node \cup {Ok, Err}]

\* Every call under way can still make its node: node numbers do not run out.
CountInv ==
  /\ IsFiniteSet(Active)
  /\ \A fs \in FileSystem :
       1 <= counter[fs] /\ counter[fs] + Cardinality(Active) <= calls + 1

\* Nodes that exist are below the counter, so that a new one is new; no link
\* leaves its file system.
NodeInv ==
  /\ \A fs \in FileSystem : Root(fs) \in DOMAIN dirs
  /\ \A n \in Existing : n.id < counter[n.fs]
  /\ \A d \in DOMAIN dirs : \A i \in DOMAIN dirs[d] :
       dirs[d][i].node \in Existing /\ dirs[d][i].node.fs = d.fs

\* Every directory starts with "." and "..", and is an entry of its parent.
TreeInv ==
  \A d \in DOMAIN dirs :
    /\ 2 <= Len(dirs[d])
    /\ dirs[d][1] = Link(CURRENT, d)
    /\ dirs[d][2].name = PARENT /\ dirs[d][2].node \in DOMAIN dirs
    /\ IF d = Root(d.fs) THEN dirs[d][2].node = d ELSE d \in Entries(dirs[dirs[d][2].node])

\* An entry is younger than its directory, and in no other.
AgeInv ==
  \A d \in DOMAIN dirs : \A n \in Entries(dirs[d]) :
    /\ n.id > d.id
    /\ \A e \in DOMAIN dirs : n \in Entries(dirs[e]) => e = d

\* A mount point is a directory of the root file system or of one that was
\* mounted before, and no file system is mounted twice: no cycle is possible.
MountInv ==
  \A i \in DOMAIN mounts :
    /\ mounts[i].point \in DOMAIN dirs
    /\ \/ mounts[i].point.fs = RootFs
       \/ \E j \in DOMAIN mounts : j < i /\ mounts[j].subtree = mounts[i].point.fs
    /\ \A j \in DOMAIN mounts : mounts[j].subtree = mounts[i].subtree => i = j

\* What a call has found so far: a node that exists, in a mounted file system.
CallOk(t) ==
  /\ node[t] \in Existing /\ node[t].fs \in MountedFs
  /\ pc[t] \in {"scan", "reopen"} => node[t] \in DOMAIN dirs
  /\ pc[t] = "scan" => rest[t] # <<>>
  /\ pc[t] # "idle" => req[t] \in Request
  /\ pc[t] = "mount" => req[t].op = "mount"
  /\ req[t].op = "mount" => t \in Mounters
  /\ pc[t] \in {"mkdir", "mknod"} => LastIsLiteral(req[t].path)

CallInv == \A t \in Task : CallOk(t)

Inv == TypeInv /\ CountInv /\ NodeInv /\ TreeInv /\ AgeInv /\ MountInv /\ CallInv

\* With one task that mounts, mount points are distinct too, and the one that
\* mount() has resolved is still free when it takes the lock again.
OneMounter == \A s, t \in Mounters : s = t

PointInv ==
  /\ \A i, j \in DOMAIN mounts : mounts[j].point = mounts[i].point => i = j
  /\ \A t \in Task : pc[t] = "mount" => MountedOn(node[t]) = {}

-------------------------------------------------------------------------------
(***************************************************************************)
(* The loops over the mount table.                                         *)
(***************************************************************************)
\* The first of some positions is one of them, and no other is before it.
LEMMA FirstIsLeast ==
  ASSUME NEW S, S \subseteq Nat, S # {}
  PROVE  First(S) \in S /\ \A j \in S : First(S) <= j
BY LeastElement DEF First

\* What the mount table holds.
LEMMA MountType ==
  ASSUME TypeInv, NEW i \in DOMAIN mounts
  PROVE  /\ mounts[i].point \in Node
         /\ mounts[i].subtree \in Tmpfs \cup Devfs
         /\ mounts[i].subtree \in FileSystem /\ mounts[i].subtree # RootFs
         /\ Root(mounts[i].subtree) \in Node
<1> DEFINE M == [point : Node, subtree : Tmpfs \cup Devfs]
<1>1. mounts[i] \in M
  <2> HIDE DEF M
  <2>1. mounts \in Seq(M)
    BY DEF TypeInv, M
  <2> QED BY <2>1
<1>2. mounts[i].point \in Node /\ mounts[i].subtree \in Tmpfs \cup Devfs
  BY <1>1
<1>3. mounts[i].subtree \in FileSystem /\ mounts[i].subtree # RootFs
  BY <1>2, VirtualFileSystemAssumption DEF FileSystem
<1> QED BY <1>2, <1>3, VirtualFileSystemAssumption DEF Root, Node

\* One turn of resolve_subtree's loop finds the root of a mount on the node.
LEMMA UpStep ==
  ASSUME TypeInv, MountInv, NEW n
  PROVE  \/ MountedOn(n) = {} /\ Up(n) = n
         \/ \E i \in MountedOn(n) :
              i = First(MountedOn(n)) /\ Up(n) = Root(mounts[i].subtree)
<1>1. MountedOn(n) \subseteq Nat
  BY DEF TypeInv, MountedOn
<1> QED BY <1>1, FirstIsLeast DEF Up

\* One turn of resolve_mount_point's loop finds the only mount of the subtree.
LEMMA DownStep ==
  ASSUME TypeInv, MountInv, NEW n
  PROVE  \/ (n # Root(n.fs) \/ MountsOf(n.fs) = {}) /\ Down(n) = n
         \/ \E i \in DOMAIN mounts :
              mounts[i].subtree = n.fs /\ n = Root(n.fs) /\ Down(n) = mounts[i].point
<1>1. MountsOf(n.fs) \subseteq Nat
  BY DEF TypeInv, MountsOf
<1>2. CASE n # Root(n.fs) \/ MountsOf(n.fs) = {}
  BY <1>2 DEF Down
<1>3. CASE n = Root(n.fs) /\ MountsOf(n.fs) # {}
  <2>1. First(MountsOf(n.fs)) \in MountsOf(n.fs)
    BY <1>1, <1>3, FirstIsLeast
  <2> QED BY <1>3, <2>1 DEF Down, MountsOf
<1> QED BY <1>2, <1>3

\* The loop of resolve_subtree, and of resolve_mount_point.
LEMMA ResolveSubtreeIterates ==
  ASSUME TypeInv, NEW D, NEW step \in [D -> D], \A m \in D : step[m] = Up(m), NEW n \in D
  PROVE  \E f : IsLoop(f, D, step, n, Len(mounts)) /\ ResolveSubtree(n) = f[Len(mounts)]
<1> DEFINE Loop(g) == g = [k \in 0 .. Len(mounts) |-> IF k = 0 THEN n ELSE Up(g[k - 1])]
           up == CHOOSE g : Loop(g)
<1>1. Len(mounts) \in Nat
  BY DEF TypeInv
<1>2. PICK f : IsLoop(f, D, step, n, Len(mounts))
  BY <1>1, Iterates
<1>3. ASSUME NEW k \in 0 .. Len(mounts)
      PROVE  f[k] = IF k = 0 THEN n ELSE Up(f[k - 1])
  <2>1. CASE k = 0
    BY <1>2, <2>1 DEF IsLoop
  <2>2. CASE k # 0
    <3>1. k \in 1 .. Len(mounts) /\ k - 1 \in 0 .. Len(mounts)
      BY <1>1, <2>2
    <3>2. f[k] = step[f[k - 1]] /\ f[k - 1] \in D
      BY <1>2, <3>1 DEF IsLoop
    <3> QED BY <2>2, <3>2
  <2> QED BY <2>1, <2>2
<1>4. Loop(f)
  BY <1>1, <1>2, <1>3 DEF IsLoop
<1>5. Loop(up)
  <2> HIDE DEF Loop
  <2> QED BY <1>4
<1>6. ResolveSubtree(n) = up[Len(mounts)]
  BY DEF ResolveSubtree
<1> HIDE DEF up
<1>7. \A k \in 0 .. Len(mounts) : up[k] = f[k]
  <2>1. up[0] = n
    BY <1>1, <1>5
  <2>2. ASSUME NEW k \in 1 .. Len(mounts), up[k - 1] \in D PROVE up[k] = step[up[k - 1]]
    BY <1>1, <1>5, <2>2
  <2> HIDE DEF Loop
  <2>3. Repeats(up, D, step, n, Len(mounts))
    BY <2>1, <2>2 DEF Repeats
  <2> QED BY <1>1, <1>2, <2>3, LoopUnique
<1> QED BY <1>1, <1>2, <1>6, <1>7

LEMMA ResolveMountPointIterates ==
  ASSUME TypeInv, NEW D, NEW step \in [D -> D], \A m \in D : step[m] = Down(m), NEW n \in D
  PROVE  \E f : IsLoop(f, D, step, n, Len(mounts)) /\ ResolveMountPoint(n) = f[Len(mounts)]
<1> DEFINE Loop(g) == g = [k \in 0 .. Len(mounts) |-> IF k = 0 THEN n ELSE Down(g[k - 1])]
           down == CHOOSE g : Loop(g)
<1>1. Len(mounts) \in Nat
  BY DEF TypeInv
<1>2. PICK f : IsLoop(f, D, step, n, Len(mounts))
  BY <1>1, Iterates
<1>3. ASSUME NEW k \in 0 .. Len(mounts)
      PROVE  f[k] = IF k = 0 THEN n ELSE Down(f[k - 1])
  <2>1. CASE k = 0
    BY <1>2, <2>1 DEF IsLoop
  <2>2. CASE k # 0
    <3>1. k \in 1 .. Len(mounts) /\ k - 1 \in 0 .. Len(mounts)
      BY <1>1, <2>2
    <3>2. f[k] = step[f[k - 1]] /\ f[k - 1] \in D
      BY <1>2, <3>1 DEF IsLoop
    <3> QED BY <2>2, <3>2
  <2> QED BY <2>1, <2>2
<1>4. Loop(f)
  BY <1>1, <1>2, <1>3 DEF IsLoop
<1>5. Loop(down)
  <2> HIDE DEF Loop
  <2> QED BY <1>4
<1>6. ResolveMountPoint(n) = down[Len(mounts)]
  BY DEF ResolveMountPoint
<1> HIDE DEF down
<1>7. \A k \in 0 .. Len(mounts) : down[k] = f[k]
  <2>1. down[0] = n
    BY <1>1, <1>5
  <2>2. ASSUME NEW k \in 1 .. Len(mounts), down[k - 1] \in D PROVE down[k] = step[down[k - 1]]
    BY <1>1, <1>5, <2>2
  <2> HIDE DEF Loop
  <2>3. Repeats(down, D, step, n, Len(mounts))
    BY <2>1, <2>2 DEF Repeats
  <2> QED BY <1>1, <1>2, <2>3, LoopUnique
<1> QED BY <1>1, <1>2, <1>6, <1>7

\* Nodes that exist in mounted file systems, and directories, are closed under
\* the turns of the two loops, and so under the loops.
LEMMA UpClosed ==
  ASSUME TypeInv, MountInv
  PROVE  /\ \A n \in Node : Up(n) \in Node
         /\ \A n \in Node : Up(n) = n \/ \E i \in DOMAIN mounts : Up(n) = Root(mounts[i].subtree)
<1> SUFFICES ASSUME NEW n \in Node
             PROVE  /\ Up(n) \in Node
                    /\ Up(n) = n \/ \E i \in DOMAIN mounts : Up(n) = Root(mounts[i].subtree)
  OBVIOUS
<1>1. CASE Up(n) = n
  BY <1>1
<1>2. CASE \E i \in MountedOn(n) : Up(n) = Root(mounts[i].subtree)
  BY <1>2, MountType DEF MountedOn
<1> QED BY <1>1, <1>2, UpStep

LEMMA DownClosed ==
  ASSUME TypeInv, MountInv
  PROVE  /\ \A n \in Node : Down(n) \in Node
         /\ \A n \in Node : Down(n) = n \/ \E i \in DOMAIN mounts : Down(n) = mounts[i].point
BY DownStep, MountType

\* A node of a mounted file system, or a directory, resolves to such a one.
LEMMA ResolveSubtreeClosed ==
  ASSUME Inv, NEW n \in Existing, n.fs \in MountedFs
  PROVE  /\ ResolveSubtree(n) \in Existing
         /\ ResolveSubtree(n).fs \in MountedFs
         /\ n \in DOMAIN dirs => ResolveSubtree(n) \in DOMAIN dirs
<1> DEFINE E == {m \in Existing : m.fs \in MountedFs /\ (n \in DOMAIN dirs => m \in DOMAIN dirs)}
           step == [m \in E |-> Up(m)]
<1>1. \A m \in E : Up(m) \in E
  <2> SUFFICES ASSUME NEW m \in E PROVE Up(m) \in E
    OBVIOUS
  <2>1. m \in Node
    BY DEF Inv, TypeInv, Existing
  <2>2. CASE Up(m) = m
    BY <2>2
  <2>3. ASSUME NEW i \in DOMAIN mounts, Up(m) = Root(mounts[i].subtree) PROVE Up(m) \in E
    <3>1. mounts[i].subtree \in FileSystem
      BY MountType DEF Inv
    <3>2. Root(mounts[i].subtree) \in DOMAIN dirs /\ Root(mounts[i].subtree).fs = mounts[i].subtree
      BY <3>1 DEF Inv, NodeInv, Root
    <3> QED BY <2>3, <3>2 DEF MountedFs, Existing
  <2> QED BY <2>1, <2>2, <2>3, UpClosed DEF Inv
<1>2. step \in [E -> E] /\ \A m \in E : step[m] = Up(m)
  BY <1>1
<1>3. n \in E
  OBVIOUS
<1> HIDE DEF E, step
<1>4. PICK f : IsLoop(f, E, step, n, Len(mounts)) /\ ResolveSubtree(n) = f[Len(mounts)]
  BY <1>2, <1>3, ResolveSubtreeIterates DEF Inv
<1>5. Len(mounts) \in Nat
  BY DEF Inv, TypeInv
<1>6. ResolveSubtree(n) \in E
  BY <1>4, <1>5 DEF IsLoop
<1> QED BY <1>6 DEF E

LEMMA ResolveMountPointClosed ==
  ASSUME Inv, NEW n \in DOMAIN dirs, n.fs \in MountedFs
  PROVE  ResolveMountPoint(n) \in DOMAIN dirs /\ ResolveMountPoint(n).fs \in MountedFs
<1> DEFINE E == {m \in DOMAIN dirs : m.fs \in MountedFs}
           step == [m \in E |-> Down(m)]
<1>1. \A m \in E : Down(m) \in E
  <2> SUFFICES ASSUME NEW m \in E PROVE Down(m) \in E
    OBVIOUS
  <2>1. m \in Node
    BY DEF Inv, TypeInv
  <2>2. ASSUME NEW i \in DOMAIN mounts, Down(m) = mounts[i].point PROVE Down(m) \in E
    BY <2>2 DEF Inv, MountInv, MountedFs
  <2> QED BY <2>1, <2>2, DownClosed DEF Inv
<1>2. step \in [E -> E] /\ \A m \in E : step[m] = Down(m)
  BY <1>1
<1>3. n \in E
  OBVIOUS
<1> HIDE DEF E, step
<1>4. PICK f : IsLoop(f, E, step, n, Len(mounts)) /\ ResolveMountPoint(n) = f[Len(mounts)]
  BY <1>2, <1>3, ResolveMountPointIterates DEF Inv
<1>5. Len(mounts) \in Nat
  BY DEF Inv, TypeInv
<1>6. ResolveMountPoint(n) \in E
  BY <1>4, <1>5 DEF IsLoop
<1> QED BY <1>6 DEF E

\* The mounts on the node that the loop of resolve_subtree has reached come ever
\* later in the table, so that it ends.
LEMMA ResolveSubtreeEnds ==
  ASSUME TypeInv, MountInv, NEW n \in Node
  PROVE  /\ MountedOn(ResolveSubtree(n)) = {}
         /\ \A i \in DOMAIN mounts : Up(n) = Root(mounts[i].subtree) =>
              ResolveSubtree(Root(mounts[i].subtree)) = ResolveSubtree(n)
<1> DEFINE step == [m \in Node |-> Up(m)]
<1>1. step \in [Node -> Node] /\ \A m \in Node : step[m] = Up(m)
  BY UpClosed
<1> HIDE DEF step
<1>2. PICK f : IsLoop(f, Node, step, n, Len(mounts)) /\ ResolveSubtree(n) = f[Len(mounts)]
  BY <1>1, ResolveSubtreeIterates
<1>3. Len(mounts) \in Nat /\ DOMAIN mounts = 1 .. Len(mounts)
  BY DEF TypeInv
<1> DEFINE S == {k \in Nat : k <= Len(mounts) => \A i \in MountedOn(f[k]) : i > k}
<1>4. 0 \in S
  BY <1>3 DEF MountedOn
<1>5. ASSUME NEW k \in Nat, k \in S PROVE k + 1 \in S
  <2> SUFFICES ASSUME k + 1 <= Len(mounts), NEW i \in MountedOn(f[k + 1]) PROVE i > k + 1
    OBVIOUS
  <2>1. k \in 0 .. Len(mounts) /\ k + 1 \in 1 .. Len(mounts) /\ (k + 1) - 1 = k
    BY <1>3
  <2>2. f[k + 1] = Up(f[k]) /\ \A j \in MountedOn(f[k]) : j > k
    BY <1>1, <1>2, <1>3, <1>5, <2>1 DEF IsLoop
  <2>3. CASE MountedOn(f[k]) = {} /\ Up(f[k]) = f[k]
    BY <2>2, <2>3
  <2>4. ASSUME NEW j \in MountedOn(f[k]), Up(f[k]) = Root(mounts[j].subtree) PROVE i > k + 1
    <3>1. mounts[i].point = Root(mounts[j].subtree) /\ i \in DOMAIN mounts /\ j \in DOMAIN mounts
      BY <2>2, <2>4 DEF MountedOn
    <3>2. mounts[i].point.fs = mounts[j].subtree /\ mounts[j].subtree # RootFs
      BY <3>1, MountType DEF Root
    <3>3. j < i
      BY <3>1, <3>2 DEF MountInv
    <3> QED BY <1>3, <2>2, <3>1, <3>3
  <2> QED BY <2>3, <2>4, UpStep
<1> HIDE DEF S
<1>6. \A k \in Nat : k \in S
  BY <1>4, <1>5, SetInduction
<1>7. MountedOn(f[Len(mounts)]) = {}
  BY <1>3, <1>6 DEF S, MountedOn
<1>8. ASSUME NEW i \in DOMAIN mounts, Up(n) = Root(mounts[i].subtree)
      PROVE  ResolveSubtree(Root(mounts[i].subtree)) = ResolveSubtree(n)
  <2>1. step[n] = Root(mounts[i].subtree) /\ step[n] \in Node
    BY <1>1, <1>8
  <2>2. PICK g : IsLoop(g, Node, step, step[n], Len(mounts)) /\ ResolveSubtree(step[n]) = g[Len(mounts)]
    BY <1>1, <2>1, ResolveSubtreeIterates
  <2>3. f[Len(mounts)] \in Node /\ Up(f[Len(mounts)]) = f[Len(mounts)]
    BY <1>2, <1>3, <1>7 DEF IsLoop, Up
  <2>4. step[f[Len(mounts)]] = f[Len(mounts)] /\ Len(mounts) \in Nat \ {0}
    BY <1>1, <1>3, <1>8, <2>3
  <2>5. g[Len(mounts)] = f[Len(mounts)]
    BY <1>1, <1>2, <2>2, <2>4, LoopShift
  <2> QED BY <1>2, <2>1, <2>2, <2>5
<1> QED BY <1>2, <1>7, <1>8

\* The mounts of the subtree that the loop of resolve_mount_point has reached
\* come ever earlier in the table, so that it ends.
LEMMA ResolveMountPointEnds ==
  ASSUME TypeInv, MountInv, NEW n \in Node
  PROVE  /\ Down(ResolveMountPoint(n)) = ResolveMountPoint(n)
         /\ \A i \in DOMAIN mounts : Down(n) = mounts[i].point =>
              ResolveMountPoint(mounts[i].point) = ResolveMountPoint(n)
<1> DEFINE step == [m \in Node |-> Down(m)]
<1>1. step \in [Node -> Node] /\ \A m \in Node : step[m] = Down(m)
  BY DownClosed
<1> HIDE DEF step
<1>2. PICK f : IsLoop(f, Node, step, n, Len(mounts)) /\ ResolveMountPoint(n) = f[Len(mounts)]
  BY <1>1, ResolveMountPointIterates
<1>3. Len(mounts) \in Nat /\ DOMAIN mounts = 1 .. Len(mounts)
  BY DEF TypeInv
<1> DEFINE S == {k \in Nat : k <= Len(mounts) =>
                   \A i \in DOMAIN mounts :
                     mounts[i].subtree = f[k].fs /\ f[k] = Root(f[k].fs) => i <= Len(mounts) - k}
<1>4. 0 \in S
  BY <1>3
<1>5. ASSUME NEW k \in Nat, k \in S PROVE k + 1 \in S
  <2> SUFFICES ASSUME k + 1 <= Len(mounts), NEW i \in DOMAIN mounts,
                      mounts[i].subtree = f[k + 1].fs, f[k + 1] = Root(f[k + 1].fs)
               PROVE  i <= Len(mounts) - (k + 1)
    OBVIOUS
  <2>1. k \in 0 .. Len(mounts) /\ k + 1 \in 1 .. Len(mounts) /\ (k + 1) - 1 = k
    BY <1>3
  <2>2. f[k + 1] = Down(f[k])
    BY <1>1, <1>2, <2>1 DEF IsLoop
  <2>3. CASE (f[k] # Root(f[k].fs) \/ MountsOf(f[k].fs) = {}) /\ Down(f[k]) = f[k]
    BY <2>2, <2>3 DEF MountsOf
  <2>4. ASSUME NEW j \in DOMAIN mounts, mounts[j].subtree = f[k].fs, f[k] = Root(f[k].fs),
               Down(f[k]) = mounts[j].point
        PROVE  i <= Len(mounts) - (k + 1)
    <3>1. j <= Len(mounts) - k
      BY <1>3, <1>5, <2>1, <2>4
    <3>2. mounts[i].subtree = mounts[j].point.fs /\ mounts[i].subtree # RootFs
      BY <2>2, <2>4, MountType
    <3>3. i < j
      BY <3>2 DEF MountInv
    <3> QED BY <1>3, <3>1, <3>3
  <2> QED BY <2>3, <2>4, DownStep
<1> HIDE DEF S
<1>6. \A k \in Nat : k \in S
  BY <1>4, <1>5, SetInduction
<1> DEFINE last == f[Len(mounts)]
<1>7. Down(last) = last
  <2>1. \A i \in DOMAIN mounts : ~ (mounts[i].subtree = last.fs /\ last = Root(last.fs))
    BY <1>3, <1>6 DEF S
  <2> HIDE DEF last
  <2> QED BY <2>1, DownStep
<1>8. ASSUME NEW i \in DOMAIN mounts, Down(n) = mounts[i].point
      PROVE  ResolveMountPoint(mounts[i].point) = ResolveMountPoint(n)
  <2>1. step[n] = mounts[i].point /\ step[n] \in Node
    BY <1>1, <1>8
  <2>2. PICK g : IsLoop(g, Node, step, step[n], Len(mounts)) /\ ResolveMountPoint(step[n]) = g[Len(mounts)]
    BY <1>1, <2>1, ResolveMountPointIterates
  <2>3. step[last] = last /\ Len(mounts) \in Nat \ {0}
    BY <1>1, <1>2, <1>3, <1>7, <1>8 DEF IsLoop
  <2>4. g[Len(mounts)] = last
    BY <1>1, <1>2, <2>2, <2>3, LoopShift
  <2> QED BY <1>2, <2>1, <2>2, <2>4
<1> QED BY <1>2, <1>7, <1>8

-------------------------------------------------------------------------------
(***************************************************************************)
(* What a step does to the tables.                                         *)
(***************************************************************************)
\* A directory gets a link, or two, to a new directory, or one to a new file.
DirectoryMade(d, name) ==
  /\ dirs' = [x \in DOMAIN dirs \cup {NextNode(d)} |->
                IF x = NextNode(d) THEN <<Link(CURRENT, NextNode(d)), Link(PARENT, d)>>
                ELSE IF x = d THEN dirs[d] \o <<Link(name, NextNode(d)), Link(name, NextNode(d))>>
                ELSE dirs[x]]
  /\ files' = files

FileMade(d, name) ==
  /\ dirs' = [dirs EXCEPT ![d] = Append(@, Link(name, NextNode(d)))]
  /\ files' = files \cup {NextNode(d)}

NodeMade(d, name) ==
  /\ d \in DOMAIN dirs /\ name \in Name
  /\ NextNode(d) \in Node
  /\ DirectoryMade(d, name) \/ FileMade(d, name)
  /\ counter' = [counter EXCEPT ![d.fs] = @ + 1]
  /\ UNCHANGED mounts

MountMade(t) ==
  /\ IsDirectory(node[t]) /\ MountsOf(req[t].fs) = {} /\ req[t].fs \in Tmpfs \cup Devfs
  /\ mounts' = Append(mounts, [point |-> node[t], subtree |-> req[t].fs])
  /\ UNCHANGED <<dirs, files, counter>>

\* A number below the bound is left for every call under way.
LEMMA NextNodeType ==
  ASSUME TypeInv, CountInv, NEW d \in Node, calls < MaxCalls \/ Active # {}
  PROVE  NextNode(d) \in Node /\ NextNode(d).fs = d.fs /\ NextNode(d).id = counter[d.fs]
<1>1. d.fs \in FileSystem
  BY DEF Node
<1>2. Cardinality(Active) \in Nat /\ (Active # {} => Cardinality(Active) > 0)
  BY FS_EmptySet, FS_CardinalityType DEF CountInv
<1>3. counter[d.fs] \in 0 .. MaxCalls
  BY <1>1, <1>2, VirtualFileSystemAssumption DEF CountInv, TypeInv
<1> QED BY <1>1, <1>3 DEF NextNode, Node

\* Only mount, mkdir, mknod and register_character_device change the tables.
LEMMA TableStep ==
  ASSUME Inv, [Next]_vars
  PROVE  \/ UNCHANGED tables
         \/ \E t \in Task : pc[t] = "mount" /\ MountMade(t) /\ Return(t, Ok)
         \/ \E d \in Node, name \in Name : NodeMade(d, name)
<1> USE DEF tables
<1>1. CASE UNCHANGED vars
  BY <1>1 DEF vars
<1>2. ASSUME NEW t \in Task, NEW r \in Request, Begin(t, r) PROVE UNCHANGED tables
  BY <1>2 DEF Begin
<1>3. ASSUME NEW t \in Task,
             Opendir(t) \/ Scan(t) \/ Resolve(t) \/ Refuse(t) \/ Open(t) \/ Readdir(t) \/ Reopen(t)
      PROVE  UNCHANGED tables
  BY <1>3 DEF Opendir, Scan, Resolve, Refuse, Open, Readdir, Reopen
<1>4. ASSUME NEW t \in Task, Mount(t)
      PROVE  UNCHANGED tables \/ (pc[t] = "mount" /\ MountMade(t) /\ Return(t, Ok))
  <2>1. CASE IsDirectory(node[t]) /\ MountsOf(req[t].fs) = {}
    <3>1. req[t] \in Request /\ req[t].op = "mount"
      BY <1>4 DEF Inv, CallInv, CallOk, Mount
    <3>2. req[t].fs \in Tmpfs \cup Devfs
      BY <3>1 DEF Request
    <3> QED BY <1>4, <2>1, <3>2 DEF Mount, MountMade
  <2>2. CASE ~ (IsDirectory(node[t]) /\ MountsOf(req[t].fs) = {})
    BY <1>4, <2>2 DEF Mount
  <2> QED BY <2>1, <2>2
<1>5. ASSUME NEW t \in Task, pc[t] \in {"mkdir", "mknod"}, CanMake(node[t])
      PROVE  node[t] \in DOMAIN dirs /\ node[t] \in Node /\ NextNode(node[t]) \in Node /\ LastToken(t) \in Name
  <2>1. node[t] \in Node /\ node[t] \in DOMAIN dirs
    BY <1>5 DEF Inv, TypeInv, CanMake, IsDirectory
  <2>2. t \in Active
    BY <1>5 DEF Active
  <2>3. LastToken(t) \in Name
    BY <1>5 DEF Inv, CallInv, CallOk, LastIsLiteral, LastToken
  <2> QED BY <2>1, <2>2, <2>3, NextNodeType DEF Inv
<1>6. ASSUME NEW t \in Task, Mkdir(t) PROVE NodeMade(node[t], LastToken(t))
  BY <1>5, <1>6 DEF Mkdir, NodeMade, DirectoryMade
<1>7. ASSUME NEW t \in Task, Mknod(t) PROVE NodeMade(node[t], LastToken(t))
  BY <1>5, <1>7 DEF Mknod, NodeMade, FileMade
<1>8. ASSUME NEW fs \in Devfs, NEW name \in Name, RegisterDevice(fs, name)
      PROVE  NodeMade(Root(fs), name) /\ Root(fs) \in Node
  <2>1. fs \in FileSystem
    BY DEF FileSystem
  <2>2. Root(fs) \in DOMAIN dirs /\ Root(fs).fs = fs
    BY <2>1 DEF Inv, NodeInv, Root
  <2>3. Root(fs) \in Node
    BY <2>2 DEF Inv, TypeInv
  <2>4. NextNode(Root(fs)) \in Node
    BY <1>8, <2>3, NextNodeType DEF Inv, RegisterDevice
  <2> QED BY <1>8, <2>2, <2>3, <2>4 DEF RegisterDevice, NodeMade, FileMade
<1>9. CASE Done
  BY <1>9 DEF Done, vars
<1>10. ASSUME NEW t \in Task, Mkdir(t) \/ Mknod(t) PROVE node[t] \in Node /\ LastToken(t) \in Name
  BY <1>5, <1>10 DEF Mkdir, Mknod
<1> QED BY <1>1, <1>2, <1>3, <1>4, <1>6, <1>7, <1>8, <1>9, <1>10 DEF Next, Step

\* A sequence with two elements pushed.
LEMMA PushTwo ==
  ASSUME NEW S, NEW s \in Seq(S), NEW e \in S
  PROVE  /\ s \o <<e, e>> \in Seq(S) /\ Len(s \o <<e, e>>) = Len(s) + 2
         /\ \A i \in 1 .. Len(s) : (s \o <<e, e>>)[i] = s[i]
         /\ \A i \in Len(s) + 1 .. Len(s) + 2 : (s \o <<e, e>>)[i] = e
<1>1. <<e, e>> \in Seq(S) /\ Len(<<e, e>>) = 2 /\ <<e, e>>[1] = e /\ <<e, e>>[2] = e
  OBVIOUS
<1>2. s \o <<e, e>> \in Seq(S) /\ Len(s \o <<e, e>>) = Len(s) + 2
  BY <1>1
<1>3. ASSUME NEW i \in 1 .. Len(s) PROVE (s \o <<e, e>>)[i] = s[i]
  BY <1>1
<1>4. (s \o <<e, e>>)[Len(s) + 1] = e /\ (s \o <<e, e>>)[Len(s) + 2] = e
  BY <1>1
<1>5. \A i \in Len(s) + 1 .. Len(s) + 2 : i = Len(s) + 1 \/ i = Len(s) + 2
  OBVIOUS
<1> QED BY <1>2, <1>3, <1>4, <1>5

\* The links that are there stay where they are, and new ones lead to the new node.
LEMMA LinkStep ==
  ASSUME TypeInv, NEW d \in Node, NEW name \in Name, NodeMade(d, name), NextNode(d) \notin Existing
  PROVE  /\ DOMAIN dirs \subseteq DOMAIN dirs' /\ DOMAIN dirs' \subseteq DOMAIN dirs \cup {NextNode(d)}
         /\ Existing' = Existing \cup {NextNode(d)}
         /\ dirs' \in [DOMAIN dirs' -> Seq([name : Token, node : Node])]
         /\ \A x \in DOMAIN dirs :
              /\ Len(dirs[x]) <= Len(dirs'[x])
              /\ \A i \in DOMAIN dirs[x] : i \in DOMAIN dirs'[x] /\ dirs'[x][i] = dirs[x][i]
              /\ \A i \in DOMAIN dirs'[x] \ DOMAIN dirs[x] :
                   x = d /\ dirs'[x][i] = Link(name, NextNode(d))
         /\ NextNode(d) \in DOMAIN dirs' =>
              /\ dirs'[NextNode(d)] = <<Link(CURRENT, NextNode(d)), Link(PARENT, d)>>
              /\ \E i \in DOMAIN dirs'[d] : dirs'[d][i].node = NextNode(d)
<1> DEFINE n == NextNode(d)
           L == [name : Token, node : Node]
<1>1. Link(name, n) \in L /\ Link(CURRENT, n) \in L /\ Link(PARENT, d) \in L
  BY DEF Link, Token, NodeMade
<1>2. \A x \in DOMAIN dirs : dirs[x] \in Seq(L)
  BY DEF TypeInv
<1>3. d \in DOMAIN dirs /\ n # d /\ n \notin DOMAIN dirs
  BY DEF NodeMade, Existing
<1> HIDE DEF L
<1>4. CASE DirectoryMade(d, name)
  <2>1. /\ DOMAIN dirs' = DOMAIN dirs \cup {n}
        /\ dirs'[n] = <<Link(CURRENT, n), Link(PARENT, d)>>
        /\ dirs'[d] = dirs[d] \o <<Link(name, n), Link(name, n)>>
        /\ \A x \in DOMAIN dirs : x # d => dirs'[x] = dirs[x]
    BY <1>3, <1>4 DEF DirectoryMade
  <2>2. dirs' = [x \in DOMAIN dirs' |-> dirs'[x]]
    BY <1>4 DEF DirectoryMade
  <2>4. /\ dirs'[d] \in Seq(L) /\ Len(dirs'[d]) = Len(dirs[d]) + 2
        /\ \A i \in 1 .. Len(dirs[d]) : dirs'[d][i] = dirs[d][i]
        /\ \A i \in Len(dirs[d]) + 1 .. Len(dirs[d]) + 2 : dirs'[d][i] = Link(name, n)
    BY <1>1, <1>2, <1>3, <2>1, PushTwo
  <2>5. dirs'[n] \in Seq(L)
    BY <1>1, <2>1
  <2>6. dirs' \in [DOMAIN dirs' -> Seq(L)]
    BY <1>2, <2>1, <2>2, <2>4, <2>5
  <2>7. ASSUME NEW x \in DOMAIN dirs
        PROVE  /\ Len(dirs[x]) <= Len(dirs'[x])
               /\ \A i \in DOMAIN dirs[x] : i \in DOMAIN dirs'[x] /\ dirs'[x][i] = dirs[x][i]
               /\ \A i \in DOMAIN dirs'[x] \ DOMAIN dirs[x] : x = d /\ dirs'[x][i] = Link(name, n)
    <3>1. CASE x = d
      BY <1>2, <2>4, <3>1
    <3>2. CASE x # d
      BY <1>2, <2>1, <3>2
    <3> QED BY <3>1, <3>2
  <2>8. \E i \in DOMAIN dirs'[d] : dirs'[d][i].node = n
    <3>1. Len(dirs[d]) + 1 \in DOMAIN dirs'[d] /\ dirs'[d][Len(dirs[d]) + 1] = Link(name, n)
      BY <1>2, <1>3, <2>4
    <3> QED BY <3>1 DEF Link
  <2>9. Existing' = Existing \cup {n}
    BY <1>4, <2>1 DEF Existing, DirectoryMade
  <2> QED BY <2>1, <2>6, <2>7, <2>8, <2>9 DEF L
<1>5. CASE FileMade(d, name)
  <2>1. /\ DOMAIN dirs' = DOMAIN dirs
        /\ dirs'[d] = Append(dirs[d], Link(name, n))
        /\ \A x \in DOMAIN dirs : x # d => dirs'[x] = dirs[x]
    BY <1>3, <1>5 DEF FileMade, TypeInv
  <2>2. /\ dirs'[d] \in Seq(L) /\ Len(dirs'[d]) = Len(dirs[d]) + 1
        /\ \A i \in 1 .. Len(dirs[d]) : dirs'[d][i] = dirs[d][i]
        /\ dirs'[d][Len(dirs[d]) + 1] = Link(name, n)
    BY <1>1, <1>2, <1>3, <2>1
  <2>3. dirs' \in [DOMAIN dirs' -> Seq(L)]
    BY <1>2, <1>5, <2>1, <2>2 DEF FileMade
  <2>4. ASSUME NEW x \in DOMAIN dirs
        PROVE  /\ Len(dirs[x]) <= Len(dirs'[x])
               /\ \A i \in DOMAIN dirs[x] : i \in DOMAIN dirs'[x] /\ dirs'[x][i] = dirs[x][i]
               /\ \A i \in DOMAIN dirs'[x] \ DOMAIN dirs[x] : x = d /\ dirs'[x][i] = Link(name, n)
    <3>1. CASE x = d
      BY <1>2, <2>2, <3>1
    <3>2. CASE x # d
      BY <1>2, <2>1, <3>2
    <3> QED BY <3>1, <3>2
  <2>5. Existing' = Existing \cup {n}
    BY <1>5, <2>1 DEF Existing, FileMade
  <2> QED BY <1>3, <2>1, <2>3, <2>4, <2>5 DEF L
<1> QED BY <1>4, <1>5 DEF NodeMade

\* A new node is new.
LEMMA NextNodeIsNew ==
  ASSUME Inv, NEW d \in Node, NEW name \in Name, NodeMade(d, name)
  PROVE  /\ NextNode(d) \in Node /\ NextNode(d) \notin Existing
         /\ NextNode(d).fs = d.fs /\ NextNode(d).id = counter[d.fs]
<1>1. NextNode(d) \in Node /\ d.fs \in FileSystem
  BY DEF NodeMade, Node
<1>2. NextNode(d).fs = d.fs /\ NextNode(d).id = counter[d.fs] /\ counter[d.fs] \in Nat
  BY <1>1 DEF NextNode, Inv, TypeInv
<1> QED BY <1>1, <1>2 DEF Inv, NodeInv

LEMMA NodeNext == Inv /\ [Next]_vars => NodeInv'
<1> SUFFICES ASSUME Inv, [Next]_vars PROVE NodeInv'
  OBVIOUS
<1>1. CASE UNCHANGED tables
  BY <1>1 DEF tables, Inv, NodeInv, Existing
<1>2. ASSUME NEW t \in Task, MountMade(t) PROVE NodeInv'
  BY <1>2 DEF MountMade, Inv, NodeInv, Existing
<1>3. ASSUME NEW d \in Node, NEW name \in Name, NodeMade(d, name) PROVE NodeInv'
  <2> DEFINE n == NextNode(d)
  <2>1. n \in Node /\ n \notin Existing /\ n.fs = d.fs /\ n.id = counter[d.fs]
    BY <1>3, NextNodeIsNew
  <2>2. /\ DOMAIN dirs \subseteq DOMAIN dirs' /\ DOMAIN dirs' \subseteq DOMAIN dirs \cup {n}
        /\ Existing' = Existing \cup {n}
        /\ \A x \in DOMAIN dirs :
              /\ \A i \in DOMAIN dirs[x] : i \in DOMAIN dirs'[x] /\ dirs'[x][i] = dirs[x][i]
              /\ \A i \in DOMAIN dirs'[x] \ DOMAIN dirs[x] : x = d /\ dirs'[x][i] = Link(name, n)
        /\ n \in DOMAIN dirs' => dirs'[n] = <<Link(CURRENT, n), Link(PARENT, d)>>
    BY <1>3, <2>1, LinkStep DEF Inv
  <2>3. d \in DOMAIN dirs /\ d \in Existing /\ d.fs \in FileSystem
    BY <1>3 DEF NodeMade, Existing, Node
  <2> HIDE DEF n
  <2>4. \A fs \in FileSystem : counter'[fs] = IF fs = d.fs THEN counter[fs] + 1 ELSE counter[fs]
    BY <1>3, <2>3 DEF NodeMade, Inv, TypeInv
  <2>5. ASSUME NEW m \in Existing' PROVE m.id < counter'[m.fs]
    <3>1. CASE m = n
      BY <2>1, <2>3, <2>4, <3>1 DEF Inv, TypeInv
    <3>2. CASE m \in Existing
      <4>1. m \in Node /\ m.fs \in FileSystem /\ m.id \in Nat /\ m.id < counter[m.fs] /\ counter[m.fs] \in Nat
        BY <3>2 DEF Inv, TypeInv, NodeInv, Existing, Node
      <4> QED BY <2>4, <4>1
    <3> QED BY <2>2, <3>1, <3>2
  <2>6. ASSUME NEW x \in DOMAIN dirs', NEW i \in DOMAIN dirs'[x]
        PROVE  dirs'[x][i].node \in Existing' /\ dirs'[x][i].node.fs = x.fs
    <3>1. CASE x \in DOMAIN dirs /\ i \in DOMAIN dirs[x]
      BY <2>2, <3>1 DEF Inv, NodeInv
    <3>2. CASE x \in DOMAIN dirs /\ i \notin DOMAIN dirs[x]
      BY <2>1, <2>2, <3>2 DEF Link
    <3>3. CASE x = n
      <4>1. dirs'[x][i] \in {Link(CURRENT, n), Link(PARENT, d)}
        BY <2>2, <3>3
      <4> QED BY <2>1, <2>2, <2>3, <3>3, <4>1 DEF Link
    <3> QED BY <2>2, <3>1, <3>2, <3>3
  <2>7. \A fs \in FileSystem : Root(fs) \in DOMAIN dirs'
    BY <2>2 DEF Inv, NodeInv
  <2> QED BY <2>5, <2>6, <2>7 DEF NodeInv
<1> QED BY <1>1, <1>2, <1>3, TableStep

\* The entries that a new node adds: itself, in its directory alone.
LEMMA EntriesStep ==
  ASSUME Inv, NEW d \in Node, NEW name \in Name, NodeMade(d, name)
  PROVE  /\ \A x \in DOMAIN dirs :
              /\ Entries(dirs[x]) \subseteq Entries(dirs'[x])
              /\ \A m \in Entries(dirs'[x]) :
                   m \in Entries(dirs[x]) \/ (x = d /\ m = NextNode(d))
         /\ NextNode(d) \in DOMAIN dirs' =>
              Entries(dirs'[NextNode(d)]) = {} /\ NextNode(d) \in Entries(dirs'[d])
<1> DEFINE n == NextNode(d)
<1>1. n \in Node /\ n \notin Existing
  BY NextNodeIsNew
<1>2. /\ dirs' \in [DOMAIN dirs' -> Seq([name : Token, node : Node])]
      /\ DOMAIN dirs \subseteq DOMAIN dirs'
      /\ \A x \in DOMAIN dirs :
           /\ Len(dirs[x]) <= Len(dirs'[x])
           /\ \A i \in DOMAIN dirs[x] : i \in DOMAIN dirs'[x] /\ dirs'[x][i] = dirs[x][i]
           /\ \A i \in DOMAIN dirs'[x] \ DOMAIN dirs[x] : x = d /\ dirs'[x][i] = Link(name, n)
      /\ n \in DOMAIN dirs' =>
           /\ dirs'[n] = <<Link(CURRENT, n), Link(PARENT, d)>>
           /\ \E i \in DOMAIN dirs'[d] : dirs'[d][i].node = n
  BY <1>1, LinkStep DEF Inv
<1> HIDE DEF n
<1>3. ASSUME NEW x \in DOMAIN dirs
      PROVE  /\ DOMAIN dirs[x] = 1 .. Len(dirs[x]) /\ Len(dirs[x]) \in Nat
             /\ DOMAIN dirs'[x] = 1 .. Len(dirs'[x]) /\ Len(dirs'[x]) \in Nat
             /\ 2 <= Len(dirs[x])
  <2>1. dirs[x] \in Seq([name : Token, node : Node]) /\ 2 <= Len(dirs[x])
    BY DEF Inv, TypeInv, TreeInv
  <2>2. dirs'[x] \in Seq([name : Token, node : Node])
    BY <1>2
  <2> QED BY <2>1, <2>2
<1>4. ASSUME NEW x \in DOMAIN dirs, NEW m \in Entries(dirs[x]) PROVE m \in Entries(dirs'[x])
  <2>1. PICK i \in 3 .. Len(dirs[x]) : m = dirs[x][i].node
    BY <1>4 DEF Entries
  <2>2. i \in DOMAIN dirs[x] /\ i \in 3 .. Len(dirs'[x])
    BY <1>2, <1>3
  <2>3. m = dirs'[x][i].node
    BY <1>2, <2>1, <2>2
  <2> QED BY <2>2, <2>3 DEF Entries
<1>5. ASSUME NEW x \in DOMAIN dirs, NEW m \in Entries(dirs'[x])
      PROVE  m \in Entries(dirs[x]) \/ (x = d /\ m = n)
  <2>1. PICK i \in 3 .. Len(dirs'[x]) : m = dirs'[x][i].node
    BY <1>5 DEF Entries
  <2>2. CASE i \in DOMAIN dirs[x]
    <3>1. i \in 3 .. Len(dirs[x]) /\ m = dirs[x][i].node
      BY <1>2, <1>3, <2>1, <2>2
    <3> QED BY <3>1 DEF Entries
  <2>3. CASE i \notin DOMAIN dirs[x]
    <3>1. i \in DOMAIN dirs'[x]
      BY <1>3, <2>1
    <3>2. x = d /\ dirs'[x][i] = Link(name, n)
      BY <1>2, <2>3, <3>1
    <3> QED BY <2>1, <3>2 DEF Link
  <2> QED BY <2>2, <2>3
<1>6. ASSUME n \in DOMAIN dirs' PROVE Entries(dirs'[n]) = {} /\ n \in Entries(dirs'[d])
  <2>1. Len(dirs'[n]) = 2
    BY <1>2, <1>6
  <2>2. Entries(dirs'[n]) = {}
    <3>1. 3 .. Len(dirs'[n]) = {}
      BY <2>1
    <3> QED BY <3>1 DEF Entries
  <2>3. PICK i \in DOMAIN dirs'[d] : dirs'[d][i].node = n
    BY <1>2, <1>6
  <2>4. d \in DOMAIN dirs
    BY DEF NodeMade
  <2>5. i \notin DOMAIN dirs[d]
    BY <1>1, <1>2, <2>3, <2>4 DEF Inv, NodeInv
  <2>6. i \in 3 .. Len(dirs'[d])
    BY <1>3, <2>3, <2>4, <2>5
  <2> QED BY <2>2, <2>3, <2>6 DEF Entries
<1> QED BY <1>4, <1>5, <1>6 DEF n

LEMMA TreeNext == Inv /\ [Next]_vars => TreeInv'
<1> SUFFICES ASSUME Inv, [Next]_vars PROVE TreeInv'
  OBVIOUS
<1>1. CASE UNCHANGED tables
  BY <1>1 DEF tables, Inv, TreeInv
<1>2. ASSUME NEW t \in Task, MountMade(t) PROVE TreeInv'
  BY <1>2 DEF MountMade, Inv, TreeInv
<1>3. ASSUME NEW d \in Node, NEW name \in Name, NodeMade(d, name) PROVE TreeInv'
  <2> PICK n : n = NextNode(d)
    OBVIOUS
  <2>1. n \in Node /\ n \notin Existing
    BY <1>3, NextNodeIsNew
  <2>2. /\ DOMAIN dirs \subseteq DOMAIN dirs' /\ DOMAIN dirs' \subseteq DOMAIN dirs \cup {n}
        /\ dirs' \in [DOMAIN dirs' -> Seq([name : Token, node : Node])]
        /\ \A x \in DOMAIN dirs :
              /\ Len(dirs[x]) <= Len(dirs'[x])
              /\ \A i \in DOMAIN dirs[x] : i \in DOMAIN dirs'[x] /\ dirs'[x][i] = dirs[x][i]
        /\ n \in DOMAIN dirs' => dirs'[n] = <<Link(CURRENT, n), Link(PARENT, d)>>
    BY <1>3, <2>1, LinkStep DEF Inv
  <2>3. d \in DOMAIN dirs
    BY <1>3 DEF NodeMade
  <2>4. \A x \in DOMAIN dirs : Entries(dirs[x]) \subseteq Entries(dirs'[x])
    BY <1>3, EntriesStep
  <2>5. n \in DOMAIN dirs' => n \in Entries(dirs'[d])
    BY <1>3, EntriesStep
  <2> SUFFICES ASSUME NEW x \in DOMAIN dirs'
               PROVE  /\ 2 <= Len(dirs'[x])
                      /\ dirs'[x][1] = Link(CURRENT, x)
                      /\ dirs'[x][2].name = PARENT /\ dirs'[x][2].node \in DOMAIN dirs'
                      /\ IF x = Root(x.fs) THEN dirs'[x][2].node = x
                         ELSE x \in Entries(dirs'[dirs'[x][2].node])
    BY DEF TreeInv
  <2>6. CASE x \in DOMAIN dirs
    <3>1. /\ 2 <= Len(dirs[x]) /\ dirs[x][1] = Link(CURRENT, x)
          /\ dirs[x][2].name = PARENT /\ dirs[x][2].node \in DOMAIN dirs
          /\ IF x = Root(x.fs) THEN dirs[x][2].node = x
             ELSE x \in Entries(dirs[dirs[x][2].node])
      BY <2>6 DEF Inv, TreeInv
    <3>2. Len(dirs[x]) \in Nat /\ Len(dirs'[x]) \in Nat /\ DOMAIN dirs[x] = 1 .. Len(dirs[x])
      BY <2>2, <2>6 DEF Inv, TypeInv
    <3>3. 1 \in DOMAIN dirs[x] /\ 2 \in DOMAIN dirs[x]
      BY <3>1, <3>2
    <3>4. dirs'[x][1] = dirs[x][1] /\ dirs'[x][2] = dirs[x][2] /\ 2 <= Len(dirs'[x])
      BY <2>2, <2>6, <3>1, <3>2, <3>3
    <3>5. Entries(dirs[dirs[x][2].node]) \subseteq Entries(dirs'[dirs[x][2].node])
      BY <2>4, <3>1
    <3> QED BY <2>2, <3>1, <3>4, <3>5
  <2>7. CASE x = n
    <3>1. dirs'[n] = <<Link(CURRENT, n), Link(PARENT, d)>> /\ n \in Entries(dirs'[d])
      BY <2>2, <2>5, <2>7
    <3>2. Len(dirs'[n]) = 2 /\ dirs'[n][1] = Link(CURRENT, n) /\ dirs'[n][2] = Link(PARENT, d)
      BY <3>1
    <3>3. n # Root(n.fs)
      BY <2>1 DEF Inv, NodeInv, Node, Existing
    <3> QED BY <2>2, <2>3, <2>7, <3>1, <3>2, <3>3 DEF Link
  <2> QED BY <2>2, <2>6, <2>7
<1> QED BY <1>1, <1>2, <1>3, TableStep

LEMMA AgeNext == Inv /\ [Next]_vars => AgeInv'
<1> SUFFICES ASSUME Inv, [Next]_vars PROVE AgeInv'
  OBVIOUS
<1>1. CASE UNCHANGED tables
  BY <1>1 DEF tables, Inv, AgeInv
<1>2. ASSUME NEW t \in Task, MountMade(t) PROVE AgeInv'
  BY <1>2 DEF MountMade, Inv, AgeInv
<1>3. ASSUME NEW d \in Node, NEW name \in Name, NodeMade(d, name) PROVE AgeInv'
  <2> PICK n : n = NextNode(d)
    OBVIOUS
  <2>1. n \in Node /\ n \notin Existing /\ n.id = counter[d.fs]
    BY <1>3, NextNodeIsNew
  <2>2. d \in DOMAIN dirs /\ d.id < counter[d.fs] /\ d.id \in Nat
    BY <1>3 DEF NodeMade, Inv, NodeInv, Existing, Node
  <2>3. n.id > d.id
    BY <2>1, <2>2 DEF Node
  <2>4. ASSUME NEW x \in DOMAIN dirs PROVE n \notin Entries(dirs[x])
    <3>1. dirs[x] \in Seq([name : Token, node : Node])
      BY DEF Inv, TypeInv
    <3>2. \A i \in 3 .. Len(dirs[x]) : i \in DOMAIN dirs[x]
      BY <3>1
    <3> QED BY <2>1, <3>2 DEF Inv, NodeInv, Entries
  <2>5. /\ \A x \in DOMAIN dirs : \A m \in Entries(dirs'[x]) :
             m \in Entries(dirs[x]) \/ (x = d /\ m = n)
        /\ n \in DOMAIN dirs' => Entries(dirs'[n]) = {}
    BY <1>3, EntriesStep
  <2>6. DOMAIN dirs' \subseteq DOMAIN dirs \cup {n}
    BY <1>3, <2>1, LinkStep DEF Inv
  <2>7. ASSUME NEW x \in DOMAIN dirs', NEW m \in Entries(dirs'[x])
        PROVE  x \in DOMAIN dirs /\ (m \in Entries(dirs[x]) \/ (x = d /\ m = n))
    BY <2>5, <2>6, <2>7
  <2>8. ASSUME NEW x \in DOMAIN dirs', NEW m \in Entries(dirs'[x])
        PROVE  /\ m.id > x.id
               /\ \A e \in DOMAIN dirs' : m \in Entries(dirs'[e]) => e = x
    <3>1. CASE m = n
      BY <2>3, <2>4, <2>7, <2>8, <3>1
    <3>2. CASE m # n
      BY <2>7, <2>8, <3>2 DEF Inv, AgeInv
    <3> QED BY <3>1, <3>2
  <2> QED BY <2>8 DEF AgeInv
<1> QED BY <1>1, <1>2, <1>3, TableStep

LEMMA MountNext == Inv /\ [Next]_vars => MountInv'
<1> SUFFICES ASSUME Inv, [Next]_vars PROVE MountInv'
  OBVIOUS
<1>1. CASE UNCHANGED tables
  BY <1>1 DEF tables, Inv, MountInv
<1>2. ASSUME NEW t \in Task, MountMade(t) PROVE MountInv'
  <2> DEFINE new == [point |-> node[t], subtree |-> req[t].fs]
             L == Len(mounts)
  <2>1. L \in Nat /\ DOMAIN mounts = 1 .. L /\ node[t] \in Node /\ new \in [point : Node, subtree : Tmpfs \cup Devfs]
    BY <1>2 DEF Inv, TypeInv, MountMade
  <2>2. /\ DOMAIN mounts' = 1 .. L + 1 /\ mounts'[L + 1] = new
        /\ \A i \in 1 .. L : mounts'[i] = mounts[i]
    BY <1>2, <2>1 DEF MountMade, Inv, TypeInv
  <2> HIDE DEF L
  <2>3. \A i \in 1 .. L : mounts[i].subtree # new.subtree
    BY <1>2, <2>1 DEF MountMade, MountsOf
  <2>4. new.point.fs = RootFs \/ \E j \in 1 .. L : mounts[j].subtree = new.point.fs
    BY <2>1 DEF Inv, CallInv, CallOk, MountedFs
  <2>5. new.point \in DOMAIN dirs /\ dirs' = dirs
    BY <1>2 DEF MountMade, IsDirectory
  <2> HIDE DEF new
  <2> SUFFICES ASSUME NEW i \in 1 .. L + 1
               PROVE  /\ mounts'[i].point \in DOMAIN dirs
                      /\ \/ mounts'[i].point.fs = RootFs
                         \/ \E j \in 1 .. L + 1 : j < i /\ mounts'[j].subtree = mounts'[i].point.fs
                      /\ \A j \in 1 .. L + 1 : mounts'[j].subtree = mounts'[i].subtree => i = j
    BY <2>2, <2>5 DEF MountInv
  <2>6. CASE i = L + 1
    <3>1. mounts'[i] = new /\ \A j \in 1 .. L + 1 : j # i => j \in 1 .. L /\ mounts'[j] = mounts[j]
      BY <2>1, <2>2, <2>6
    <3>2. new.point.fs = RootFs \/ \E j \in 1 .. L + 1 : j < i /\ mounts'[j].subtree = new.point.fs
      BY <2>1, <2>2, <2>4, <2>6
    <3> QED BY <2>3, <2>5, <3>1, <3>2
  <2>7. CASE i \in 1 .. L
    <3>1. /\ mounts[i].point \in DOMAIN dirs
          /\ mounts[i].point.fs = RootFs \/ \E j \in 1 .. L : j < i /\ mounts[j].subtree = mounts[i].point.fs
          /\ \A j \in 1 .. L : mounts[j].subtree = mounts[i].subtree => i = j
      BY <2>1, <2>7 DEF Inv, MountInv
    <3>2. mounts'[i] = mounts[i] /\ \A j \in 1 .. L + 1 : j # L + 1 => j \in 1 .. L /\ mounts'[j] = mounts[j]
      BY <2>1, <2>2, <2>7
    <3>3. \A j \in 1 .. L : j \in 1 .. L + 1
      BY <2>1
    <3> QED BY <2>2, <2>3, <2>7, <3>1, <3>2, <3>3
  <2> QED BY <2>1, <2>6, <2>7
<1>3. ASSUME NEW d \in Node, NEW name \in Name, NodeMade(d, name) PROVE MountInv'
  <2>1. NextNode(d) \notin Existing
    BY <1>3, NextNodeIsNew
  <2>2. DOMAIN dirs \subseteq DOMAIN dirs'
    BY <1>3, <2>1, LinkStep DEF Inv
  <2> QED BY <1>3, <2>2 DEF NodeMade, Inv, MountInv
<1> QED BY <1>1, <1>2, <1>3, TableStep

\* Nodes and mounts never go away.
LEMMA Grows ==
  ASSUME Inv, [Next]_vars
  PROVE  Existing \subseteq Existing' /\ DOMAIN dirs \subseteq DOMAIN dirs' /\ MountedFs \subseteq MountedFs'
<1>1. CASE UNCHANGED tables
  BY <1>1 DEF tables, Existing, MountedFs
<1>2. ASSUME NEW t \in Task, MountMade(t) PROVE MountedFs \subseteq MountedFs' /\ UNCHANGED <<dirs, files>>
  <2>1. DOMAIN mounts \subseteq DOMAIN mounts' /\ \A i \in DOMAIN mounts : mounts'[i] = mounts[i]
    <3>1. [point |-> node[t], subtree |-> req[t].fs] \in [point : Node, subtree : Tmpfs \cup Devfs]
      BY <1>2 DEF Inv, TypeInv, MountMade
    <3> QED BY <1>2, <3>1 DEF MountMade, Inv, TypeInv
  <2> QED BY <1>2, <2>1 DEF MountMade, MountedFs
<1>3. ASSUME NEW d \in Node, NEW name \in Name, NodeMade(d, name)
      PROVE  Existing \subseteq Existing' /\ DOMAIN dirs \subseteq DOMAIN dirs' /\ UNCHANGED mounts
  <2>1. NextNode(d) \notin Existing
    BY <1>3, NextNodeIsNew
  <2> QED BY <1>3, <2>1, LinkStep DEF Inv, NodeMade
<1> QED BY <1>1, <1>2, <1>3, TableStep DEF Existing, MountedFs

-------------------------------------------------------------------------------
(***************************************************************************)
(* What a step does to the calls.                                          *)
(***************************************************************************)
\* The parts of the path that walk is given, and a request, have their types.
LEMMA RequestType ==
  ASSUME NEW r \in Request
  PROVE  /\ r.path \in Seq(Token) /\ ParentPath(r.path) \in Seq(Token)
         /\ r.op \in {"mount", "mkdir", "mknod", "open", "readdir"}
         /\ r.fs \in FileSystem
<1>1. r.path \in Seq(Token) /\ r.fs \in FileSystem
  BY VirtualFileSystemAssumption DEF Request, Token, FileSystem
<1>2. r.op \in {"mount", "mkdir", "mknod", "open", "readdir"}
  BY VirtualFileSystemAssumption DEF Request
<1>3. PARENT \in Token
  BY DEF Token
<1>4. ParentPath(r.path) \in Seq(Token)
  <2>1. CASE r.path # <<>> /\ r.path[Len(r.path)] \in Name
    <3>1. SubSeq(r.path, 1, Len(r.path) - 1) \in Seq(Token)
      BY <1>1
    <3> QED BY <2>1, <3>1 DEF ParentPath
  <2>2. CASE ~ (r.path # <<>> /\ r.path[Len(r.path)] \in Name)
    BY <1>1, <1>3, <2>2 DEF ParentPath
  <2> QED BY <2>1, <2>2
<1> QED BY <1>1, <1>2, <1>4

\* ".." of a directory is a node that exists.
LEMMA ParentLinkType ==
  ASSUME Inv, NEW d \in DOMAIN dirs
  PROVE  ParentLink(d) \in Existing /\ ParentLink(d) \in Node
<1>1. dirs[d] \in Seq([name : Token, node : Node])
  BY DEF Inv, TypeInv
<1>2. Matches(d, PARENT) \subseteq Nat /\ Matches(d, PARENT) \subseteq DOMAIN dirs[d]
  BY <1>1 DEF Matches
<1>3. 2 \in Matches(d, PARENT)
  BY <1>1 DEF Matches, Inv, TreeInv
<1>4. First(Matches(d, PARENT)) \in DOMAIN dirs[d]
  BY <1>2, <1>3, FirstIsLeast
<1>5. ParentLink(d) \in Existing
  BY <1>4 DEF Inv, NodeInv, ParentLink
<1> QED BY <1>5 DEF Existing, Inv, TypeInv

\* How a step changes the local variables of a call: the other calls are left
\* alone, and the call begins, returns or goes on.
UnchangedCall(s) ==
  pc'[s] = pc[s] /\ req'[s] = req[s] /\ node'[s] = node[s] /\ rest'[s] = rest[s]

Frame(t) ==
  /\ \A s \in Task \ {t} : UnchangedCall(s)
  /\ pc' \in [Task -> Position] /\ req' \in [Task -> Request \cup {NoRequest}]
  /\ node' \in [Task -> Node] /\ rest' \in [Task -> Seq(Token)]
  /\ result' \in [Task -> Node \cup {Ok, Err}]

Begins(t) ==
  /\ pc[t] = "idle" /\ pc'[t] = "walk" /\ calls < MaxCalls /\ calls' = calls + 1
  /\ req'[t] \in Request /\ (req'[t].op = "mount" => t \in Mounters)
  /\ node'[t] = Root(RootFs)
  /\ UNCHANGED tables

Returns(t) ==
  /\ pc[t] # "idle" /\ pc'[t] = "idle" /\ calls' = calls
  /\ req'[t] = NoRequest /\ node'[t] = Root(RootFs)

GoesOn(t) ==
  /\ pc[t] # "idle" /\ pc'[t] # "idle" /\ calls' = calls
  /\ req'[t] = req[t]
  /\ node'[t] \in Existing /\ node'[t].fs \in MountedFs
  /\ pc'[t] \in {"scan", "reopen"} => node'[t] \in DOMAIN dirs
  /\ pc'[t] = "scan" => rest'[t] # <<>>
  /\ pc'[t] \in {"walk", "scan", "reopen"} \/ pc'[t] = req[t].op
  /\ pc'[t] \in {"mkdir", "mknod"} => LastIsLiteral(req[t].path)
  /\ pc'[t] = "mount" => MountedOn(node'[t]) = {}
  /\ UNCHANGED tables

LocalStep(t) == Frame(t) /\ (Begins(t) \/ Returns(t) \/ GoesOn(t))

Moved(t, p, n, w) ==
  /\ pc' = [pc EXCEPT ![t] = p] /\ node' = [node EXCEPT ![t] = n]
  /\ rest' = [rest EXCEPT ![t] = w] /\ UNCHANGED <<req, result>>

LEMMA RootType == Root(RootFs) \in Node
BY VirtualFileSystemAssumption DEF Root, Node, FileSystem

LEMMA ReturnIsLocalStep ==
  ASSUME TypeInv, NEW t \in Task, pc[t] # "idle", NEW r \in Node \cup {Ok, Err}, Return(t, r)
  PROVE  LocalStep(t)
<1>1. <<>> \in Seq(Token)
  OBVIOUS
<1>2. Frame(t)
  <2>1. \A s \in Task \ {t} : UnchangedCall(s)
    BY DEF Return, TypeInv, UnchangedCall
  <2>2. pc' \in [Task -> Position]
    BY DEF Return, TypeInv, Position
  <2>3. req' \in [Task -> Request \cup {NoRequest}] /\ node' \in [Task -> Node]
    BY RootType DEF Return, TypeInv
  <2>4. rest' \in [Task -> Seq(Token)] /\ result' \in [Task -> Node \cup {Ok, Err}]
    BY <1>1 DEF Return, TypeInv
  <2> QED BY <2>1, <2>2, <2>3, <2>4 DEF Frame
<1>3. Returns(t)
  BY DEF Return, Returns, TypeInv
<1> QED BY <1>2, <1>3 DEF LocalStep

\* A step that changes where the call is, and the node and the tokens it has.
LEMMA GoingOnIsFrame ==
  ASSUME TypeInv, NEW t \in Task,
         \E p \in Position, n \in Node, w \in Seq(Token) : Moved(t, p, n, w)
  PROVE  Frame(t)
<1> PICK p \in Position, n \in Node, w \in Seq(Token) : Moved(t, p, n, w)
  OBVIOUS
<1>1. \A s \in Task \ {t} : UnchangedCall(s)
  BY DEF TypeInv, Moved, UnchangedCall
<1>2. pc' \in [Task -> Position] /\ req' \in [Task -> Request \cup {NoRequest}]
  BY DEF TypeInv, Moved
<1>3. node' \in [Task -> Node] /\ rest' \in [Task -> Seq(Token)]
  BY DEF TypeInv, Moved
<1>4. result' \in [Task -> Node \cup {Ok, Err}]
  BY DEF TypeInv, Moved
<1> QED BY <1>1, <1>2, <1>3, <1>4 DEF Frame

LEMMA CallStep ==
  ASSUME Inv, NEW t \in Task, Step(t) \/ \E r \in Request : Begin(t, r)
  PROVE  LocalStep(t)
<1> USE DEF Inv
<1>1. ASSUME NEW r \in Request, Begin(t, r) PROVE LocalStep(t)
  <2>1. r.path \in Seq(Token) /\ ParentPath(r.path) \in Seq(Token)
    BY RequestType
  <2> DEFINE w == IF Makes(r.op) THEN ParentPath(r.path) ELSE r.path
  <2>2. w \in Seq(Token) /\ rest' = [rest EXCEPT ![t] = w]
    BY <1>1, <2>1 DEF Begin
  <2> HIDE DEF w
  <2>3. rest' \in [Task -> Seq(Token)] /\ result' \in [Task -> Node \cup {Ok, Err}]
    BY <1>1, <2>2 DEF Begin, TypeInv
  <2>4. \A s \in Task \ {t} : UnchangedCall(s)
    BY <1>1, <2>2 DEF Begin, TypeInv, UnchangedCall
  <2>5. pc' \in [Task -> Position]
    BY <1>1 DEF Begin, TypeInv, Position
  <2>6. req' \in [Task -> Request \cup {NoRequest}] /\ node' \in [Task -> Node]
    BY <1>1, RootType DEF Begin, TypeInv
  <2>7. Frame(t)
    BY <2>3, <2>4, <2>5, <2>6 DEF Frame
  <2>8. Begins(t)
    BY <1>1 DEF Begin, Begins, TypeInv
  <2> QED BY <2>7, <2>8 DEF LocalStep
<1>2. ASSUME NEW n, n = ResolveSubtree(node[t])
      PROVE  /\ n \in Existing /\ n.fs \in MountedFs /\ n \in Node /\ MountedOn(n) = {}
             /\ node[t] \in DOMAIN dirs => n \in DOMAIN dirs
  <2>1. node[t] \in Existing /\ node[t].fs \in MountedFs /\ node[t] \in Node
    BY DEF CallInv, CallOk, TypeInv
  <2>2. MountedOn(n) = {}
    BY <1>2, <2>1, ResolveSubtreeEnds
  <2>3. n \in Existing /\ n.fs \in MountedFs /\ (node[t] \in DOMAIN dirs => n \in DOMAIN dirs)
    BY <1>2, <2>1, ResolveSubtreeClosed
  <2> QED BY <2>2, <2>3 DEF TypeInv, Existing
<1>3. CASE Opendir(t)
  <2> DEFINE n == ResolveSubtree(node[t])
  <2>1. CASE IsDirectory(n)
    <3>1. n \in Existing /\ n.fs \in MountedFs /\ n \in Node
      BY <1>2
    <3> HIDE DEF n
    <3>2. node' = [node EXCEPT ![t] = n] /\ pc' = [pc EXCEPT ![t] = "scan"]
      BY <1>3, <2>1 DEF Opendir, n
    <3>3. UNCHANGED <<calls, req, rest, result>> /\ UNCHANGED tables /\ rest[t] # <<>> /\ pc[t] = "walk"
      BY <1>3, <2>1 DEF Opendir, n
    <3>4. rest' = [rest EXCEPT ![t] = rest[t]] /\ rest[t] \in Seq(Token)
      BY <3>3 DEF TypeInv
    <3>5. Moved(t, "scan", n, rest[t])
      BY <3>2, <3>3, <3>4 DEF Moved
    <3>6. Frame(t)
      BY <3>1, <3>4, <3>5, GoingOnIsFrame DEF Position
    <3>7. GoesOn(t)
      BY <2>1, <3>1, <3>2, <3>3 DEF GoesOn, IsDirectory, TypeInv
    <3> QED BY <3>6, <3>7 DEF LocalStep
  <2>2. CASE ~ IsDirectory(n)
    BY <1>3, <2>2, ReturnIsLocalStep DEF Opendir
  <2> QED BY <2>1, <2>2
<1>4. CASE Scan(t)
  <2> DEFINE m == Matches(node[t], Head(rest[t]))
  <2>1. CASE m # {}
    <3>1. node[t] \in DOMAIN dirs /\ rest[t] # <<>>
      BY <1>4 DEF Scan, CallInv, CallOk
    <3>2. dirs[node[t]] \in Seq([name : Token, node : Node])
      BY <3>1 DEF TypeInv
    <3>3. m \subseteq Nat /\ m \subseteq DOMAIN dirs[node[t]]
      BY <3>2 DEF Matches
    <3>4. First(m) \in DOMAIN dirs[node[t]]
      BY <2>1, <3>3, FirstIsLeast
    <3> DEFINE n == dirs[node[t]][First(m)].node
    <3>5. n \in Existing /\ n.fs = node[t].fs
      BY <3>1, <3>4 DEF NodeInv
    <3>6. node[t].fs \in MountedFs
      BY DEF CallInv, CallOk
    <3>7. Tail(rest[t]) \in Seq(Token)
      BY <3>1 DEF TypeInv
    <3>8. /\ node' = [node EXCEPT ![t] = n] /\ rest' = [rest EXCEPT ![t] = Tail(@)]
          /\ pc' = [pc EXCEPT ![t] = "walk"] /\ UNCHANGED <<calls, req, result>> /\ UNCHANGED tables
          /\ pc[t] = "scan"
      BY <1>4, <2>1 DEF Scan
    <3>9. n \in Node
      BY <3>5 DEF Existing, TypeInv
    <3> HIDE DEF n
    <3>10. rest' = [rest EXCEPT ![t] = Tail(rest[t])]
      BY <3>8
    <3>11. Moved(t, "walk", n, Tail(rest[t]))
      BY <3>8, <3>10 DEF Moved
    <3>12. Frame(t)
      BY <3>7, <3>9, <3>11, GoingOnIsFrame DEF Position
    <3>13. GoesOn(t)
      BY <3>5, <3>6, <3>8 DEF GoesOn, TypeInv
    <3> QED BY <3>12, <3>13 DEF LocalStep
  <2>2. CASE m = {}
    BY <1>4, <2>2, ReturnIsLocalStep DEF Scan
  <2> QED BY <2>1, <2>2
<1>5. CASE Resolve(t)
  <2>1. CASE Makes(req[t].op) /\ ~ LastIsLiteral(req[t].path)
    BY <1>5, <2>1, ReturnIsLocalStep DEF Resolve
  <2>2. CASE ~ (Makes(req[t].op) /\ ~ LastIsLiteral(req[t].path))
    <3> DEFINE n == ResolveSubtree(node[t])
    <3>1. n \in Existing /\ n.fs \in MountedFs /\ n \in Node /\ MountedOn(n) = {}
      BY <1>2
    <3> HIDE DEF n
    <3>2. /\ node' = [node EXCEPT ![t] = n] /\ pc' = [pc EXCEPT ![t] = req[t].op]
          /\ UNCHANGED <<calls, req, rest, result>> /\ UNCHANGED tables /\ pc[t] = "walk"
      BY <1>5, <2>2 DEF Resolve, n
    <3>3. req[t] \in Request
      BY <3>2 DEF CallInv, CallOk
    <3>4. req[t].op \in {"mount", "mkdir", "mknod", "open", "readdir"}
      BY <3>3, RequestType
    <3>5. req[t].op \in {"mkdir", "mknod"} => LastIsLiteral(req[t].path)
      BY <2>2 DEF Makes
    <3>6. rest' = [rest EXCEPT ![t] = rest[t]] /\ rest[t] \in Seq(Token)
      BY <3>2 DEF TypeInv
    <3>7. Moved(t, req[t].op, n, rest[t])
      BY <3>2, <3>6 DEF Moved
    <3>8. Frame(t)
      BY <3>1, <3>4, <3>6, <3>7, GoingOnIsFrame DEF Position
    <3>9. pc'[t] = req[t].op /\ node'[t] = n
      BY <3>2 DEF TypeInv
    <3>10. GoesOn(t)
      BY <3>1, <3>2, <3>4, <3>5, <3>9 DEF GoesOn
    <3> QED BY <3>8, <3>10 DEF LocalStep
  <2> QED BY <2>1, <2>2
<1>6. CASE Mount(t)
  BY <1>6, ReturnIsLocalStep DEF Mount
<1>7. CASE Refuse(t) \/ Mkdir(t) \/ Mknod(t)
  BY <1>7, ReturnIsLocalStep DEF Refuse, Mkdir, Mknod
<1>8. CASE Open(t)
  <2>1. node[t] \in Node
    BY DEF TypeInv
  <2> QED BY <1>8, <2>1, ReturnIsLocalStep DEF Open
<1>9. CASE Readdir(t)
  <2> DEFINE low == ResolveMountPoint(node[t])
  <2>1. CASE ~ IsDirectory(node[t])
    BY <1>9, <2>1, ReturnIsLocalStep DEF Readdir
  <2>2. CASE IsDirectory(node[t]) /\ low = node[t]
    <3>1. ParentLink(node[t]) \in Node
      BY <2>2, ParentLinkType DEF IsDirectory
    <3> QED BY <1>9, <2>2, <3>1, ReturnIsLocalStep DEF Readdir
  <2>3. CASE IsDirectory(node[t]) /\ low # node[t]
    <3>1. low \in DOMAIN dirs /\ low.fs \in MountedFs
      BY <2>3, ResolveMountPointClosed DEF IsDirectory, CallInv, CallOk
    <3> HIDE DEF low
    <3>2. /\ node' = [node EXCEPT ![t] = low] /\ pc' = [pc EXCEPT ![t] = "reopen"]
          /\ UNCHANGED <<calls, req, rest, result>> /\ UNCHANGED tables /\ pc[t] = "readdir"
      BY <1>9, <2>3 DEF Readdir, low
    <3>3. rest' = [rest EXCEPT ![t] = rest[t]] /\ rest[t] \in Seq(Token) /\ low \in Node
      BY <3>1, <3>2 DEF TypeInv
    <3>4. Moved(t, "reopen", low, rest[t])
      BY <3>2, <3>3 DEF Moved
    <3>5. Frame(t)
      BY <3>3, <3>4, GoingOnIsFrame DEF Position
    <3>6. GoesOn(t)
      BY <3>1, <3>2 DEF GoesOn, Existing, TypeInv
    <3> QED BY <3>5, <3>6 DEF LocalStep
  <2> QED BY <2>1, <2>2, <2>3
<1>10. CASE Reopen(t)
  <2>1. node[t] \in DOMAIN dirs
    BY <1>10 DEF Reopen, CallInv, CallOk
  <2>2. ParentLink(ResolveSubtree(node[t])) \in Node
    BY <1>2, <2>1, ParentLinkType
  <2> QED BY <1>10, <2>2, ReturnIsLocalStep DEF Reopen
<1> QED BY <1>1, <1>3, <1>4, <1>5, <1>6, <1>7, <1>8, <1>9, <1>10 DEF Step

\* Every step is a step of a call, registers a device, or changes nothing.
LEMMA Steps ==
  ASSUME Inv, [Next]_vars
  PROVE  \/ UNCHANGED vars
         \/ \E t \in Task : LocalStep(t) /\ (Step(t) \/ \E r \in Request : Begin(t, r))
         \/ \E fs \in Devfs, name \in Name : RegisterDevice(fs, name)
BY CallStep DEF Next, Done

LEMMA CallNext == Inv /\ [Next]_vars => CallInv'
<1> SUFFICES ASSUME Inv, [Next]_vars, NEW s \in Task PROVE CallOk(s)'
  BY DEF CallInv
<1>1. Existing \subseteq Existing' /\ DOMAIN dirs \subseteq DOMAIN dirs' /\ MountedFs \subseteq MountedFs'
  BY Grows
<1>2. CallOk(s) /\ (pc[s] # "idle" => req[s] \in Request)
  BY DEF Inv, CallInv, CallOk
<1>3. ASSUME UnchangedCall(s) PROVE CallOk(s)'
  BY <1>1, <1>2, <1>3 DEF CallOk, UnchangedCall
<1>4. Root(RootFs) \in DOMAIN dirs /\ Root(RootFs).fs = RootFs
  BY DEF Inv, NodeInv, FileSystem, Root
<1>5. Root(RootFs) \in Existing' /\ Root(RootFs).fs \in MountedFs'
  BY <1>1, <1>4 DEF Existing, MountedFs
<1>6. ASSUME Begins(s) PROVE CallOk(s)'
  BY <1>5, <1>6 DEF Begins, CallOk
<1>7. ASSUME Returns(s) PROVE CallOk(s)'
  BY <1>5, <1>7 DEF Returns, CallOk, NoRequest
<1>8. ASSUME GoesOn(s) PROVE CallOk(s)'
  BY <1>1, <1>2, <1>8 DEF GoesOn, CallOk
<1>9. ASSUME NEW t \in Task, LocalStep(t) PROVE CallOk(s)'
  BY <1>3, <1>6, <1>7, <1>8, <1>9 DEF LocalStep, Frame
<1>10. ASSUME NEW fs \in Devfs, NEW name \in Name, RegisterDevice(fs, name) PROVE UnchangedCall(s)
  BY <1>10 DEF RegisterDevice, UnchangedCall
<1>11. ASSUME UNCHANGED vars PROVE UnchangedCall(s)
  BY <1>11 DEF vars, locals, UnchangedCall
<1> QED BY <1>3, <1>9, <1>10, <1>11, Steps

LEMMA CountNext == Inv /\ [Next]_vars => CountInv'
<1> SUFFICES ASSUME Inv, [Next]_vars PROVE CountInv'
  OBVIOUS
<1> DEFINE Left(n, a, c) == \A fs \in FileSystem : 1 <= n[fs] /\ n[fs] + a <= c + 1
<1>1. /\ IsFiniteSet(Active) /\ Cardinality(Active) \in Nat /\ calls \in Nat
      /\ counter \in [FileSystem -> Nat]
      /\ Left(counter, Cardinality(Active), calls)
  BY FS_CardinalityType DEF Inv, CountInv, TypeInv
<1>2. SUFFICES IsFiniteSet(Active') /\ Left(counter', Cardinality(Active'), calls')
  BY DEF CountInv
<1>3. CASE UNCHANGED vars
  BY <1>1, <1>3 DEF vars, tables, locals, Active
<1>4. ASSUME NEW t \in Task, Frame(t), Begins(t)
      PROVE  IsFiniteSet(Active') /\ Left(counter', Cardinality(Active'), calls')
  <2>1. Active' = Active \cup {t} /\ t \notin Active
    BY <1>4 DEF Frame, Begins, Active, UnchangedCall
  <2>2. IsFiniteSet(Active') /\ Cardinality(Active') = Cardinality(Active) + 1
    BY <1>1, <2>1, FS_AddElement
  <2>3. calls' = calls + 1 /\ counter' = counter
    BY <1>4 DEF Begins, tables
  <2> QED BY <1>1, <2>2, <2>3
<1>5. ASSUME NEW t \in Task, Frame(t), Returns(t)
      PROVE  IsFiniteSet(Active') /\ Left(counter', Cardinality(Active'), calls')
  <2>1. Active' = Active \ {t} /\ t \in Active
    BY <1>5 DEF Frame, Returns, Active, UnchangedCall
  <2>2. IsFiniteSet(Active') /\ Cardinality(Active') = Cardinality(Active) - 1
    BY <1>1, <2>1, FS_RemoveElement
  <2>3. calls' = calls
    BY <1>5 DEF Returns
  <2>4. counter' = counter \/ \E d \in Node : d.fs \in FileSystem /\ counter' = [counter EXCEPT ![d.fs] = @ + 1]
    BY TableStep DEF MountMade, NodeMade, tables, Node
  <2> QED BY <1>1, <2>2, <2>3, <2>4
<1>6. ASSUME NEW t \in Task, Frame(t), GoesOn(t)
      PROVE  IsFiniteSet(Active') /\ Left(counter', Cardinality(Active'), calls')
  <2>1. Active' = Active
    BY <1>6 DEF Frame, GoesOn, Active, UnchangedCall
  <2> QED BY <1>1, <1>6, <2>1 DEF GoesOn, tables
<1>7. ASSUME NEW fs \in Devfs, NEW name \in Name, RegisterDevice(fs, name)
      PROVE  IsFiniteSet(Active') /\ Left(counter', Cardinality(Active'), calls')
  <2>1. Active' = Active /\ calls' = calls + 1 /\ counter' = [counter EXCEPT ![fs] = @ + 1]
    BY <1>7 DEF RegisterDevice, Active
  <2> QED BY <1>1, <2>1
<1> QED BY <1>3, <1>4, <1>5, <1>6, <1>7, Steps DEF LocalStep

LEMMA TypeNext == Inv /\ [Next]_vars => TypeInv'
<1> SUFFICES ASSUME Inv, [Next]_vars PROVE TypeInv'
  OBVIOUS
<1> DEFINE M == [point : Node, subtree : Tmpfs \cup Devfs]
           TablesOk == /\ mounts' \in Seq(M)
                       /\ DOMAIN dirs' \subseteq Node /\ files' \subseteq Node
                       /\ dirs' \in [DOMAIN dirs' -> Seq([name : Token, node : Node])]
                       /\ counter' \in [FileSystem -> Nat]
<1>1. TablesOk
  <2>1. CASE UNCHANGED tables
    BY <2>1 DEF tables, Inv, TypeInv
  <2>2. CASE \E t \in Task : MountMade(t)
    <3> PICK t \in Task : MountMade(t)
      BY <2>2
    <3>1. [point |-> node[t], subtree |-> req[t].fs] \in M /\ mounts \in Seq(M)
      BY DEF MountMade, Inv, TypeInv
    <3>2. mounts' \in Seq(M)
      <4> HIDE DEF M
      <4> QED BY <3>1 DEF MountMade
    <3> QED BY <3>2 DEF MountMade, Inv, TypeInv
  <2>3. ASSUME NEW d \in Node, NEW name \in Name, NodeMade(d, name)
        PROVE  TablesOk
    <3>1. NextNode(d) \notin Existing /\ NextNode(d) \in Node
      BY <2>3, NextNodeIsNew
    <3>2. /\ dirs' \in [DOMAIN dirs' -> Seq([name : Token, node : Node])]
          /\ DOMAIN dirs' \subseteq DOMAIN dirs \cup {NextNode(d)}
          /\ Existing' = Existing \cup {NextNode(d)}
      BY <2>3, <3>1, LinkStep DEF Inv
    <3>3. DOMAIN dirs' \subseteq Node /\ files' \subseteq Node
      BY <3>1, <3>2 DEF Inv, TypeInv, Existing
    <3>4. counter' \in [FileSystem -> Nat] /\ mounts' = mounts
      BY <2>3 DEF NodeMade, Inv, TypeInv, Node
    <3> QED BY <3>2, <3>3, <3>4 DEF Inv, TypeInv
  <2> HIDE DEF TablesOk
  <2> QED BY <2>1, <2>2, <2>3, TableStep
<1> HIDE DEF M
<1>2. ASSUME NEW t \in Task, LocalStep(t) PROVE TypeInv'
  <2>1. calls' \in 0 .. MaxCalls
    BY <1>2, VirtualFileSystemAssumption DEF LocalStep, Begins, Returns, GoesOn, Inv, TypeInv
  <2> QED BY <1>1, <1>2, <2>1 DEF LocalStep, Frame, TypeInv, M
<1>3. ASSUME NEW fs \in Devfs, NEW name \in Name, RegisterDevice(fs, name) PROVE TypeInv'
  <2>1. calls' \in 0 .. MaxCalls
    BY <1>3, VirtualFileSystemAssumption DEF RegisterDevice, Inv, TypeInv
  <2>2. UNCHANGED <<pc, req, node, rest, result>>
    BY <1>3 DEF RegisterDevice
  <2> QED BY <1>1, <2>1, <2>2 DEF Inv, TypeInv, M
<1>4. CASE UNCHANGED vars
  BY <1>1, <1>4 DEF vars, locals, tables, Inv, TypeInv
<1> QED BY <1>2, <1>3, <1>4, Steps

LEMMA InitInv == Init => Inv
<1> SUFFICES ASSUME Init PROVE Inv
  OBVIOUS
<1>1. \A fs \in FileSystem : Root(fs) \in Node /\ Root(fs).fs = fs /\ Root(fs).id = 0
  BY VirtualFileSystemAssumption DEF Root, Node
<1>2. DOMAIN dirs = {Root(fs) : fs \in FileSystem} /\ \A d \in DOMAIN dirs : dirs[d] = EmptyTree(d.fs)
  BY DEF Init
<1>3. ASSUME NEW d \in DOMAIN dirs
      PROVE  /\ d \in Node /\ d = Root(d.fs) /\ d.fs \in FileSystem /\ d.id = 0
             /\ dirs[d] \in Seq([name : Token, node : Node]) /\ Len(dirs[d]) = 2
             /\ dirs[d][1] = Link(CURRENT, d) /\ dirs[d][2] = Link(PARENT, d)
  <2>1. d \in Node /\ d = Root(d.fs) /\ d.fs \in FileSystem /\ d.id = 0
    BY <1>1, <1>2
  <2>2. Link(CURRENT, d) \in [name : Token, node : Node] /\ Link(PARENT, d) \in [name : Token, node : Node]
    BY <2>1 DEF Link, Token
  <2>3. dirs[d] = <<Link(CURRENT, d), Link(PARENT, d)>>
    BY <1>2, <2>1 DEF EmptyTree
  <2>4. dirs[d] \in Seq([name : Token, node : Node])
    BY <2>2, <2>3
  <2>5. Len(dirs[d]) = 2 /\ dirs[d][1] = Link(CURRENT, d) /\ dirs[d][2] = Link(PARENT, d)
    BY <2>3
  <2> QED BY <2>1, <2>4, <2>5
<1>4. TypeInv
  <2>1. mounts \in Seq([point : Node, subtree : Tmpfs \cup Devfs])
    BY DEF Init
  <2>2. DOMAIN dirs \subseteq Node /\ dirs \in [DOMAIN dirs -> Seq([name : Token, node : Node])]
    <3>1. dirs = [d \in DOMAIN dirs |-> dirs[d]]
      BY DEF Init
    <3> QED BY <1>3, <3>1
  <2>3. files \subseteq Node /\ counter \in [FileSystem -> Nat] /\ calls \in 0 .. MaxCalls
    BY VirtualFileSystemAssumption DEF Init
  <2>4. pc \in [Task -> Position] /\ req \in [Task -> Request \cup {NoRequest}]
    BY DEF Init, Position
  <2>5. node \in [Task -> Node] /\ rest \in [Task -> Seq(Token)] /\ result \in [Task -> Node \cup {Ok, Err}]
    BY RootType DEF Init
  <2> QED BY <2>1, <2>2, <2>3, <2>4, <2>5 DEF TypeInv
<1>5. CountInv
  <2>1. Active = {}
    BY DEF Init, Active
  <2> QED BY <2>1, FS_EmptySet DEF Init, CountInv
<1>6. NodeInv
  <2>1. ASSUME NEW n \in Existing PROVE n.id < counter[n.fs]
    <3>1. n \in DOMAIN dirs
      BY DEF Existing, Init
    <3>2. n.fs \in FileSystem /\ n.id = 0
      BY <1>3, <3>1
    <3> QED BY <3>2 DEF Init
  <2>2. ASSUME NEW d \in DOMAIN dirs, NEW i \in DOMAIN dirs[d]
        PROVE  dirs[d][i].node \in Existing /\ dirs[d][i].node.fs = d.fs
    <3>1. DOMAIN dirs[d] = 1 .. 2
      BY <1>3
    <3>2. i = 1 \/ i = 2
      BY <3>1
    <3>3. dirs[d][1] = Link(CURRENT, d) /\ dirs[d][2] = Link(PARENT, d)
      BY <1>3
    <3>4. dirs[d][i].node = d
      BY <3>2, <3>3 DEF Link
    <3> QED BY <3>4 DEF Existing
  <2> QED BY <1>2, <2>1, <2>2 DEF NodeInv
<1>7. TreeInv
  <2> SUFFICES ASSUME NEW d \in DOMAIN dirs
               PROVE  /\ 2 <= Len(dirs[d])
                      /\ dirs[d][1] = Link(CURRENT, d)
                      /\ dirs[d][2].name = PARENT /\ dirs[d][2].node \in DOMAIN dirs
                      /\ d = Root(d.fs) /\ dirs[d][2].node = d
    BY DEF TreeInv
  <2>1. dirs[d][2] = Link(PARENT, d)
    BY <1>3
  <2>2. dirs[d][2].name = PARENT /\ dirs[d][2].node = d
    BY <2>1 DEF Link
  <2>3. 2 <= Len(dirs[d]) /\ dirs[d][1] = Link(CURRENT, d) /\ d = Root(d.fs)
    BY <1>3
  <2> QED BY <2>2, <2>3
<1>8. AgeInv
  <2>1. ASSUME NEW d \in DOMAIN dirs PROVE 3 .. Len(dirs[d]) = {}
    <3>1. Len(dirs[d]) = 2
      BY <1>3
    <3> QED BY <3>1
  <2> QED BY <2>1 DEF AgeInv, Entries
<1>9. MountInv
  BY DEF Init, MountInv
<1>10. CallInv
  <2>1. RootFs \in FileSystem
    BY DEF FileSystem
  <2> QED BY <1>1, <1>2, <2>1 DEF Init, CallInv, CallOk, Existing, MountedFs, NoRequest
<1> QED BY <1>4, <1>5, <1>6, <1>7, <1>8, <1>9, <1>10 DEF Inv

\* The invariant is inductive.
THEOREM InvariantHolds == Spec => []Inv
<1>1. Inv /\ [Next]_vars => Inv'
  BY TypeNext, CountNext, NodeNext, TreeNext, AgeNext, MountNext, CallNext DEF Inv
<1> QED BY InitInv, <1>1, PTL DEF Spec

-------------------------------------------------------------------------------
(***************************************************************************)
(* The properties.                                                         *)
(***************************************************************************)
\* The tables and the locals of the calls of FileManager and VirtualFileSystem
\* keep their types: node_counter never hands out more numbers than there were
\* calls.
THEOREM TypeCorrect == Spec => []TypeOK
<1>1. Inv => TypeOK
  <2> SUFFICES ASSUME Inv PROVE TypeOK
    OBVIOUS
  <2>1. \A i \in DOMAIN mounts : mounts[i].point \in Node /\ mounts[i].subtree \in Tmpfs \cup Devfs
    BY MountType DEF Inv
  <2>2. ASSUME NEW d \in DOMAIN dirs, NEW i \in DOMAIN dirs[d]
        PROVE  dirs[d][i].node \in Node /\ dirs[d][i].name \in Name \cup {CURRENT, PARENT}
    <3> DEFINE L == [name : Token, node : Node]
    <3>1. dirs[d][i] \in L
      <4> HIDE DEF L
      <4>1. dirs[d] \in Seq(L)
        BY DEF Inv, TypeInv, L
      <4> QED BY <4>1
    <3> QED BY <3>1 DEF Token
  <2>3. counter \in [FileSystem -> 1 .. MaxCalls + 1]
    <3>1. Cardinality(Active) \in Nat
      BY FS_CardinalityType DEF Inv, CountInv
    <3> QED BY <3>1, VirtualFileSystemAssumption DEF Inv, CountInv, TypeInv
  <2> QED BY <2>1, <2>2, <2>3 DEF Inv, TypeInv, TypeOK, Token
<1> QED BY InvariantHolds, <1>1, PTL

\* The links that Tmpfs and Devfs make stay trees, whatever calls of mkdir, mknod
\* and register_character_device interleave: every entry exists and is younger than
\* its directory, no node is in two directories, and ".." leads to the one it is in.
THEOREM TreesStayWellFormed == Spec => []TreesWellFormed
<1>1. Inv => TreesWellFormed
  <2> SUFFICES ASSUME Inv, NEW d \in DOMAIN dirs
               PROVE  /\ dirs[d][1] = Link(CURRENT, d)
                      /\ dirs[d][2].name = PARENT
                      /\ IF d = Root(d.fs) THEN dirs[d][2].node = d
                         ELSE d \in Entries(dirs[dirs[d][2].node])
                      /\ \A n \in Entries(dirs[d]) :
                           /\ n \in Existing /\ n.fs = d.fs /\ n.id > d.id
                           /\ \A e \in DOMAIN dirs : n \in Entries(dirs[e]) => e = d
    BY DEF TreesWellFormed, Existing
  <2>1. dirs[d] \in Seq([name : Token, node : Node])
    BY DEF Inv, TypeInv
  <2>2. \A i \in 3 .. Len(dirs[d]) : i \in DOMAIN dirs[d]
    BY <2>1
  <2>3. \A n \in Entries(dirs[d]) : n \in Existing /\ n.fs = d.fs
    BY <2>2 DEF Inv, NodeInv, Entries
  <2> QED BY <2>3 DEF Inv, TreeInv, AgeInv
<1> QED BY InvariantHolds, <1>1, PTL

\* resolve_subtree and resolve_mount_point terminate, also when several tasks
\* mount at the same time.
THEOREM ResolutionAlwaysTerminates == Spec => []ResolutionTerminates
<1>1. Inv => ResolutionTerminates
  BY ResolveSubtreeEnds, ResolveMountPointEnds DEF Inv, TypeInv, ResolutionTerminates
<1> QED BY InvariantHolds, <1>1, PTL

\* A name, once looked up, keeps meaning the same node: mkdir and mknod only push
\* links, and walk takes the first that matches.
THEOREM NamesStayStable == Spec => NamesStable
<1> DEFINE Stable ==
      \A d \in DOMAIN dirs : \A i \in DOMAIN dirs[d] :
        LET old == dirs[d][First(Matches(d, dirs[d][i].name))]
            same == {j \in DOMAIN dirs'[d] : dirs'[d][j].name = old.name}
        IN  dirs'[d][First(same)] = old
<1>1. Inv /\ Inv' /\ [Next]_vars => [Stable]_vars
  <2> SUFFICES ASSUME Inv, Inv', [Next]_vars, NEW d \in DOMAIN dirs, NEW i \in DOMAIN dirs[d],
                      NEW k, k = First(Matches(d, dirs[d][i].name)),
                      NEW same, same = {j \in DOMAIN dirs'[d] : dirs'[d][j].name = dirs[d][k].name}
               PROVE  dirs'[d][First(same)] = dirs[d][k]
    OBVIOUS
  <2>1. /\ d \in DOMAIN dirs'
        /\ \A j \in DOMAIN dirs[d] : j \in DOMAIN dirs'[d] /\ dirs'[d][j] = dirs[d][j]
    <3>1. ASSUME NEW x \in Node, NEW name \in Name, NodeMade(x, name)
          PROVE  /\ d \in DOMAIN dirs'
                 /\ \A j \in DOMAIN dirs[d] : j \in DOMAIN dirs'[d] /\ dirs'[d][j] = dirs[d][j]
      BY <3>1, NextNodeIsNew, LinkStep DEF Inv
    <3> QED BY <3>1, TableStep DEF tables, MountMade
  <2>2. dirs[d] \in Seq([name : Token, node : Node]) /\ dirs'[d] \in Seq([name : Token, node : Node])
    BY <2>1 DEF Inv, TypeInv
  <2>3. DOMAIN dirs[d] = 1 .. Len(dirs[d]) /\ DOMAIN dirs'[d] = 1 .. Len(dirs'[d])
        /\ Len(dirs[d]) \in Nat /\ Len(dirs'[d]) \in Nat
    BY <2>2
  <2>4. k \in DOMAIN dirs[d] /\ dirs[d][k].name = dirs[d][i].name
        /\ \A j \in DOMAIN dirs[d] : dirs[d][j].name = dirs[d][i].name => k <= j
    <3>1. Matches(d, dirs[d][i].name) \subseteq Nat /\ i \in Matches(d, dirs[d][i].name)
      BY <2>3 DEF Matches
    <3>2. k \in Matches(d, dirs[d][i].name) /\ \A j \in Matches(d, dirs[d][i].name) : k <= j
      BY <3>1, FirstIsLeast
    <3> QED BY <3>2 DEF Matches
  <2>5. same \subseteq Nat /\ k \in same
    BY <2>1, <2>3, <2>4
  <2>6. First(same) \in same /\ First(same) <= k
    BY <2>5, FirstIsLeast
  <2>7. First(same) \in DOMAIN dirs[d]
    BY <2>3, <2>4, <2>5, <2>6
  <2>8. k <= First(same)
    BY <2>1, <2>4, <2>6, <2>7
  <2>9. First(same) = k
    BY <2>3, <2>4, <2>6, <2>7, <2>8
  <2> QED BY <2>1, <2>4, <2>9
<1> QED BY <1>1, InvariantHolds, PTL DEF Spec, NamesStable

\* When one task only mounts, as kernel_init does, nothing is mounted on the mount
\* point that mount() has resolved before it takes the lock again.
THEOREM MountPointsDistinct ==
  ASSUME OneMounter PROVE Spec => []PointInv
<1>1. Init => PointInv
  BY DEF Init, PointInv
<1>2. ASSUME Inv, PointInv, [Next]_vars PROVE PointInv'
  <2>1. CASE UNCHANGED vars
    BY <1>2, <2>1 DEF vars, tables, locals, PointInv, MountedOn
  <2>2. ASSUME NEW fs \in Devfs, NEW name \in Name, RegisterDevice(fs, name) PROVE PointInv'
    BY <1>2, <2>2 DEF RegisterDevice, PointInv, MountedOn
  <2>3. ASSUME NEW t \in Task, LocalStep(t), UNCHANGED mounts PROVE PointInv'
    <3>1. ASSUME NEW s \in Task, pc'[s] = "mount" PROVE MountedOn(node'[s]) = {}
      <4>1. CASE s # t
        BY <1>2, <2>3, <3>1, <4>1 DEF LocalStep, Frame, UnchangedCall, PointInv
      <4>2. CASE s = t
        BY <2>3, <3>1, <4>2 DEF LocalStep, Begins, Returns, GoesOn
      <4> QED BY <4>1, <4>2
    <3> QED BY <1>2, <2>3, <3>1 DEF PointInv, MountedOn
  <2>4. ASSUME NEW t \in Task, pc[t] = "mount", MountMade(t), Return(t, Ok) PROVE PointInv'
    <3> DEFINE new == [point |-> node[t], subtree |-> req[t].fs]
               L == Len(mounts)
    <3>1. L \in Nat /\ DOMAIN mounts = 1 .. L /\ new \in [point : Node, subtree : Tmpfs \cup Devfs]
      BY <1>2, <2>4 DEF Inv, TypeInv, MountMade
    <3>2. /\ DOMAIN mounts' = 1 .. L + 1 /\ mounts'[L + 1] = new
          /\ \A i \in 1 .. L : mounts'[i] = mounts[i]
      BY <1>2, <2>4, <3>1 DEF MountMade, Inv, TypeInv
    <3>3. \A i \in 1 .. L : mounts[i].point # new.point
      BY <1>2, <2>4, <3>1 DEF PointInv, MountedOn
    <3>4. \A i, j \in 1 .. L : mounts[j].point = mounts[i].point => i = j
      BY <1>2, <3>1 DEF PointInv
    <3> HIDE DEF new, L
    <3>5. \A i \in 1 .. L + 1 : i \in 1 .. L \/ i = L + 1
      BY <3>1
    <3>6. \A i, j \in 1 .. L + 1 : mounts'[j].point = mounts'[i].point => i = j
      BY <3>2, <3>3, <3>4, <3>5
    <3>7. ASSUME NEW s \in Task PROVE pc'[s] # "mount"
      <4>1. CASE s = t
        BY <2>4, <1>2, <4>1 DEF Return, Inv, TypeInv
      <4>2. CASE s # t
        <5>1. pc'[s] = pc[s]
          BY <1>2, <2>4, <4>2 DEF Return, Inv, TypeInv
        <5>2. pc[s] = "mount" => s \in Mounters
          BY <1>2 DEF Inv, CallInv, CallOk
        <5>3. t \in Mounters
          BY <1>2, <2>4 DEF Inv, CallInv, CallOk
        <5> QED BY <1>2, <4>2, <5>1, <5>2, <5>3 DEF OneMounter
      <4> QED BY <4>1, <4>2
    <3> QED BY <3>2, <3>6, <3>7 DEF PointInv
  <2>5. ASSUME NEW t \in Task, LocalStep(t) PROVE PointInv'
    <3>1. UNCHANGED mounts \/ \E s \in Task : pc[s] = "mount" /\ MountMade(s) /\ Return(s, Ok)
      BY <1>2, TableStep DEF tables, NodeMade
    <3> QED BY <2>3, <2>4, <2>5, <3>1
  <2> QED BY <1>2, <2>1, <2>2, <2>5, Steps
<1>3. Inv /\ PointInv /\ [Next]_vars => PointInv'
  BY <1>2
<1> QED BY InvariantHolds, <1>1, <1>3, PTL DEF Spec

\* With one task that mounts, "if B is mounted on A, then A is the lowest mount
\* point for either" and "B is the highest subtree for either".
THEOREM MountEndsAlwaysAgree ==
  ASSUME OneMounter PROVE Spec => []MountEndsAgree
<1>1. Inv /\ PointInv => MountEndsAgree
  <2> SUFFICES ASSUME Inv, PointInv, NEW i \in DOMAIN mounts
               PROVE  /\ ResolveMountPoint(Root(mounts[i].subtree)) = ResolveMountPoint(mounts[i].point)
                      /\ ResolveSubtree(Root(mounts[i].subtree)) = ResolveSubtree(mounts[i].point)
    BY DEF MountEndsAgree
  <2>1. mounts[i].point \in Node /\ Root(mounts[i].subtree) \in Node
    BY MountType DEF Inv
  <2>2. Up(mounts[i].point) = Root(mounts[i].subtree)
    <3>1. MountedOn(mounts[i].point) = {i}
      BY DEF PointInv, MountedOn
    <3> QED BY <3>1, UpStep DEF Inv
  <2>3. Down(Root(mounts[i].subtree)) = mounts[i].point
    <3> DEFINE r == Root(mounts[i].subtree)
    <3>1. r.fs = mounts[i].subtree /\ r = Root(r.fs) /\ i \in MountsOf(r.fs)
      BY DEF Root, MountsOf
    <3> HIDE DEF r
    <3>2. \E j \in DOMAIN mounts : mounts[j].subtree = r.fs /\ Down(r) = mounts[j].point
      BY <3>1, DownStep DEF Inv
    <3>3. \A j \in DOMAIN mounts : mounts[j].subtree = mounts[i].subtree => i = j
      BY DEF Inv, MountInv
    <3> QED BY <3>1, <3>2, <3>3 DEF r
  <2>4. ResolveSubtree(Root(mounts[i].subtree)) = ResolveSubtree(mounts[i].point)
    BY <2>1, <2>2, ResolveSubtreeEnds DEF Inv
  <2>5. ResolveMountPoint(Root(mounts[i].subtree)) = ResolveMountPoint(mounts[i].point)
    BY <2>1, <2>3, ResolveMountPointEnds DEF Inv
  <2> QED BY <2>4, <2>5
<1> QED BY InvariantHolds, MountPointsDistinct, <1>1, PTL
===============================================================================
