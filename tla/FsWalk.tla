------------------------------- MODULE FsWalk -------------------------------
(***************************************************************************)
(* fs.walk and fs.rmdir (fs.lua) on a file system with symbolic links,     *)
(* other devices, and other processes that make and delete files.  Each    *)
(* call of fs.c (inode, dir, stat, rm) is a step.                          *)
(*                                                                         *)
(* A node is a file, a directory or a link together with its only name; a  *)
(* link leads to a node, or nowhere.  A path is the sequence of the nodes  *)
(* whose names it is made of.                                              *)
(***************************************************************************)
EXTENDS Naturals, SequencesExt

CONSTANTS
  Top, Root,      \* the current directory; the one walked, given by its name
  Dir, File, Link,
  Rank,           \* node |-> rank of its name
  Nothing,        \* where a dangling link leads
  Trees,          \* file systems: [parent, target, dev]
  Fresh, Doomed   \* nodes made or deleted by other processes

Node == Dir \cup File \cup Link

ASSUME WalkAssumption ==
  /\ {Top, Root} \subseteq Dir /\ Root # Top /\ Nothing \notin Node
  /\ Dir \cap File = {} /\ Dir \cap Link = {} /\ File \cap Link = {}
  /\ Rank \in [Node -> Nat] /\ IsInjective(Rank)
  /\ \A t \in Trees :
       /\ t.parent \in [Node \ {Top} -> Dir] /\ t.parent[Root] = Top
       /\ t.target \in [Link -> Dir \cup File \cup {Nothing}]
       /\ Node = DOMAIN t.dev
  /\ Fresh \subseteq File /\ Doomed \subseteq File

VARIABLES
  tree,        \* the file system; it does not change, but for
  live,        \* the nodes that exist
  op, cross,   \* "walk" or "rmdir"; the option cross
  pc,          \* call the walk is going to make, "rm" or "end"
  dirs,        \* stack of directories to visit
  dir, names,  \* directory being visited, and its names not yet looked at
  devs, seen,  \* devices and inodes seen
  acc_files, acc_dirs,
  list,        \* the list returned by walk; rmdir removes its elements
  result,      \* what rmdir returns
  walks        \* observer: node |-> how many times it has been listed

fs   == <<tree, live>>
vars == <<tree, live, op, cross, pc, dirs, dir, names, devs, seen,
          acc_files, acc_dirs, list, result, walks>>

-----------------------------------------------------------------------------
(* System calls. *)

Children(d) == {n \in live \ {Top} : tree.parent[n] = d}

\* What an entry leads to.
Followed(n) == IF n \in Link THEN tree.target[n] ELSE n

\* The directory the i-th name of a path is looked for in.
Where(path, i) == IF i = 1 THEN Top ELSE Followed(path[i - 1])

\* Each name is found there, and leads to something.
Resolved(path) ==
  \A i \in DOMAIN path : /\ tree.parent[path[i]] = Where(path, i)
                        /\ {path[i], Followed(path[i])} \subseteq live

\* The node a path leads to, if it leads somewhere.
stat(path) == IF Resolved(path) THEN Where(path, Len(path) + 1) ELSE Nothing

\* The entry a path names, a link or not, can be removed.
Removable(path) ==
  LET n == Last(path)
  IN  n \in Children(stat(Front(path))) /\ (n \in Dir => Children(n) = {})

\* Mutation: the names are not those of the directory a link leads to.
fs_dir_NoLink(path) == Children(Last(path))

\* fs.dir.
fs_dir(path) == Children(stat(path))

-----------------------------------------------------------------------------
(* fs.walk *)

Init ==
  /\ tree \in Trees
  /\ live = Node \ Fresh
  /\ op \in {"walk", "rmdir"} /\ cross \in BOOLEAN
  /\ op = "rmdir" => ~cross
  /\ pc = "inode"
  /\ dirs = <<<<Root>>>> /\ dir = <<>> /\ names = {}
  /\ devs = {} /\ seen = {}
  /\ acc_files = <<>> /\ acc_dirs = <<>> /\ list = <<>>
  /\ result = FALSE
  /\ walks = [n \in Dir |-> 0]

\* already_seen, when it is true: the directory cannot be found, is on another
\* device, or its inode is known...
already_seen(n) ==
  /\ \/ n = Nothing
     \/ tree.dev[n] # tree.dev[Root] /\ ~cross
     \/ tree.dev[n] \in devs /\ n \in seen
  /\ UNCHANGED <<devs, seen>>

\* Mutation: inodes are never recorded.
first_seen_Always(n) ==
  /\ n # Nothing
  /\ tree.dev[n] = tree.dev[Root] \/ cross
  /\ devs' = devs \cup {tree.dev[n]} /\ UNCHANGED seen

\* ... and when it is false: the first directory of a device marks the device,
\* but not its own inode.
first_seen(n) ==
  /\ n # Nothing
  /\ tree.dev[n] = tree.dev[Root] \/ cross
  /\ \/ /\ tree.dev[n] \notin devs
        /\ devs' = devs \cup {tree.dev[n]} /\ UNCHANGED seen
     \/ /\ tree.dev[n] \in devs /\ n \notin seen
        /\ seen' = seen \cup {n} /\ UNCHANGED devs

\* Mutation: the directory stays on the stack.
Inode_Peek ==
  /\ pc = "inode" /\ dirs # <<>>
  /\ \/ already_seen(stat(Last(dirs))) /\ UNCHANGED <<pc, dir, dirs>>
     \/ first_seen(stat(Last(dirs))) /\ pc' = "dir" /\ dir' = Last(dirs)
        /\ UNCHANGED dirs
  /\ UNCHANGED <<fs, op, cross, names, acc_files, acc_dirs, list, result, walks>>

\* The next directory leaves the stack; it is visited unless already seen.
Inode ==
  /\ pc = "inode" /\ dirs # <<>>
  /\ dirs' = Front(dirs)
  /\ \/ already_seen(stat(Last(dirs))) /\ UNCHANGED <<pc, dir>>
     \/ first_seen(stat(Last(dirs))) /\ pc' = "dir" /\ dir' = Last(dirs)
  /\ UNCHANGED <<fs, op, cross, names, acc_files, acc_dirs, list, result, walks>>

\* It is listed; it may have no name, or no longer exist.
ListDir ==
  /\ pc = "dir"
  /\ names' = fs_dir(dir)
  /\ pc' = IF names' = {} THEN "inode" ELSE "stat"
  /\ walks' = [n \in Dir |-> walks[n] + IF stat(dir) = n THEN 1 ELSE 0]
  /\ UNCHANGED <<fs, op, cross, dirs, dir, devs, seen, acc_files, acc_dirs,
                 list, result>>

\* Each name is looked at, through links, in the order of table.sort.
Stat(n) ==
  /\ pc = "stat"
  /\ n \in names /\ \A m \in names : Rank[n] <= Rank[m]
  /\ names' = names \ {n}
  /\ pc' = IF names' = {} THEN "inode" ELSE "stat"
  /\ LET name == Append(dir, n) IN
     \/ /\ stat(name) \in Dir
        /\ dirs' = Append(dirs, name) /\ acc_dirs' = Append(acc_dirs, name)
        /\ UNCHANGED acc_files
     \/ /\ stat(name) \in File
        /\ acc_files' = Append(acc_files, name) /\ UNCHANGED <<dirs, acc_dirs>>
     \/ /\ stat(name) = Nothing
        /\ UNCHANGED <<dirs, acc_dirs, acc_files>>
  /\ UNCHANGED <<fs, op, cross, dir, devs, seen, list, result, walks>>

\* Mutation: the option reverse is ignored.
EndOfWalk_Forward ==
  /\ pc = "inode" /\ dirs = <<>>
  /\ list' = acc_dirs \o acc_files
  /\ pc' = IF op = "walk" THEN "end" ELSE "rm"
  /\ UNCHANGED <<fs, op, cross, dirs, dir, names, devs, seen, acc_files,
                 acc_dirs, result, walks>>

\* rmdir walks with the option reverse.
EndOfWalk ==
  /\ pc = "inode" /\ dirs = <<>>
  /\ \/ op = "walk" /\ list' = acc_dirs \o acc_files /\ pc' = "end"
     \/ op = "rmdir" /\ list' = acc_files \o Reverse(acc_dirs) /\ pc' = "rm"
  /\ UNCHANGED <<fs, op, cross, dirs, dir, names, devs, seen, acc_files,
                 acc_dirs, result, walks>>

-----------------------------------------------------------------------------
(* fs.rmdir *)

fs_remove(path) ==
  /\ live' = IF Removable(path) THEN live \ {Last(path)} ELSE live
  /\ UNCHANGED tree

\* Nobody looks at the result of these calls...
RemoveNext ==
  /\ pc = "rm" /\ list # <<>>
  /\ fs_remove(Head(list))
  /\ list' = Tail(list)
  /\ UNCHANGED <<op, cross, pc, dirs, dir, names, devs, seen, acc_files,
                 acc_dirs, result, walks>>

\* ... and the one of the last call is returned.
RemoveRoot ==
  /\ pc = "rm" /\ list = <<>>
  /\ fs_remove(<<Root>>)
  /\ result' = Removable(<<Root>>)
  /\ pc' = "end"
  /\ UNCHANGED <<op, cross, dirs, dir, names, devs, seen, acc_files, acc_dirs,
                 list, walks>>

-----------------------------------------------------------------------------

\* Other processes make and delete files.
Make(n) ==
  /\ n \in Fresh \ live /\ tree.parent[n] \in live
  /\ pc # "end"
  /\ live' = live \cup {n}
  /\ UNCHANGED <<tree, op, cross, pc, dirs, dir, names, devs, seen, acc_files,
                 acc_dirs, list, result, walks>>

Delete(n) ==
  /\ n \in Doomed \cap live
  /\ pc # "end"
  /\ live' = live \ {n}
  /\ UNCHANGED <<tree, op, cross, pc, dirs, dir, names, devs, seen, acc_files,
                 acc_dirs, list, result, walks>>

Step == \/ Inode \/ ListDir \/ (\E n \in Node : Stat(n)) \/ EndOfWalk
        \/ RemoveNext \/ RemoveRoot

Next == Step \/ \E n \in Node : Make(n) \/ Delete(n)

Spec == Init /\ [][Next]_vars /\ WF_vars(Step)

-----------------------------------------------------------------------------
(* Properties. *)

\* The directories that are in every closed set that contains Root.
FromRoot(IsClosed(_)) ==
  {d \in Dir : \A D \in SUBSET Dir : Root \in D /\ IsClosed(D) => d \in D}

\* The directories a walk must visit when only the nodes of S exist: those
\* reached from Root through directories and links, on its device unless cross
\* is given.
Visited(S) ==
  FromRoot(LAMBDA D :
    \A n \in S \ {Top} :
      /\ tree.parent[n] \in D /\ Followed(n) \in Dir \cap S
      /\ cross \/ tree.dev[Followed(n)] = tree.dev[Root]
      => Followed(n) \in D)

\* The entries of these directories, but the dangling links.
Found(S) ==
  LET D == Visited(S)
  IN  {n \in S \ {Top} : tree.parent[n] \in D /\ Followed(n) \in S}

\* What the directory Root contains, and itself.
Content ==
  LET D == FromRoot(LAMBDA E : \A d \in Dir \ {Top} : tree.parent[d] \in E => d \in E)
  IN  {Root} \cup {n \in Node \ {Top} : tree.parent[n] \in D}

\* walk finds every entry that exists all the time, through links and whatever
\* the cycles they make, and nothing that never exists.
WalkIsComplete ==
  pc = "end" /\ op = "walk" =>
    LET found == {Last(path) : path \in ToSet(list)}
    IN  /\ Found((Node \ Fresh) \ Doomed) \subseteq found
        /\ found \subseteq Found(Node)

\* No directory is listed twice, even when links lead to it, except the first
\* one of each device, which may be listed once more.
WalkedOnce ==
  \A d \in Dir :
    /\ walks[d] <= 2
    /\ walks[d] = 2 /\ tree.dev[d] = tree.dev[Root] => d = Root

\* A walk ends, though links may lead back to the directories they are in.
WalkEnds == <>(pc = "end")

\* rmdir "deletes the directory `path` and its content recursively": when it
\* ends, nothing is left there and nothing else is missing, unless another
\* process has made a file there that is not removed.
RmdirIsExact ==
  pc = "end" /\ op = "rmdir" /\ live \cap Fresh = {} =>
    live \ Doomed = Node \ (Content \cup Fresh \cup Doomed)

\* A directory without surprise: its links lead to files that stay, it is all on
\* one device, and no file comes and goes.
PlainTree ==
  /\ \A n \in Link \cap Content : tree.target[n] \in File \ (Fresh \cup Doomed)
  /\ \A d \in Dir \cap Content : tree.dev[d] = tree.dev[Root]
  /\ Fresh \cap Doomed = {}

\* rmdir is exact in such a directory, whatever the other processes make and
\* delete meanwhile.
PlainRmdirIsExact == PlainTree => RmdirIsExact
=============================================================================
