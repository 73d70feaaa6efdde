----------------------------- MODULE FileSystem -----------------------------
(***************************************************************************)
(* The file system's names and inodes: the inode table, directories and    *)
(* path lookup of kernel/fs.c and the calls of kernel/sysfile.c that use   *)
(* them, by several processes and across crashes.                          *)
(*                                                                         *)
(* "dinode" is the disk as the buffer cache and the log show it, "durable" *)
(* what a crash leaves: a transaction group is committed as a whole when   *)
(* the last operation in it calls end_op() (shown for the log itself in    *)
(* LogProofs).  A step takes one sleep lock, or one critical section       *)
(* of itable.lock, with what the process does before it next waits; in     *)
(* between, pc[p] is the stack of what is left to do.  What a file holds   *)
(* is left to module FileData; a directory is its sequence of dirents.     *)
(***************************************************************************)
EXTENDS Integers, Sequences, FiniteSets, FiniteSetsExt

CONSTANTS
  Procs, InitProc, NoProc,
  NINODES,        \* sb.ninodes - 1: inodes are 1..NINODES, the root is 1
  NINODE,         \* entries of the inode table
  NLINK_MAX,
  MaxEnts,        \* dirents a directory has room for when the disk is full
  Scenarios,      \* names of pairs of a disk and calls; for each of them:
  Image,          \*   the disk mkfs made
  Calls,          \*   the calls processes make: records [op, path, new]
  MaxCalls, MaxCrash  \* bounds: calls, exits and closes; crashes

ASSUME FsAssumption ==
  /\ InitProc \in Procs /\ NoProc \notin Procs
  /\ {NINODES, NINODE, NLINK_MAX, MaxEnts} \subseteq Nat \ {0}
  /\ {MaxCalls, MaxCrash} \subseteq [Scenarios -> Nat]

VARIABLES scenario, dinode, durable, it, pc, loc, cwd, ofile, booted, panicked, crashes, calls

vars == <<scenario, dinode, durable, it, pc, loc, cwd, ofile, booted, panicked, crashes, calls>>

Inums == 1..NINODES
Slots == 1..NINODE
ROOTINO == 1
Free == [type |-> "none", nlink |-> 0, ents |-> <<>>]
dirent(name, inum) == [name |-> name, inum |-> inum]
NoLoc == [op |-> "", path |-> <<>>, par |-> FALSE, new |-> <<>>, name |-> "",
          ip |-> 0, dp |-> 0, put |-> 0, inum |-> 0, scanned |-> 0]

iinit == [s \in Slots |->
           [inum |-> IF s = 1 THEN ROOTINO ELSE 0, ref |-> IF s = 1 THEN 1 ELSE 0,
            valid |-> FALSE, type |-> "none", nlink |-> 0, lock |-> NoProc]]

\* userinit(): the first process, in the root; it runs fsinit().
Boot ==
  /\ it' = iinit
  /\ pc' = [p \in Procs |-> IF p = InitProc THEN <<"ireclaim">> ELSE <<>>]
  /\ loc' = [p \in Procs |-> NoLoc]
  /\ cwd' = [p \in Procs |-> IF p = InitProc THEN 1 ELSE 0]
  /\ ofile' = [p \in Procs |-> 0]
  /\ booted' = FALSE

Init ==
  /\ scenario \in Scenarios /\ dinode = Image[scenario] /\ durable = Image[scenario]
  /\ it = iinit
  /\ pc = [p \in Procs |-> IF p = InitProc THEN <<"ireclaim">> ELSE <<>>]
  /\ loc = [p \in Procs |-> NoLoc]
  /\ cwd = [p \in Procs |-> IF p = InitProc THEN 1 ELSE 0]
  /\ ofile = [p \in Procs |-> 0]
  /\ booted = FALSE /\ panicked = "" /\ crashes = 0 /\ calls = 0

-----------------------------------------------------------------------------
(* The inode table and directories, as operators on t (the table) and d    *)
(* (the disk).                                                             *)

SlotsOf(t, inum) == {s \in Slots : t[s].ref > 0 /\ t[s].inum = inum}
Empty(t) == {s \in Slots : t[s].ref = 0}
CanGet(t, inum) == SlotsOf(t, inum) \cup Empty(t) # {}
\* The entry iget() returns, and the table after it.
igot(t, inum) == IF SlotsOf(t, inum) # {} THEN Min(SlotsOf(t, inum)) ELSE Min(Empty(t))
iget(t, inum) ==
  IF SlotsOf(t, inum) # {}
  THEN [t EXCEPT ![igot(t, inum)].ref = @ + 1]
  ELSE [t EXCEPT ![igot(t, inum)].inum = inum, ![igot(t, inum)].ref = 1,
                 ![igot(t, inum)].valid = FALSE]

idup(t, s) == [t EXCEPT ![s].ref = @ + 1]

\* ilock() once the sleep lock is free: read the inode if it is not valid.
Lockable(s) == it[s].lock = NoProc
ilock(t, s, p) ==
  IF t[s].valid
  THEN [t EXCEPT ![s].lock = p]
  ELSE LET di == dinode[t[s].inum]
       IN  [t EXCEPT ![s].lock = p, ![s].valid = TRUE, ![s].type = di.type, ![s].nlink = di.nlink]
NoType(t, s) == t[s].type = "none"
iunlock(t, s) == [t EXCEPT ![s].lock = NoProc]

iupdate(d, t, s) ==
  [d EXCEPT ![t[s].inum].type = t[s].type, ![t[s].inum].nlink = t[s].nlink]

SetNlink(t, s, n) == [t EXCEPT ![s].nlink = n]

\* Inode numbers ialloc() may take: the first one free.
ialloc(d) == {i \in Inums : d[i].type = "none" /\ \A j \in 1..(i - 1) : d[j].type # "none"}

Offsets(ents, name) == {k \in DOMAIN ents : ents[k].inum # 0 /\ ents[k].name = name}
dirlookup(ents, name) == IF Offsets(ents, name) = {} THEN 0 ELSE ents[Min(Offsets(ents, name))].inum

\* dirlink() with a new name: the first empty dirent, else one more at the end,
\* for which there may be no block.
Holes(ents) == {k \in DOMAIN ents : ents[k].inum = 0}
CanLink(ents) == Holes(ents) # {} \/ Len(ents) < MaxEnts
dirlink(ents, name, inum) ==
  IF Holes(ents) # {} THEN [ents EXCEPT ![Min(Holes(ents))] = dirent(name, inum)]
                      ELSE Append(ents, dirent(name, inum))

isdirempty(ents) == \A k \in 3..Len(ents) : ents[k].inum = 0

-----------------------------------------------------------------------------
(* A step of p: k replaces the top of its stack, l are its local variables,*)
(* t and d the table and the disk.                                         *)

Top(p) == IF pc[p] = <<>> THEN "" ELSE Head(pc[p])
At(p, label) == Top(p) = label /\ panicked = ""
Do(p, k, l, t, d) ==
  /\ pc' = [pc EXCEPT ![p] = k \o Tail(@)]
  /\ loc' = [loc EXCEPT ![p] = l]
  /\ it' = t /\ dinode' = d
  /\ UNCHANGED <<durable, cwd, ofile, booted, panicked, crashes, calls>>
panic(why) == /\ panicked' = why
              /\ UNCHANGED <<dinode, durable, it, pc, loc, cwd, ofile, booted, crashes, calls>>

With(l, s) == [l EXCEPT !.put = s]   \* the entry to iput() next

\* iput(loc[p].put): the last reference to an inode without links frees it.
\* acquiresleep() with itable.lock held must not have to sleep.
last(s) == it[s].ref = 1 /\ it[s].valid /\ it[s].nlink = 0
iput(p) ==
  LET s == loc[p].put IN
  /\ At(p, "iput")
  /\ IF ~ last(s) THEN Do(p, <<>>, With(loc[p], 0), [it EXCEPT ![s].ref = @ - 1], dinode)
     ELSE IF Lockable(s)
     THEN Do(p, <<"iput_trunc", "iput_drop", "iput_free">>, [loc[p] EXCEPT !.inum = it[s].inum],
             [it EXCEPT ![s].lock = p], dinode)
     ELSE panic("sleep with itable.lock")

\* itrunc(), valid = 0, releasesleep()
iput_trunc(p) ==
  LET s == loc[p].put IN
  /\ At(p, "iput_trunc")
  /\ Do(p, <<>>, loc[p], [it EXCEPT ![s].valid = FALSE, ![s].lock = NoProc],
        [iupdate(dinode, it, s) EXCEPT ![it[s].inum].ents = <<>>])

iput_drop(p) ==
  /\ At(p, "iput_drop")
  /\ Do(p, <<>>, loc[p], [it EXCEPT ![loc[p].put].ref = @ - 1], dinode)

\* Mutant: the inode number is read from the table entry, which may be recycled.
iput_free_Stale(p) ==
  /\ At(p, "iput_free")
  /\ Do(p, <<>>, [With(loc[p], 0) EXCEPT !.inum = 0], it,
        [dinode EXCEPT ![it[loc[p].put].inum].type = "none"])

iput_free(p) ==
  /\ At(p, "iput_free")
  /\ Do(p, <<>>, [With(loc[p], 0) EXCEPT !.inum = 0], it,
        [dinode EXCEPT ![loc[p].inum].type = "none"])

-----------------------------------------------------------------------------
(* namex().  Its result is loc[p].ip (0 for none) and, for nameiparent(),  *)
(* loc[p].name.  A path is a sequence of elements, "/" first if absolute.  *)

namex_start(p) ==
  LET l == loc[p]
      abs == l.path # <<>> /\ Head(l.path) = "/"
      s == IF abs THEN igot(it, ROOTINO) ELSE cwd[p]
  IN /\ At(p, "namex")
     /\ IF abs /\ ~ CanGet(it, ROOTINO) THEN panic("iget: no inodes")
        ELSE Do(p, <<"namex_loop">>,
                [l EXCEPT !.ip = s, !.path = IF abs THEN Tail(@) ELSE @],
                IF abs THEN iget(it, ROOTINO) ELSE idup(it, s), dinode)

namex_loop(p) ==
  LET l == loc[p]
      s == l.ip
      t == ilock(it, s, p)
      next == dirlookup(dinode[it[s].inum].ents, Head(l.path))
      u == iunlock(t, s)
      none == [With(l, s) EXCEPT !.ip = 0, !.path = <<>>]
  IN /\ At(p, "namex_loop") /\ l.path # <<>> /\ Lockable(s)
     /\ IF NoType(t, s) THEN panic("ilock: no type")
        ELSE IF t[s].type # "dir" \/ t[s].nlink = 0 THEN Do(p, <<"iput">>, none, u, dinode)
        ELSE IF l.par /\ Len(l.path) = 1
             THEN Do(p, <<>>, [l EXCEPT !.name = Head(l.path), !.path = <<>>], u, dinode)
        ELSE IF next = 0 THEN Do(p, <<"iput">>, none, u, dinode)
        ELSE IF ~ CanGet(t, next) THEN panic("iget: no inodes")
        ELSE Do(p, <<"iput", "namex_loop">>,
                [With(l, s) EXCEPT !.ip = igot(t, next), !.path = Tail(@)], iget(u, next), dinode)

namex_end(p) ==
  LET l == loc[p] IN
  /\ At(p, "namex_loop") /\ l.path = <<>>
  /\ IF l.par THEN Do(p, <<"iput">>, [With(l, l.ip) EXCEPT !.ip = 0], it, dinode)
              ELSE Do(p, <<>>, l, it, dinode)

-----------------------------------------------------------------------------
(* The calls.  begin_op() and the arguments; end_op().                     *)

InOp == {p \in Procs : pc[p] # <<>>}

Call(p, c) ==
  /\ booted /\ cwd[p] # 0 /\ pc[p] = <<>> /\ panicked = ""
  /\ calls < MaxCalls[scenario] /\ calls' = calls + 1
  /\ pc' = [pc EXCEPT ![p] = <<"namex", c.op, "end">>]
  /\ loc' = [loc EXCEPT ![p] = [NoLoc EXCEPT !.op = c.op, !.path = c.path, !.new = c.new,
                                !.par = c.op \in {"unlink", "creat", "mkdir", "mknod"}]]
  /\ UNCHANGED <<dinode, durable, it, cwd, ofile, booted, panicked, crashes>>

\* sys_close(): fileclose() of the last reference to the file.
close(p) ==
  /\ booted /\ ofile[p] # 0 /\ pc[p] = <<>> /\ panicked = ""
  /\ calls < MaxCalls[scenario] /\ calls' = calls + 1
  /\ ofile' = [ofile EXCEPT ![p] = 0]
  /\ pc' = [pc EXCEPT ![p] = <<"iput", "end">>]
  /\ loc' = [loc EXCEPT ![p] = With(NoLoc, ofile[p])]
  /\ UNCHANGED <<dinode, durable, it, cwd, booted, panicked, crashes>>

\* kfork() and kexit(), as far as the current directory goes.
kfork(p, q) ==
  /\ booted /\ cwd[p] # 0 /\ pc[p] = <<>> /\ cwd[q] = 0 /\ pc[q] = <<>> /\ panicked = ""
  /\ it' = idup(it, cwd[p])
  /\ cwd' = [cwd EXCEPT ![q] = cwd[p]]
  /\ UNCHANGED <<dinode, durable, pc, loc, ofile, booted, panicked, crashes, calls>>

kexit(p) ==
  /\ booted /\ p # InitProc /\ cwd[p] # 0 /\ ofile[p] = 0 /\ pc[p] = <<>> /\ panicked = ""
  /\ calls < MaxCalls[scenario] /\ calls' = calls + 1
  /\ pc' = [pc EXCEPT ![p] = <<"iput", "end">>]
  /\ loc' = [loc EXCEPT ![p] = With(NoLoc, cwd[p])]
  /\ cwd' = [cwd EXCEPT ![p] = 0]
  /\ UNCHANGED <<dinode, durable, it, ofile, booted, panicked, crashes>>

Commit(p) == durable' = IF InOp = {p} THEN dinode ELSE durable

end_op(p) ==
  /\ At(p, "end")
  /\ Commit(p)
  /\ pc' = [pc EXCEPT ![p] = <<>>]
  /\ loc' = [loc EXCEPT ![p] = NoLoc]
  /\ UNCHANGED <<dinode, it, cwd, ofile, booted, panicked, crashes, calls>>

\* iunlockput(ip) and return
PutIp(p, t) == Do(p, <<"iput">>, [With(loc[p], loc[p].ip) EXCEPT !.ip = 0], iunlock(t, loc[p].ip), dinode)

\* The lookup of the call's first path found nothing.
NotFound(p, label) == At(p, label) /\ loc[p].ip = 0 /\ Do(p, <<>>, loc[p], it, dinode)

\* sys_open() after create() or ilock(): filealloc() and fdalloc(), O_TRUNC.
OpenLocked(p, t) ==
  LET s == loc[p].ip IN
  \/ /\ ofile[p] = 0
     /\ ofile' = [ofile EXCEPT ![p] = s]
     /\ pc' = [pc EXCEPT ![p] = Tail(@)]
     /\ loc' = [loc EXCEPT ![p] = NoLoc]
     /\ it' = iunlock(t, s)
     /\ UNCHANGED <<dinode, durable, cwd, booted, panicked, crashes, calls>>
  \/ PutIp(p, t)

sys_open(p) ==
  LET s == loc[p].ip
      t == ilock(it, s, p)
  IN /\ At(p, "open") /\ s # 0 /\ Lockable(s)
     /\ IF NoType(t, s) THEN panic("ilock: no type") ELSE OpenLocked(p, t)

\* create()
create(p) ==
  LET l == loc[p]
      t == ilock(it, l.ip, p)
      type == CASE l.op = "mkdir" -> "dir" [] l.op = "mknod" -> "dev" [] OTHER -> "file"
      old == dirlookup(dinode[it[l.ip].inum].ents, l.name)
      new == ialloc(dinode)
  IN /\ At(p, l.op) /\ l.op \in {"creat", "mkdir", "mknod"} /\ l.ip # 0 /\ Lockable(l.ip)
     /\ IF NoType(t, l.ip) THEN panic("ilock: no type")
        ELSE IF t[l.ip].nlink = 0 \/ (type = "dir" /\ t[l.ip].nlink >= NLINK_MAX)
             THEN PutIp(p, t)
        ELSE IF \E i \in {old} \ {0} : ~ CanGet(t, i) THEN panic("iget: no inodes")
        ELSE IF old # 0
             THEN Do(p, <<"iput", "create_old">>, [With(l, l.ip) EXCEPT !.ip = igot(t, old)],
                     iunlock(iget(t, old), l.ip), dinode)
        ELSE IF new = {} THEN PutIp(p, t)
        ELSE \E i \in new : IF ~ CanGet(t, i) THEN panic("iget: no inodes")
                            ELSE Do(p, <<"create_new">>, [l EXCEPT !.dp = l.ip, !.ip = igot(t, i)],
                                    iget(t, i), [dinode EXCEPT ![i] = [Free EXCEPT !.type = type]])

create_old(p) ==
  LET s == loc[p].ip
      t == ilock(it, s, p)
  IN /\ At(p, "create_old") /\ Lockable(s)
     /\ IF NoType(t, s) THEN panic("ilock: no type")
        ELSE IF loc[p].op = "creat" /\ t[s].type \in {"file", "dev"}
             THEN OpenLocked(p, t)
        ELSE PutIp(p, t)

\* The new inode and its dirents; dirlink() may fail at each of them.
Filled(t, l) == IF t[l.ip].type # "dir" THEN <<>>
                ELSE <<dirent(".", t[l.ip].inum), dirent("..", t[l.dp].inum)>>

\* Mutant: the parent's link count is not raised for "..".
create_new_NoUp(p) ==
  LET l == loc[p]
      t == SetNlink(ilock(it, l.ip, p), l.ip, 1)
      d == [iupdate(dinode, t, l.ip) EXCEPT
              ![t[l.ip].inum].ents = Filled(t, l),
              ![t[l.dp].inum].ents = dirlink(@, l.name, t[l.ip].inum)]
  IN /\ At(p, "create_new") /\ Lockable(l.ip) /\ CanLink(dinode[t[l.dp].inum].ents)
     /\ Do(p, <<"iput", "created">>, [With(l, l.dp) EXCEPT !.dp = 0], iunlock(t, l.dp), d)

create_new(p) ==
  LET l == loc[p]
      t == SetNlink(ilock(it, l.ip, p), l.ip, 1)
      u == IF t[l.ip].type = "dir" THEN SetNlink(t, l.dp, t[l.dp].nlink + 1) ELSE t
      z == SetNlink(t, l.ip, 0)
      some == \E k \in 0..Len(Filled(t, l)) :   \* dirents of ip written before the failure
                Do(p, <<"iput", "put_dp">>, [With(l, l.ip) EXCEPT !.ip = 0], iunlock(z, l.ip),
                   [iupdate(dinode, z, l.ip) EXCEPT ![t[l.ip].inum].ents = SubSeq(Filled(t, l), 1, k)])
  IN /\ At(p, "create_new") /\ Lockable(l.ip)
     /\ IF CanLink(dinode[t[l.dp].inum].ents)
        THEN \/ Do(p, <<"iput", "created">>, [With(l, l.dp) EXCEPT !.dp = 0], iunlock(u, l.dp),
                   [iupdate(iupdate(dinode, u, l.ip), u, l.dp) EXCEPT
                      ![t[l.ip].inum].ents = Filled(t, l),
                      ![t[l.dp].inum].ents = dirlink(@, l.name, t[l.ip].inum)])
             \/ t[l.ip].type = "dir" /\ some
        ELSE some

\* Mutant: the directory stays locked.
put_dp_Locked(p) ==
  /\ At(p, "put_dp")
  /\ Do(p, <<"iput">>, [With(loc[p], loc[p].dp) EXCEPT !.dp = 0], it, dinode)

\* iunlockput(dp)
put_dp(p) ==
  /\ At(p, "put_dp")
  /\ Do(p, <<"iput">>, [With(loc[p], loc[p].dp) EXCEPT !.dp = 0], iunlock(it, loc[p].dp), dinode)

\* create() returned the new inode, locked.
created(p) ==
  /\ At(p, "created")
  /\ IF loc[p].op = "creat" THEN OpenLocked(p, it) ELSE PutIp(p, it)

sys_link(p) ==
  LET l == loc[p]
      t == ilock(it, l.ip, p)
      u == SetNlink(t, l.ip, t[l.ip].nlink + 1)
  IN /\ At(p, "link") /\ l.ip # 0 /\ Lockable(l.ip)
     /\ IF NoType(t, l.ip) THEN panic("ilock: no type")
        ELSE IF t[l.ip].type = "dir" \/ t[l.ip].nlink >= NLINK_MAX THEN PutIp(p, t)
        ELSE Do(p, <<"namex", "link_dir">>,
                [l EXCEPT !.dp = l.ip, !.ip = 0, !.path = l.new, !.new = <<>>, !.par = TRUE],
                iunlock(u, l.ip), iupdate(dinode, u, l.ip))

\* loc[p].ip is now the directory, loc[p].dp the inode.  dirlink() gets the inode
\* that has the name already and puts it back, with the directory locked.
link_dir(p) ==
  LET l == loc[p]
      t == ilock(it, l.ip, p)
      n == it[l.ip].inum
      old == dirlookup(dinode[n].ents, l.name)
      bad == Do(p, <<"iput", "link_bad">>, [With(l, l.ip) EXCEPT !.ip = 0], iunlock(t, l.ip), dinode)
  IN /\ At(p, "link_dir") /\ l.ip # 0 /\ Lockable(l.ip)
     /\ IF NoType(t, l.ip) THEN panic("ilock: no type")
        ELSE IF t[l.ip].nlink = 0 THEN bad
        ELSE IF old # 0
             THEN IF CanGet(t, old)
                  THEN Do(p, <<"iput", "link_exists">>, With(l, igot(t, old)), iget(t, old), dinode)
                  ELSE panic("iget: no inodes")
        ELSE IF ~ CanLink(dinode[n].ents) THEN bad
        ELSE Do(p, <<"iput", "link_done">>, [With(l, l.ip) EXCEPT !.ip = 0], iunlock(t, l.ip),
                [dinode EXCEPT ![n].ents = dirlink(@, l.name, it[l.dp].inum)])

link_exists(p) ==
  /\ At(p, "link_exists")
  /\ Do(p, <<"iput", "link_bad">>, [With(loc[p], loc[p].ip) EXCEPT !.ip = 0], iunlock(it, loc[p].ip), dinode)

link_nodir(p) ==
  At(p, "link_dir") /\ loc[p].ip = 0 /\ Do(p, <<"link_bad">>, loc[p], it, dinode)

link_done(p) ==
  /\ At(p, "link_done")
  /\ Do(p, <<"iput">>, [With(loc[p], loc[p].dp) EXCEPT !.dp = 0], it, dinode)

\* Mutant: the lowered link count is not written back.
link_bad_NoUpdate(p) ==
  LET s == loc[p].dp
      t == ilock(it, s, p)
      u == SetNlink(t, s, t[s].nlink - 1)
  IN /\ At(p, "link_bad") /\ Lockable(s)
     /\ Do(p, <<"iput">>, [With(loc[p], s) EXCEPT !.dp = 0], iunlock(u, s), dinode)

link_bad(p) ==
  LET s == loc[p].dp
      t == ilock(it, s, p)
      u == SetNlink(t, s, t[s].nlink - 1)
  IN /\ At(p, "link_bad") /\ Lockable(s)
     /\ Do(p, <<"iput">>, [With(loc[p], s) EXCEPT !.dp = 0], iunlock(u, s), iupdate(dinode, u, s))

sys_unlink(p) ==
  LET l == loc[p]
      t == ilock(it, l.ip, p)
      n == dirlookup(dinode[it[l.ip].inum].ents, l.name)
  IN /\ At(p, "unlink") /\ l.ip # 0 /\ Lockable(l.ip)
     /\ IF NoType(t, l.ip) THEN panic("ilock: no type")
        ELSE IF l.name \in {".", ".."} \/ n = 0 THEN PutIp(p, t)
        ELSE IF ~ CanGet(t, n) THEN panic("iget: no inodes")
        ELSE Do(p, <<"unlink_ip">>, [l EXCEPT !.dp = l.ip, !.ip = igot(t, n)], iget(t, n), dinode)

unlink_ip(p) ==
  LET l == loc[p]
      t == ilock(it, l.ip, p)
      up == IF t[l.ip].type = "dir" THEN SetNlink(t, l.dp, t[l.dp].nlink - 1) ELSE t
      off == Min(Offsets(dinode[it[l.dp].inum].ents, l.name))
  IN /\ At(p, "unlink_ip") /\ Lockable(l.ip)
     /\ IF NoType(t, l.ip) THEN panic("ilock: no type")
        ELSE IF t[l.ip].nlink < 1 THEN panic("unlink: nlink < 1")
        ELSE IF t[l.ip].type = "dir" /\ ~ isdirempty(dinode[t[l.ip].inum].ents)
             THEN Do(p, <<"iput", "put_dp">>, [With(l, l.ip) EXCEPT !.ip = 0], iunlock(t, l.ip), dinode)
        ELSE Do(p, <<"iput", "unlink_done">>, [With(l, l.dp) EXCEPT !.dp = 0], iunlock(up, l.dp),
                [iupdate(dinode, up, l.dp) EXCEPT ![t[l.dp].inum].ents[off] = dirent("", 0)])

unlink_done(p) ==
  LET s == loc[p].ip
      t == SetNlink(it, s, it[s].nlink - 1)
  IN /\ At(p, "unlink_done")
     /\ Do(p, <<"iput">>, [With(loc[p], s) EXCEPT !.ip = 0], iunlock(t, s), iupdate(dinode, t, s))

sys_chdir(p) ==
  LET s == loc[p].ip
      t == ilock(it, s, p)
  IN /\ At(p, "chdir") /\ s # 0 /\ Lockable(s)
     /\ IF NoType(t, s) THEN panic("ilock: no type")
        ELSE IF t[s].type # "dir" THEN PutIp(p, t)
        ELSE Do(p, <<"iput", "chdir_done">>, With(loc[p], cwd[p]), iunlock(t, s), dinode)

\* end_op(); p->cwd = ip
chdir_done(p) ==
  /\ At(p, "chdir_done")
  /\ Commit(p)
  /\ cwd' = [cwd EXCEPT ![p] = loc[p].ip]
  /\ pc' = [pc EXCEPT ![p] = <<>>]
  /\ loc' = [loc EXCEPT ![p] = NoLoc]
  /\ UNCHANGED <<dinode, it, ofile, booted, panicked, crashes, calls>>

-----------------------------------------------------------------------------
(* fsinit(): the log has been recovered; ireclaim() frees the orphans.     *)

ireclaim(p) ==
  LET i == loc[p].scanned + 1 IN
  /\ At(p, "ireclaim")
  /\ \/ /\ i \in Inums /\ dinode[i].type # "none" /\ dinode[i].nlink = 0
        /\ IF ~ CanGet(it, i) THEN panic("iget: no inodes")
           ELSE Do(p, <<"iput", "reclaimed">>, [With(loc[p], igot(it, i)) EXCEPT !.scanned = i],
                   iunlock(ilock(iget(it, i), igot(it, i), p), igot(it, i)), dinode)
     \/ /\ i \in Inums /\ ~ (dinode[i].type # "none" /\ dinode[i].nlink = 0)
        /\ Do(p, <<"ireclaim">>, [loc[p] EXCEPT !.scanned = i], it, dinode)
     \/ /\ i \notin Inums
        /\ booted' = TRUE
        /\ pc' = [pc EXCEPT ![p] = <<>>]
        /\ loc' = [q \in Procs |-> NoLoc]
        /\ UNCHANGED <<dinode, durable, it, cwd, ofile, panicked, crashes, calls>>

reclaimed(p) ==
  /\ At(p, "reclaimed")
  /\ Commit(p)
  /\ pc' = [pc EXCEPT ![p] = <<"ireclaim">>]
  /\ UNCHANGED <<dinode, it, loc, cwd, ofile, booted, panicked, crashes, calls>>

\* The machine stops, or is restarted after a panic.
Crash ==
  /\ crashes < MaxCrash[scenario]
  /\ crashes' = crashes + 1
  /\ dinode' = durable
  /\ Boot
  /\ panicked' = ""
  /\ UNCHANGED <<durable, calls>>

Step(p) ==
  \/ iput(p) \/ iput_trunc(p) \/ iput_drop(p) \/ iput_free(p)
  \/ namex_start(p) \/ namex_loop(p) \/ namex_end(p) \/ end_op(p)
  \/ \E op \in {"open", "creat", "mkdir", "mknod", "link", "unlink", "chdir"} : NotFound(p, op)
  \/ sys_open(p) \/ create(p) \/ create_old(p) \/ create_new(p) \/ put_dp(p) \/ created(p)
  \/ sys_link(p) \/ link_dir(p) \/ link_exists(p) \/ link_nodir(p) \/ link_done(p) \/ link_bad(p)
  \/ sys_unlink(p) \/ unlink_ip(p) \/ unlink_done(p) \/ sys_chdir(p) \/ chdir_done(p)
  \/ ireclaim(p) \/ reclaimed(p)

Next == /\ UNCHANGED scenario
        /\ \/ \E p \in Procs : Step(p) \/ close(p) \/ kexit(p) \/ \E c \in Calls[scenario] : Call(p, c)
           \/ \E p, q \in Procs : kfork(p, q)
           \/ Crash

Spec == Init /\ [][Next]_vars

FairSpec == Spec /\ \A p \in Procs : WF_vars(Step(p) /\ UNCHANGED scenario)

-----------------------------------------------------------------------------
(* Properties.                                                             *)

Live(d) == {i \in Inums : d[i].type = "dir" /\ d[i].nlink > 0}
Refs(d, i) == {r \in Live(d) \X (1..MaxEnts) :
                 /\ r[2] \in DOMAIN d[r[1]].ents
                 /\ d[r[1]].ents[r[2]].inum = i /\ d[r[1]].ents[r[2]].name # "."}
Quiet == booted /\ \A p \in Procs : pc[p] = <<>>

\* The entries p points to: its directory (which sys_chdir() has given up before it
\* sets p->cwd), its open file, and the variables of the call it makes.
Holds(p, s) ==
  Cardinality({f \in {"ip", "dp", "put"} : loc[p][f] = s /\ ~ (f = "put" /\ Top(p) = "iput_free")})
  + (IF cwd[p] = s /\ \A k \in DOMAIN pc[p] : pc[p][k] # "chdir_done" THEN 1 ELSE 0)
  + (IF ofile[p] = s THEN 1 ELSE 0)

\* The kernel panics for one reason: iget() finds every entry of the table taken.
\* Then each of the NINODE entries is a different inode that some process has as its
\* directory or its open file, or uses in a call; no entry is lost to a call that
\* failed.  No inode without a type is locked, no unlinked inode is unlinked again,
\* and iput() never sleeps with itable.lock held.
OnlyPanicWhenFull ==
  panicked # "" =>
    /\ panicked = "iget: no inodes"
    /\ \A s \in Slots : /\ \E p \in Procs : Holds(p, s) > 0
                       /\ \A q \in Slots \ {s} : it[q].inum # it[s].inum

\* On the disk a crash leaves, the link count of every inode is the number of
\* dirents that name it, ".." of the directories in it included: link, unlink and
\* create, with their failure paths, keep nlink exact in every committed state.
NlinkExact == \A i \in Inums : durable[i].type # "none" =>
                durable[i].nlink = Cardinality(Refs(durable, i))

\* On the disk a crash leaves, every dirent of a directory in the tree names an
\* allocated inode, no name occurs twice, and ".." names the directory that has
\* the entry.
TreeExact ==
  \A i \in Live(durable) : LET ents == durable[i].ents IN
    /\ \A k \in DOMAIN ents : ents[k].inum # 0 =>
         /\ durable[ents[k].inum].type # "none"
         /\ Cardinality(Offsets(ents, ents[k].name)) = 1
         /\ (k > 2 /\ durable[ents[k].inum].type = "dir") =>
              dirlookup(durable[ents[k].inum].ents, "..") = i

\* When no call is in progress, every allocated inode has a link or is some
\* process's directory or open file; in particular fsinit() frees every inode
\* a crash left without links.
NoLeak == Quiet => \A i \in Inums : dinode[i].type # "none" =>
            dinode[i].nlink > 0 \/ SlotsOf(it, i) # {}

\* At every step ref counts the directories, open files and variables of running
\* calls that point to the entry; when no call is in progress no entry is locked.
RefExact == \A s \in Slots :
  /\ it[s].ref = MapThenSumSet(LAMBDA p : Holds(p, s), Procs)
  /\ Quiet => it[s].lock = NoProc

\* An inode has at most one entry in the table, and a valid entry that is not
\* locked agrees with the disk.
TableCoherent == \A s \in Slots : it[s].ref > 0 =>
  /\ SlotsOf(it, it[s].inum) = {s}
  /\ it[s].valid /\ it[s].lock = NoProc =>
       it[s].nlink = dinode[it[s].inum].nlink /\ it[s].type = dinode[it[s].inum].type

\* An inode is freed on disk only when no table entry refers to it any more.
FreedUnreferenced ==
  [][\A i \in Inums :
       dinode[i].type # "none" /\ dinode'[i].type = "none" /\ crashes' = crashes
         => SlotsOf(it, i) = {}]_vars

\* A link count never exceeds what the short on disk can hold.
NlinkBounded == \A i \in Inums : dinode[i].nlink \in 0..NLINK_MAX

\* The disk is a tree whose link counts are exact and fit, nothing on it is lost, and
\* the kernel panics only for a table full of inodes in use.
DiskExact == OnlyPanicWhenFull /\ NlinkExact /\ NlinkBounded /\ TreeExact /\ NoLeak

\* The inode table agrees with the disk and with those who use it.
TableExact == RefExact /\ TableCoherent
=============================================================================
