------------------------------- MODULE Handlers -------------------------------
(***************************************************************************)
(* What the handlers of nofs tell the kernel: the requests one thread of   *)
(* libfuse serves, with the thread's errno, what its stack still holds,    *)
(* and the log, whose writes can fail between a system call and the use of *)
(* its errno.  How the copies themselves go is in Nofs; here a copy works  *)
(* or does not, and a name in the cache is a file, a directory or nothing. *)
(***************************************************************************)
EXTENDS Integers

CONSTANTS
    Paths,      \* names below the mount point
    Root,       \* "/", one of them
    Errnos,     \* errors of system calls
    Entries     \* entries of a directory, "." and ".." included

ENOENT == 2
ENOMEM == 12
ENOSPC == 28     \* what a log write that fails leaves in errno
ERANGE == 34
Status == 256    \* of a command that system() has run and that has failed

ASSUME HandlersAssumption ==
    /\ Root \in Paths
    /\ Errnos \subseteq 1..255
    /\ Entries \in Nat \ {0, 1}

VARIABLES
    op,       \* the handler that runs
    arg,      \* the path it is called with
    pc,       \* how far it is: "idle", "copy", "force", "call", "listing", "log"
              \* or "answered"
    ret,      \* its retstat, once "answered" what the kernel is told
    errno,    \* the thread's errno
    tree,     \* the cache directory: path -> "none", "file" or "dir"
    left,     \* the paths that have been put together on the thread's stack
    stream,   \* entries read from the open directory, -1: none is open
    cause,    \* auxiliary: 0, or errno of the system call this request has failed by
    broken,   \* auxiliary: this request's log writes that have failed
    listed    \* auxiliary: entries this request has listed

request == <<op, arg, pc, ret, cause, broken, listed>>
handlerVars == <<request, errno, tree, left, stream>>

Copying == {"getattr", "getxattr", "mknod"} \cup
           {"truncate", "open", "setxattr", "listxattr", "removexattr"}
NeedsCopy == {"truncate", "open", "setxattr", "listxattr", "removexattr"}
OnOwnPath == {"chown", "access"}
OnFrame == {"readlink", "mkdir", "unlink", "rmdir", "symlink", "rename", "link",
            "chmod", "utime", "statfs", "opendir"}
OnHandle == {"read", "write", "ftruncate", "fgetattr", "flush", "fsync", "release"}
OnStream == {"readdir", "releasedir", "fsyncdir"}
Ops == Copying \cup OnOwnPath \cup OnFrame \cup OnHandle \cup OnStream

HandlersInit ==
    /\ op = "none" /\ arg = Root /\ pc = "idle"
    /\ ret = 0 /\ errno = 0
    /\ cause = 0 /\ broken = {} /\ listed = 0
    /\ tree = [p \in Paths |-> IF p = Root THEN "dir" ELSE "none"]
    /\ left = {}
    /\ stream = -1

-------------------------------------------------------------------------------
(* src/src/log.c: what a write to the log does to errno.  "fails" says whether *)
(* the write fails.                                                            *)

LogMsg(e, fails) == IF fails THEN ENOSPC ELSE e

\* The structures: a log_msg for every field.
LogFi(e, fails) == LogMsg(e, fails)
LogStat(e, fails) == LogMsg(e, fails)

\* Mutant: errno is not restored.
LogRetstatForgets(e, fails) == LogMsg(e, fails)

LogRetstat(e, fails) == e

\* log_error takes errno before it writes.
LogError(e, fails) == [ret |-> -e, errno |-> LogMsg(e, fails)]

\* log_syscall drops what log_error returns and takes errno after it.
LogSyscall(result, e, retstatFails, errorFails) ==
    LET kept == LogRetstat(e, retstatFails)
        after == LogError(kept, errorFails).errno
    IN  IF result < 0 THEN [ret |-> -after, errno |-> after]
                      ELSE [ret |-> result, errno |-> kept]

Broken(fails, write) == IF fails THEN {write} ELSE {}

\* libfuse: a positive result is a length for some of the handlers, and no errno
\* for the others.  It drops the result of release.
WithLength == {"getxattr", "listxattr", "read", "write"}
Told(o, r) == CASE o = "release" -> 0
                [] o # "release" /\ r > 0 /\ o \notin WithLength -> -ERANGE
                [] OTHER -> r

Answer(r) == pc' = "answered" /\ ret' = Told(op, r)

-------------------------------------------------------------------------------
(* Requests *)

\* The kernel calls a handler for a path it has looked up, to make what it has
\* not found, to remove what it has, for a file or for a directory that is open.
Fits(o, p) ==
    /\ o # "getattr" => p \in left
    /\ o \in {"mknod", "mkdir", "symlink", "link"} => tree[p] = "none"
    /\ o = "unlink" => tree[p] = "file"
    /\ o \in {"rmdir", "rename"} => tree[p] # "none" /\ p # Root
    /\ o \in OnStream => stream >= 0
    /\ o = "opendir" => stream < 0

Receive(o, p) ==
    /\ pc = "idle" /\ Fits(o, p)
    /\ op' = IF o = "fgetattr" /\ p = Root THEN "getattr" ELSE o
    /\ arg' = p
    /\ pc' = IF op' \in Copying THEN "copy" ELSE "call"
    /\ left' = IF op' \in Copying \cup OnOwnPath \cup {"fsync", "release"}
               THEN left \cup {p} ELSE left
    /\ \E fails \in BOOLEAN : errno' = LogFi(errno, fails)
    /\ UNCHANGED <<ret, tree, stream, cause, broken, listed>>

Deliver ==
    /\ pc = "answered"
    /\ op' = "none" /\ arg' = Root /\ pc' = "idle"
    /\ ret' = 0 /\ cause' = 0 /\ broken' = {} /\ listed' = 0
    /\ UNCHANGED <<errno, tree, left, stream>>

\* What system() returns: 0, the status of a command that has failed, or -1 when
\* it has not run one, which sets errno.
SystemResults == {0, Status, -1}
SystemErrno(status, e) == IF status = -1 THEN Errnos ELSE {e}

\* The start of a handler that copies, ensure_local_file: what is in the cache is
\* good enough.  A wget that fails has made a file all the same.  nofs_getattr and
\* nofs_getxattr go on whatever it returns, and overwrite that.
Ensure ==
    /\ pc = "copy"
    /\ \E status \in IF tree[arg] # "none" THEN {0} ELSE SystemResults :
        /\ \/ op \in NeedsCopy /\ status # 0 /\ Answer(status)
           \/ op = "mknod" /\ status = 0 /\ Answer(-1)
           \/ /\ IF op = "mknod" THEN status # 0 ELSE op \in NeedsCopy => status = 0
              /\ pc' = IF op = "open" THEN "force" ELSE "call"
              /\ UNCHANGED ret
        /\ \/ tree' = [tree EXCEPT ![arg] = IF @ = "none" THEN "file" ELSE @]
           \/ status # 0 /\ UNCHANGED tree
        /\ errno' \in SystemErrno(status, IF tree[arg] = "none" THEN ENOENT ELSE errno)
    /\ UNCHANGED <<op, arg, left, stream, cause, broken, listed>>

\* nofs_open then copies again if the file is opened for writing, and drops what
\* that returns.
ForceCopy ==
    /\ pc = "force"
    /\ \E status \in SystemResults :
        errno' \in SystemErrno(status, errno)
    /\ pc' = "call"
    /\ UNCHANGED <<op, arg, ret, tree, left, stream, cause, broken, listed>>

-------------------------------------------------------------------------------
(* The system calls of the handlers *)

GetsErrno ==
    /\ \E e \in Errnos : errno' = e /\ cause' = e
    /\ ret' = -1

Fails == GetsErrno /\ UNCHANGED <<tree, stream>>

Succeeds ==
    /\ ret' \in IF op \in WithLength THEN {0, 5} ELSE {0}
    /\ UNCHANGED <<errno, cause>>

Calls(o) ==
    /\ pc = "call" /\ op = o
    /\ pc' = "log"
    /\ UNCHANGED <<op, arg, left, broken, listed>>

\* The call finds one kind of thing at q and leaves another.
Turns(q, was, is) ==
    /\ tree[q] = was /\ (was # is => q # Root)
    /\ tree' = [tree EXCEPT ![q] = is]
    /\ UNCHANGED stream

There == {"file", "dir"}
Reads(o) == Calls(o) /\ (Fails \/ (Succeeds /\ \E k \in There : Turns(arg, k, k)))

\* A handler that never fills its fpath in: the array holds a path that an
\* earlier handler has left there, or something that is no path at all.
Stray(o, was, is) ==
    Calls(o) /\ (Fails \/ (Succeeds /\ \E q \in left : Turns(q, was, is)))

Getattr == Reads("getattr")

\* nofs_mknod also closes what it has made, which can fail.
Mknod ==
    /\ Calls("mknod")
    /\ Fails \/ ((Succeeds \/ GetsErrno) /\ Turns(arg, "none", "file"))

Truncate == Reads("truncate")
Open == Reads("open")
Setxattr == Reads("setxattr")
Getxattr == Reads("getxattr")
Listxattr == Reads("listxattr")
Removexattr == Reads("removexattr")
Chown == Reads("chown")
Access == Reads("access")

Mkdir == Stray("mkdir", "none", "dir")
Unlink == Stray("unlink", "file", "none")
Rmdir == Stray("rmdir", "dir", "none")
Symlink == Stray("symlink", "none", "file")
Readlink == Stray("readlink", "file", "file")
Chmod == \E k \in There : Stray("chmod", k, k)
Utime == \E k \in There : Stray("utime", k, k)
Statfs == \E k \in There : Stray("statfs", k, k)

Link ==
    /\ Calls("link")
    /\ \/ Fails
       \/ /\ Succeeds
          /\ \E q, r \in left : tree[q] = "file" /\ Turns(r, "none", "file")

Rename ==
    /\ Calls("rename")
    /\ \/ Fails
       \/ /\ Succeeds
          /\ \E q, r \in left \ {Root} :
              /\ tree[q] # "none" /\ q # r
              /\ tree' = [tree EXCEPT ![q] = "none", ![r] = tree[q]]
          /\ UNCHANGED stream

Opendir ==
    /\ Calls("opendir")
    /\ \/ Fails
       \/ /\ Succeeds
          /\ \E q \in left : tree[q] = "dir"
          /\ stream' = 0
          /\ UNCHANGED tree

\* The handlers that work from fi->fh.
UsesHandle(o) == Calls(o) /\ (Fails \/ (Succeeds /\ UNCHANGED <<tree, stream>>))
Read == UsesHandle("read")
Write == UsesHandle("write")
Ftruncate == UsesHandle("ftruncate")
Fgetattr == UsesHandle("fgetattr")
Fsync == UsesHandle("fsync")

\* nofs_flush and nofs_fsyncdir only log.
Flush ==
    /\ pc = "call" /\ op \in {"flush", "fsyncdir"}
    /\ Answer(0)
    /\ UNCHANGED <<op, arg, errno, tree, left, stream, cause, broken, listed>>

\* nofs_release puts a file open for writing, and closes it after success.
Release ==
    \/ UsesHandle("release")
    \/ /\ pc = "call" /\ op = "release"
       /\ \E status \in SystemResults \ {0} :
            Answer(status) /\ errno' \in SystemErrno(status, errno)
       /\ UNCHANGED <<op, arg, tree, left, stream, cause, broken, listed>>

\* readdir() returns NULL: at the end of the stream, where it leaves errno as it
\* is, or because it has failed.  e is errno after it.
NoEntry(e) ==
    /\ \/ stream = Entries /\ e = errno /\ UNCHANGED cause
       \/ e \in Errnos /\ cause' = e
    /\ UNCHANGED stream

\* The first readdir() of nofs_readdir, which goes on where the stream is and never
\* rewinds it.
Readdir ==
    /\ pc = "call" /\ op = "readdir"
    /\ \E fails \in BOOLEAN :
        \/ /\ stream < Entries /\ stream' = stream + 1
           /\ pc' = "listing"
           /\ errno' = LogMsg(errno, fails)
           /\ UNCHANGED <<ret, cause, broken>>
        \/ \E e \in Errnos \cup {errno}, errorFails \in BOOLEAN :
            LET r == LogError(LogMsg(e, fails), errorFails) IN
                /\ NoEntry(e)
                /\ Answer(r.ret) /\ errno' = r.errno
                /\ broken' = Broken(fails, "msg")
    /\ UNCHANGED <<op, arg, tree, left, listed>>

\* A round of its loop: the entry it has goes to the filler, whose buffer may be
\* full, and the next one is read.  A readdir() that returns NULL ends the loop,
\* also when it has failed.
ListEntry ==
    /\ pc = "listing"
    /\ \E fails \in BOOLEAN :
        \/ /\ Answer(-ENOMEM)
           /\ errno' = LogMsg(errno, fails)
           /\ UNCHANGED <<stream, cause, listed>>
        \/ /\ listed' = listed + 1
           /\ stream < Entries /\ stream' = stream + 1
           /\ errno' = LogMsg(errno, fails)
           /\ UNCHANGED <<pc, ret, cause>>
        \/ /\ listed' = listed + 1
           /\ \E e \in Errnos \cup {errno} : NoEntry(e) /\ errno' = LogFi(e, fails)
           /\ Answer(0)
    /\ UNCHANGED <<op, arg, tree, left, broken>>

Releasedir ==
    /\ pc = "call" /\ op = "releasedir"
    /\ stream' = -1
    /\ Answer(0)
    /\ UNCHANGED <<op, arg, errno, tree, left, cause, broken, listed>>

-------------------------------------------------------------------------------
(* The results of the system calls *)

LogErrorOnly == {"access", "ftruncate", "fgetattr", "opendir"}
LogsLast == {"getattr", "statfs", "readlink", "getxattr", "listxattr"}

\* nofs_open logs the failure twice and returns the second -errno.
OpenResult ==
    /\ pc = "log" /\ op = "open"
    /\ \E retstatFails, errorFails, againFails, fiFails \in BOOLEAN :
        LET r == LogSyscall(ret, errno, retstatFails, errorFails)
            again == LogError(r.errno, againFails)
        IN  /\ Answer(IF r.ret < 0 THEN again.ret ELSE 0)
            /\ errno' = LogFi(IF r.ret < 0 THEN again.errno ELSE r.errno, fiFails)
            /\ broken' = Broken(retstatFails, "retstat")
                         \cup Broken(errorFails \/ againFails, "error")
    /\ UNCHANGED <<op, arg, tree, left, stream, cause, listed>>

\* The handlers that look at the result themselves.  nofs_opendir logs it first;
\* it and nofs_fgetattr log a structure last.
ErrorResult ==
    /\ pc = "log" /\ op \in LogErrorOnly
    /\ \E msgFails, errorFails, lastFails \in BOOLEAN :
        LET called == LogMsg(errno, msgFails)
            e == LogError(called, errorFails)
        IN  /\ msgFails => op = "opendir"
            /\ lastFails => op \in {"opendir", "fgetattr"}
            /\ Answer(IF ret < 0 THEN e.ret ELSE ret)
            /\ errno' = LogStat(IF ret < 0 THEN e.errno ELSE called, lastFails)
            /\ broken' = Broken(msgFails, "msg")
    /\ UNCHANGED <<op, arg, tree, left, stream, cause, listed>>

\* All the others return what log_syscall does, and some log what they have got.
\* nofs_fsync puts a file open for writing first.
SyscallResult ==
    /\ pc = "log" /\ op \notin LogErrorOnly \cup {"open"}
    /\ \E retstatFails, errorFails, lastFails \in BOOLEAN :
        LET r == LogSyscall(ret, errno, retstatFails, errorFails) IN
            /\ \/ /\ lastFails => op \in LogsLast
                  /\ errno' = LogStat(r.errno, lastFails)
                  /\ Answer(r.ret)
               \/ /\ op = "fsync" /\ r.ret = 0
                  /\ \E status \in SystemResults \ {0} :
                        Answer(status) /\ errno' \in SystemErrno(status, r.errno)
            /\ broken' = Broken(retstatFails, "retstat") \cup Broken(errorFails, "error")
    /\ UNCHANGED <<op, arg, tree, left, stream, cause, listed>>

OwnPath == Getattr \/ Mknod \/ Truncate \/ Open \/ Setxattr \/ Getxattr
           \/ Listxattr \/ Removexattr \/ Chown \/ Access
StrayPath == Mkdir \/ Unlink \/ Rmdir \/ Symlink \/ Link \/ Readlink \/ Chmod
             \/ Utime \/ Statfs \/ Rename \/ Opendir
Handle == Read \/ Write \/ Ftruncate \/ Fgetattr
          \/ Flush \/ Fsync \/ Release \/ Readdir \/ ListEntry \/ Releasedir
Result == OpenResult \/ ErrorResult \/ SyscallResult

Serve ==
    \/ \E o \in Ops, p \in Paths : Receive(o, p)
    \/ Ensure \/ ForceCopy \/ OwnPath \/ StrayPath \/ Handle \/ Result
    \/ Deliver

-------------------------------------------------------------------------------
HandlersTypeOK ==
    /\ op \in Ops \cup {"none"} /\ arg \in Paths
    /\ pc \in {"idle", "copy", "force", "call", "listing", "log", "answered"}
    /\ ret \in Int /\ errno \in Nat
    /\ cause \in Nat
    /\ tree \in [Paths -> {"none", "file", "dir"}]
    /\ left \subseteq Paths
    /\ stream \in -1..Entries /\ listed \in 0..Entries
    /\ broken \subseteq {"msg", "retstat", "error"}

\* html/callbacks.html:107: "If it failed, it returns -errno".  A handler whose own
\* system call fails answers with the errno of that call, although the log is
\* written before errno is read: log_retstat puts errno back, so only a write that
\* nobody guards, once that fails, can make it another errno, ENOSPC.  Not so for
\* release, whose result libfuse drops, nor in the middle of a listing.
ErrnoIsTheCalls ==
    pc = "answered" /\ cause # 0 /\ op # "release" /\ ~(op = "readdir" /\ listed > 0)
        => \/ ret = -cause
           \/ broken \cap {"msg", "error"} # {} /\ ret = -ENOSPC

-------------------------------------------------------------------------------
(* What comments say, and what the code does not do *)

\* nofs.c:245, of nofs_unlink: "Remove a file".  The file it is asked to remove
\* is gone when it reports success.
UnlinkRemoves ==
    pc = "answered" /\ op = "unlink" /\ ret = 0 => tree[arg] = "none"
===============================================================================
