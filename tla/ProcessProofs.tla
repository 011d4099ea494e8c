---------------------------- MODULE ProcessProofs -----------------------------
(***************************************************************************)
(* Machine-checked proofs about a nofs process: for command lines of any   *)
(* length, all paths, errors and directories.                              *)
(***************************************************************************)
EXTENDS Process, TLAPS

-------------------------------------------------------------------------------
(* The command line *)

\* What CheckLine and ReadLine have established.
Checked == argc >= 5 /\ \A k \in argc-5..argc-1 : ~Hyphen(k)

AsRead ==
    /\ data = [transport |-> argc - 5 \in ones, hostname |-> argc - 4,
               root_dir |-> argc - 3, cache_dir |-> argc - 1]
    /\ args = [k \in 1..argc-5 |-> IF k = argc - 5 THEN argc - 2 ELSE k]

StartInv ==
    /\ StartTypeOK
    /\ stage \in {"checked", "read", "logging"} => Checked
    /\ stage \in {"read", "logging"} => AsRead

LEMMA StartInvInit == StartInit => StartInv
  <1> SUFFICES ASSUME StartInit PROVE StartInv
    OBVIOUS
  <1>1. PICK n \in 0..MaxArguments :
            /\ line \in [1..n -> {"flag", "-o", "word"}]
            /\ ones \in {{}} \cup {{k} : k \in 1..n}
    BY DEF StartInit
  <1>2. n \in Nat /\ line \in Seq({"flag", "-o", "word"}) /\ Len(line) = n
    BY <1>1, MaxArgumentsAssumption
  <1>3. ones \subseteq 1..Len(line)
    BY <1>1, <1>2
  <1> QED
    BY <1>2, <1>3 DEF StartInit, StartInv, StartTypeOK, Stages, NoData

LEMMA LeavesInv ==
    ASSUME StartInv, NEW s \in Stages, Leaves(s),
           s \in {"checked", "read", "logging"} => Checked,
           s \in {"read", "logging"} => AsRead
    PROVE  StartInv'
  <1>1. UNCHANGED <<line, ones, root, data, args>> /\ stage' = s
    BY DEF Leaves
  <1>2. StartTypeOK'
    BY <1>1 DEF StartInv, StartTypeOK
  <1>3. (Checked' <=> Checked) /\ (AsRead' <=> AsRead)
    BY <1>1 DEF Checked, AsRead, Hyphen, argc
  <1> QED
    BY <1>1, <1>2, <1>3 DEF StartInv

LEMMA ReadLineInv == ASSUME StartInv, ReadLine PROVE StartInv'
  <1>1. argc \in Nat /\ argc >= 5
    BY DEF StartInv, StartTypeOK, ReadLine, Checked, argc
  <1>2. (argc - 5 \in ones) \in BOOLEAN
    OBVIOUS
  <1>3. data' \in [transport : BOOLEAN, hostname : Nat, root_dir : Nat, cache_dir : Nat]
    BY <1>1, <1>2 DEF ReadLine
  <1>4. args' \in Seq(Nat)
    BY <1>1 DEF ReadLine
  <1>5. StartTypeOK'
    BY <1>3, <1>4 DEF ReadLine, StartInv, StartTypeOK, Stages
  <1>6. argc' = argc /\ Checked'
    BY DEF ReadLine, StartInv, Checked, Hyphen, argc
  <1>7. AsRead'
    BY <1>6 DEF ReadLine, AsRead
  <1> QED
    BY <1>5, <1>6, <1>7 DEF StartInv

\* libfuse has found the mount point: the line is long enough for it.
LEMMA Serving ==
    ASSUME StartInv, stage = "logging", Words = {Len(args)}
    PROVE  /\ argc \in Nat /\ argc >= 6
           /\ Len(args) = argc - 5 /\ args[Len(args)] = argc - 2
  <1>1. argc \in Nat /\ argc >= 5
    BY DEF StartInv, StartTypeOK, Checked, argc
  <1>2. Len(args) = argc - 5
    BY <1>1 DEF StartInv, AsRead
  <1>3. Len(args) \in 1..Len(args)
    BY DEF Words
  <1> QED
    BY <1>1, <1>2, <1>3 DEF StartInv, AsRead

LEMMA StartInvStep == StartInv /\ [Start \/ Destroy]_startVars => StartInv'
  <1> SUFFICES ASSUME StartInv, [Start \/ Destroy]_startVars PROVE StartInv'
    OBVIOUS
  <1> USE DEF Stages
  <1>1. CASE RefuseRoot \/ NoMemory \/ Destroy
    BY <1>1, LeavesInv DEF RefuseRoot, NoMemory, Destroy
  <1>2. CASE CheckLine
    <2>1. CASE Leaves("aborted") \/ Leaves("crashed")
      BY <2>1, LeavesInv
    <2>2. CASE /\ argc >= 5 /\ Leaves("checked")
               /\ ~\E k \in argc-4..argc-1 : Hyphen(k)
               /\ ~Hyphen(argc - 5)
      <3>1. argc \in Nat
        BY DEF StartInv, StartTypeOK, argc
      <3>2. Checked
        BY <2>2, <3>1 DEF Checked
      <3> QED
        BY <2>2, <3>2, LeavesInv
    <2>3. argc \in Nat
      BY DEF StartInv, StartTypeOK, argc
    <2> QED
      BY <1>2, <2>1, <2>2, <2>3 DEF CheckLine
  <1>3. CASE ReadLine
    BY <1>3, ReadLineInv
  <1>4. CASE OpenLog
    BY <1>4, LeavesInv DEF OpenLog, StartInv
  <1>5. CASE FuseMain
    <2>1. CASE Leaves("ended")
      BY <2>1, LeavesInv
    <2>2. CASE /\ Words = {Len(args)} /\ stage' = "serving"
               /\ line' = << >> /\ ones' = {} /\ args' = <<args[Len(args)]>>
               /\ UNCHANGED <<root, data>>
      <3>1. args' \in Seq(Nat)
        BY <1>5, <2>2, Serving DEF FuseMain
      <3> QED
        BY <2>2, <3>1 DEF StartInv, StartTypeOK
    <2> QED
      BY <1>5, <2>1, <2>2 DEF FuseMain
  <1>6. CASE UNCHANGED startVars
    BY <1>6 DEF startVars, StartInv, StartTypeOK, Checked, AsRead, Hyphen, argc
  <1> QED
    BY <1>1, <1>2, <1>3, <1>4, <1>5, <1>6 DEF Start

\* Only a part of the process takes a step.
LEMMA NextParts ==
    [Next]_vars => /\ [Start \/ Destroy]_startVars
                   /\ [Serve]_handlerVars
  BY DEF Next, vars

\* A process that serves was started as nofs_usage says, and its strings are where
\* the handlers look for them.
THEOREM StartsAsUsed == Spec => ServesAsUsed
  <1> DEFINE Used == LET n == Len(line) IN
                /\ n >= 5 /\ \A k \in n-4..n : line[k] = "word"
                /\ data' = [transport |-> n - 4 \in ones, hostname |-> n - 3,
                            root_dir |-> n - 2, cache_dir |-> n]
                /\ args'[1] = n - 1
  <1>1. ASSUME StartInv, [Start \/ Destroy]_startVars, stage # "serving", stage' = "serving"
        PROVE  Used
    <2>1. /\ stage = "logging" /\ Words = {Len(args)}
          /\ args' = <<args[Len(args)]>> /\ data' = data
      BY <1>1 DEF startVars, Start, RefuseRoot, CheckLine, NoMemory, ReadLine, OpenLog, FuseMain,
                  Destroy, Leaves
    <2>2. argc \in Nat /\ argc >= 6 /\ args[Len(args)] = argc - 2
      BY <1>1, <2>1, Serving
    <2>3. Len(line) \in Nat /\ argc = Len(line) + 1
      BY <1>1 DEF argc, StartInv, StartTypeOK
    <2>4. \A k \in Len(line)-4..Len(line) : line[k] = "word"
      BY <1>1, <2>1, <2>2, <2>3 DEF StartInv, Checked, Hyphen
    <2>5. data = [transport |-> Len(line) - 4 \in ones, hostname |-> Len(line) - 3,
                  root_dir |-> Len(line) - 2, cache_dir |-> Len(line)]
      <3>1. /\ argc - 5 = Len(line) - 4 /\ argc - 4 = Len(line) - 3
            /\ argc - 3 = Len(line) - 2 /\ argc - 1 = Len(line)
        BY <2>3
      <3> QED
        BY <1>1, <2>1, <3>1 DEF StartInv, AsRead
    <2> QED
      BY <2>1, <2>2, <2>3, <2>4, <2>5
  <1>2. StartInv /\ [Next]_vars => StartInv'
    BY NextParts, StartInvStep
  <1>3. StartInv /\ [Next]_vars =>
            [stage # "serving" /\ stage' = "serving" => Used]_startVars
    BY <1>1, NextParts
  <1>4. Init => StartInv
    BY StartInvInit DEF Init
  <1> QED
    BY <1>2, <1>3, <1>4, PTL DEF Spec, ServesAsUsed

-------------------------------------------------------------------------------
(* The handlers *)

LEMMA ToldInt == ASSUME NEW r \in Int, NEW o PROVE Told(o, r) \in Int
  BY DEF Told, ERANGE

LEMMA SystemTypes ==
    /\ SystemResults \subseteq Int
    /\ \A status, e \in Int : e >= 0 => SystemErrno(status, e) \subseteq Nat
  BY HandlersAssumption DEF SystemResults, SystemErrno, Status

LEMMA LogErrorType ==
    ASSUME NEW e \in Nat, NEW f \in BOOLEAN
    PROVE  LogMsg(e, f) \in Nat /\ LogError(e, f).errno \in Nat /\ LogError(e, f).ret \in Int
  BY DEF LogMsg, LogError, ENOSPC

LEMMA LogSyscallType ==
    ASSUME NEW r \in Int, NEW e \in Nat, NEW f \in BOOLEAN, NEW g \in BOOLEAN
    PROVE  LogSyscall(r, e, f, g).ret \in Int /\ LogSyscall(r, e, f, g).errno \in Nat
  BY LogErrorType DEF LogSyscall, LogRetstat

\* The kernel lists and closes only a directory that is open, what copies first is
\* one of Copying, and what a listing has listed it has read.
InTurn ==
    /\ pc = "copy" => op \in Copying
    /\ pc = "force" => op = "open"
    /\ pc = "call" /\ op \in OnStream => stream >= 0
    /\ pc = "listing" => op = "readdir" /\ 0 <= listed /\ listed < stream
    /\ pc \in {"idle", "copy", "force", "call"} => listed = 0

LEMMA HandlersTypeInit == HandlersInit => HandlersTypeOK /\ InTurn
  <1> SUFFICES ASSUME HandlersInit PROVE HandlersTypeOK /\ InTurn
    OBVIOUS
  <1>1. -1 \in -1..Entries /\ 0 \in 0..Entries
    BY HandlersAssumption
  <1>2. HandlersTypeOK
    BY <1>1, HandlersAssumption DEF HandlersInit, HandlersTypeOK
  <1>3. InTurn
    BY DEF HandlersInit, InTurn
  <1> QED
    BY <1>2, <1>3

\* What a system call leaves.
LEMMA CallType ==
    ASSUME HandlersTypeOK, NEW o, Calls(o),
           \/ Fails
           \/ /\ Succeeds \/ GetsErrno
              /\ tree' \in [Paths -> {"none", "file", "dir"}] /\ stream' \in -1..Entries
    PROVE  HandlersTypeOK'
  <1>1. errno' \in Nat /\ cause' \in Nat /\ ret' \in Int
    BY HandlersAssumption DEF Fails, Succeeds, GetsErrno, HandlersTypeOK
  <1>2. tree' \in [Paths -> {"none", "file", "dir"}] /\ stream' \in -1..Entries
    BY DEF Fails, HandlersTypeOK
  <1> QED
    BY <1>1, <1>2 DEF Calls, HandlersTypeOK

LEMMA TurnsType ==
    ASSUME HandlersTypeOK, NEW q, NEW was, NEW is \in {"none", "file", "dir"}, Turns(q, was, is)
    PROVE  tree' \in [Paths -> {"none", "file", "dir"}] /\ stream' \in -1..Entries
  BY DEF Turns, HandlersTypeOK

LEMMA OwnPathType == HandlersTypeOK /\ OwnPath => HandlersTypeOK'
  <1> SUFFICES ASSUME HandlersTypeOK, OwnPath PROVE HandlersTypeOK'
    OBVIOUS
  <1>1. ASSUME NEW o, Reads(o) PROVE HandlersTypeOK'
    BY <1>1, CallType, TurnsType DEF Reads, There
  <1>2. CASE Mknod
    BY <1>2, CallType, TurnsType DEF Mknod
  <1> QED
    BY <1>1, <1>2 DEF OwnPath, Getattr, Truncate, Open, Setxattr, Getxattr, Listxattr,
                      Removexattr, Chown, Access

LEMMA StrayPathType == HandlersTypeOK /\ StrayPath => HandlersTypeOK'
  <1> SUFFICES ASSUME HandlersTypeOK, StrayPath PROVE HandlersTypeOK'
    OBVIOUS
  <1>1. ASSUME NEW o, NEW was, NEW is \in {"none", "file", "dir"}, Stray(o, was, is)
        PROVE  HandlersTypeOK'
    BY <1>1, CallType, TurnsType DEF Stray
  <1>2. CASE Link
    BY <1>2, CallType, TurnsType DEF Link
  <1>3. CASE Rename
    <2>1. CASE Fails
      BY <1>3, <2>1, CallType DEF Rename
    <2>2. CASE ~Fails
      <3>1. PICK q, r \in left : tree' = [tree EXCEPT ![q] = "none", ![r] = tree[q]]
        BY <1>3, <2>2 DEF Rename
      <3>2. tree' \in [Paths -> {"none", "file", "dir"}] /\ stream' \in -1..Entries
        BY <1>3, <2>2, <3>1 DEF Rename, HandlersTypeOK
      <3> QED
        BY <1>3, <2>2, <3>2, CallType DEF Rename
    <2> QED
      BY <2>1, <2>2
  <1>4. CASE Opendir
    <2>1. 0 \in -1..Entries
      BY HandlersAssumption
    <2> QED
      BY <1>4, <2>1, CallType DEF Opendir, HandlersTypeOK
  <1> QED
    BY <1>1, <1>2, <1>3, <1>4
    DEF StrayPath, Mkdir, Unlink, Rmdir, Symlink, Readlink, Chmod, Utime, Statfs, There

LEMMA HandleType == HandlersTypeOK /\ InTurn /\ Handle => HandlersTypeOK'
  <1> SUFFICES ASSUME HandlersTypeOK, InTurn, Handle PROVE HandlersTypeOK'
    OBVIOUS
  <1>1. ASSUME NEW o, UsesHandle(o) PROVE HandlersTypeOK'
    BY <1>1, CallType DEF UsesHandle, HandlersTypeOK
  <1>2. CASE Flush
    BY <1>2, ToldInt DEF Flush, Answer, HandlersTypeOK
  <1>3. CASE Release /\ ~UsesHandle("release")
    <2>1. PICK status \in SystemResults :
              Answer(status) /\ errno' \in SystemErrno(status, errno)
      BY <1>3 DEF Release
    <2>2. ret' \in Int /\ errno' \in Nat
      BY <2>1, ToldInt, SystemTypes DEF Answer, HandlersTypeOK
    <2>3. UNCHANGED <<op, arg, tree, left, stream, cause, broken, listed>>
      BY <1>3 DEF Release
    <2> QED
      BY <2>1, <2>2, <2>3 DEF Answer, HandlersTypeOK
  <1>4. CASE Releasedir
    BY <1>4, ToldInt, HandlersAssumption DEF Releasedir, Answer, HandlersTypeOK
  <1>5. ASSUME NEW e \in Errnos \cup {errno}, NoEntry(e)
        PROVE  e \in Nat /\ cause' \in Nat /\ stream' = stream
    BY <1>5, HandlersAssumption DEF NoEntry, HandlersTypeOK
  <1>6. CASE Readdir
    <2>1. UNCHANGED <<op, arg, tree, left, listed>>
      BY <1>6 DEF Readdir
    <2>2. CASE /\ stream < Entries /\ stream' = stream + 1 /\ pc' = "listing"
               /\ UNCHANGED <<ret, cause, broken>>
      <3>1. errno' \in Nat
        BY <1>6, <2>2, LogErrorType DEF Readdir, Answer, HandlersTypeOK
      <3>2. stream' \in -1..Entries
        BY <2>2, HandlersAssumption DEF HandlersTypeOK
      <3> QED
        BY <2>1, <2>2, <3>1, <3>2 DEF HandlersTypeOK
    <2>3. ASSUME NEW f \in BOOLEAN, NEW e \in Errnos \cup {errno}, NEW g \in BOOLEAN,
                 NoEntry(e), Answer(LogError(LogMsg(e, f), g).ret),
                 errno' = LogError(LogMsg(e, f), g).errno, broken' = Broken(f, "msg")
          PROVE  HandlersTypeOK'
      <3>1. ret' \in Int /\ errno' \in Nat
        BY <1>5, <2>3, LogErrorType, ToldInt DEF Answer
      <3>2. broken' \subseteq {"msg", "retstat", "error"}
        BY <2>3 DEF Broken
      <3> QED
        BY <1>5, <2>1, <2>3, <3>1, <3>2 DEF Answer, HandlersTypeOK
    <2> QED
      BY <1>6, <2>2, <2>3 DEF Readdir
  <1>7. CASE ListEntry
    <2>1. /\ UNCHANGED <<op, arg, tree, left, broken>>
          /\ stream \in Int /\ stream <= Entries /\ listed \in Int /\ Entries \in Nat
          /\ 0 <= listed /\ listed < stream
      BY <1>7, HandlersAssumption DEF ListEntry, InTurn, HandlersTypeOK
    <2>2. listed + 1 \in 0..Entries
      BY <2>1
    <2>3. ASSUME NEW f \in BOOLEAN, Answer(-ENOMEM), errno' = LogMsg(errno, f),
                 UNCHANGED <<stream, cause, listed>>
          PROVE  HandlersTypeOK'
      BY <2>1, <2>3, LogErrorType, ToldInt DEF Answer, ENOMEM, HandlersTypeOK
    <2>4. ASSUME NEW f \in BOOLEAN, listed' = listed + 1, stream < Entries,
                 stream' = stream + 1, errno' = LogMsg(errno, f), UNCHANGED <<pc, ret, cause>>
          PROVE  HandlersTypeOK'
      <3>1. stream' \in -1..Entries /\ errno' \in Nat
        BY <2>1, <2>4, LogErrorType DEF HandlersTypeOK
      <3> QED
        BY <2>1, <2>2, <2>4, <3>1 DEF HandlersTypeOK
    <2>5. ASSUME NEW f \in BOOLEAN, listed' = listed + 1, Answer(0),
                 NEW e \in Errnos \cup {errno}, NoEntry(e), errno' = LogFi(e, f)
          PROVE  HandlersTypeOK'
      <3>1. errno' \in Nat /\ ret' \in Int
        BY <1>5, <2>5, LogErrorType, ToldInt DEF Answer, LogFi
      <3> QED
        BY <1>5, <2>1, <2>2, <2>5, <3>1 DEF Answer, HandlersTypeOK
    <2> QED
      BY <1>7, <2>3, <2>4, <2>5 DEF ListEntry
  <1> QED
    BY <1>1, <1>2, <1>3, <1>4, <1>6, <1>7 DEF Handle, Read, Write, Ftruncate, Fgetattr, Fsync

LEMMA ResultType == HandlersTypeOK /\ Result => HandlersTypeOK'
  <1> SUFFICES ASSUME HandlersTypeOK, Result PROVE HandlersTypeOK'
    OBVIOUS
  <1>1. ret \in Int /\ errno \in Nat
    BY DEF HandlersTypeOK
  <1>2. ret' \in Int /\ errno' \in Nat /\ cause' \in Nat
    <2>1. CASE OpenResult
      <3> DEFINE R(a, b) == LogSyscall(ret, errno, a, b)
      <3>1. PICK a, b, c, d \in BOOLEAN :
                /\ Answer(IF R(a, b).ret < 0 THEN LogError(R(a, b).errno, c).ret ELSE 0)
                /\ errno' = LogFi(IF R(a, b).ret < 0 THEN LogError(R(a, b).errno, c).errno
                                                    ELSE R(a, b).errno, d)
        BY <2>1 DEF OpenResult
      <3>2. R(a, b).errno \in Nat
        BY <1>1, LogSyscallType
      <3>3. LogError(R(a, b).errno, c).ret \in Int /\ LogError(R(a, b).errno, c).errno \in Nat
        BY <3>2, LogErrorType
      <3>4. ret' \in Int /\ errno' \in Nat
        BY <3>1, <3>2, <3>3, ToldInt, LogErrorType DEF Answer, LogFi
      <3> QED
        BY <2>1, <3>4 DEF OpenResult, HandlersTypeOK
    <2>2. CASE ErrorResult
      BY <1>1, <2>2, ToldInt, LogErrorType DEF ErrorResult, Answer, LogStat, HandlersTypeOK
    <2>3. CASE SyscallResult
      <3> DEFINE R(a, b) == LogSyscall(ret, errno, a, b)
      <3>1. PICK a, b, c \in BOOLEAN :
                \/ /\ errno' = LogStat(R(a, b).errno, c)
                   /\ Answer(R(a, b).ret)
                \/ /\ \E status \in SystemResults \ {0} :
                        Answer(status) /\ errno' \in SystemErrno(status, R(a, b).errno)
        BY <2>3 DEF SyscallResult
      <3>2. R(a, b).errno \in Nat /\ R(a, b).ret \in Int
        BY <1>1, LogSyscallType
      <3>3. errno' \in Nat
        BY <3>1, <3>2, LogErrorType, SystemTypes DEF LogStat
      <3>4. ret' \in Int
        BY <3>1, <3>2, SystemTypes, ToldInt DEF Answer
      <3>5. cause' = cause
        BY <2>3 DEF SyscallResult
      <3> QED
        BY <3>3, <3>4, <3>5 DEF HandlersTypeOK
    <2> QED
      BY <2>1, <2>2, <2>3 DEF Result
  <1>3. broken' \subseteq {"msg", "retstat", "error"}
    BY DEF Result, OpenResult, ErrorResult, SyscallResult, Broken, HandlersTypeOK
  <1> QED
    BY <1>2, <1>3 DEF Result, OpenResult, ErrorResult, SyscallResult, Answer, HandlersTypeOK

LEMMA HandlersTypeStep == HandlersTypeOK /\ InTurn /\ [Serve]_handlerVars => HandlersTypeOK'
  <1> SUFFICES ASSUME HandlersTypeOK, InTurn, [Serve]_handlerVars PROVE HandlersTypeOK'
    OBVIOUS
  <1>1. ASSUME NEW o \in Ops, NEW p \in Paths, Receive(o, p) PROVE HandlersTypeOK'
    <2>1. "getattr" \in Ops
      BY DEF Ops, Copying
    <2>2. errno' \in Nat
      BY <1>1, LogErrorType DEF Receive, LogFi, HandlersTypeOK
    <2> QED
      BY <1>1, <2>1, <2>2 DEF Receive, HandlersTypeOK
  <1>2. CASE Ensure
    <2>1. tree' \in [Paths -> {"none", "file", "dir"}]
      BY <1>2 DEF Ensure, HandlersTypeOK
    <2>2. ret' \in Int
      BY <1>2, ToldInt DEF Ensure, Answer, SystemResults, Status, HandlersTypeOK
    <2>3. errno' \in Nat
      BY <1>2, SystemTypes DEF Ensure, HandlersTypeOK, ENOENT, SystemResults
    <2>4. /\ UNCHANGED <<op, arg, left, stream, cause, broken, listed>>
          /\ pc' \in {"force", "call", "answered"}
      BY <1>2 DEF Ensure, Answer
    <2> QED
      BY <2>1, <2>2, <2>3, <2>4 DEF HandlersTypeOK
  <1>3. CASE Deliver
    <2>1. 0 \in 0..Entries /\ Root \in Paths
      BY HandlersAssumption
    <2> QED
      BY <1>3, <2>1 DEF Deliver, HandlersTypeOK
  <1>4. CASE UNCHANGED handlerVars
    BY <1>4 DEF handlerVars, request, HandlersTypeOK
  <1>5. CASE ForceCopy
    <2>1. errno' \in Nat
      BY <1>5, SystemTypes DEF ForceCopy, HandlersTypeOK
    <2> QED
      BY <1>5, <2>1 DEF ForceCopy, HandlersTypeOK
  <1> QED
    BY <1>1, <1>2, <1>3, <1>4, <1>5, OwnPathType, StrayPathType, HandleType, ResultType
    DEF Serve

LEMMA InTurnStep == HandlersTypeOK /\ InTurn /\ [Serve]_handlerVars => InTurn'
  <1> SUFFICES ASSUME HandlersTypeOK, InTurn, [Serve]_handlerVars PROVE InTurn'
    OBVIOUS
  <1>1. Copying \cap OnStream = {} /\ "open" \notin OnStream
    BY DEF Copying, OnStream
  <1>2. ASSUME NEW o \in Ops, NEW p \in Paths, Receive(o, p) PROVE InTurn'
    BY <1>1, <1>2 DEF Receive, Fits, InTurn, OnStream
  <1>3. CASE Ensure
    BY <1>1, <1>3 DEF Ensure, Answer, InTurn
  <1>4. CASE ForceCopy
    BY <1>1, <1>4 DEF ForceCopy, InTurn
  <1>5. ASSUME pc' \in {"log", "answered"} PROVE InTurn'
    BY <1>5 DEF InTurn
  <1>6. CASE OwnPath \/ StrayPath
    BY <1>5, <1>6 DEF OwnPath, Getattr, Mknod, Truncate, Open, Setxattr, Getxattr, Listxattr,
        Removexattr, Chown, Access, Reads, StrayPath, Mkdir, Unlink, Rmdir, Symlink, Link,
        Readlink, Chmod, Utime, Statfs, Rename, Opendir, Stray, Calls
  <1>7. CASE Readdir
    <2>1. pc' = "listing" => /\ stream' = stream + 1 /\ listed' = listed /\ op' = op
                             /\ pc = "call" /\ op = "readdir"
      BY <1>7 DEF Readdir, Answer
    <2>2. pc' \in {"listing", "answered"}
      BY <1>7 DEF Readdir, Answer
    <2> QED
      BY <1>5, <2>1, <2>2 DEF InTurn, OnStream, HandlersTypeOK
  <1>8. CASE ListEntry
    <2>1. pc' = "answered" \/ (pc' = pc /\ stream' = stream + 1 /\ listed' = listed + 1)
      BY <1>8 DEF ListEntry, Answer
    <2>2. pc = "listing" /\ op' = op
      BY <1>8 DEF ListEntry
    <2> QED
      BY <1>5, <2>1, <2>2 DEF InTurn, HandlersTypeOK
  <1>9. CASE Handle /\ ~Readdir /\ ~ListEntry
    BY <1>5, <1>9 DEF Handle, Read, Write, Ftruncate, Fgetattr, UsesHandle, Flush, Fsync,
                      Release, Releasedir, Answer, Calls
  <1>10. CASE Result
    BY <1>5, <1>10 DEF Result, OpenResult, ErrorResult, SyscallResult, Answer
  <1>11. CASE Deliver \/ UNCHANGED handlerVars
    BY <1>11 DEF Deliver, handlerVars, request, InTurn
  <1> QED
    BY <1>2, <1>3, <1>4, <1>6, <1>7, <1>8, <1>9, <1>10, <1>11 DEF Serve

\* Every variable of the process keeps its type.
THEOREM ProcessTypeCorrect == Spec => []TypeOK
  <1>1. Init => StartInv /\ HandlersTypeOK /\ InTurn
    BY StartInvInit, HandlersTypeInit DEF Init
  <1>2. StartInv /\ HandlersTypeOK /\ InTurn /\ [Next]_vars =>
            StartInv' /\ HandlersTypeOK' /\ InTurn'
    BY NextParts, StartInvStep, HandlersTypeStep, InTurnStep
  <1>3. StartInv /\ HandlersTypeOK => TypeOK
    BY DEF StartInv, TypeOK
  <1> QED
    BY <1>1, <1>2, <1>3, PTL DEF Spec

-------------------------------------------------------------------------------
(* The answers *)

\* What a handler carries from a system call to the answer: the result, and an
\* errno that is still the call's.
Carried ==
    /\ pc \in {"idle", "copy", "force", "call", "listing"} => cause = 0
    /\ pc = "log" => \/ ret = -1 /\ cause = errno /\ cause \in Errnos
                     \/ ret >= 0 /\ cause = 0

AnswerInv == HandlersTypeOK /\ InTurn /\ Carried /\ ErrnoIsTheCalls

LEMMA ErrnosArePositive == \A e \in Errnos : e \in Int /\ e > 0
  BY HandlersAssumption

\* A system call that fails is answered with its errno, or with the one that a log
\* write leaves.
LEMMA SyscallAnswers ==
    ASSUME NEW e \in Errnos, NEW f \in BOOLEAN, NEW g \in BOOLEAN
    PROVE  /\ LogSyscall(-1, e, f, g).ret = -LogSyscall(-1, e, f, g).errno
           /\ LogSyscall(-1, e, f, g).errno = IF g THEN ENOSPC ELSE e
  BY DEF LogSyscall, LogRetstat, LogError, LogMsg

LEMMA NegativeIsTold ==
    ASSUME NEW e \in Errnos \cup {ENOSPC}, Answer(-e), op # "release"
    PROVE  ret' = -e
  BY ErrnosArePositive DEF Answer, Told, ENOSPC

LEMMA OpenAnswers ==
    ASSUME AnswerInv, OpenResult
    PROVE  ErrnoIsTheCalls'
  <1> DEFINE R(a, b) == LogSyscall(ret, errno, a, b)
  <1>1. PICK a, b, c \in BOOLEAN :
            /\ Answer(IF R(a, b).ret < 0 THEN LogError(R(a, b).errno, c).ret ELSE 0)
            /\ broken' = Broken(a, "retstat") \cup Broken(b \/ c, "error")
    BY DEF OpenResult
  <1>2. cause' = cause /\ pc = "log" /\ op = "open"
    BY DEF OpenResult
  <1>3. CASE cause = 0
    BY <1>2, <1>3 DEF ErrnoIsTheCalls
  <1>4. CASE cause # 0
    <2>1. ret = -1 /\ errno \in Errnos /\ cause = errno
      BY <1>2, <1>4 DEF AnswerInv, Carried
    <2> DEFINE e == R(a, b).errno
    <2>2. R(a, b).ret = -e /\ e = IF b THEN ENOSPC ELSE errno
      BY <2>1, SyscallAnswers
    <2>3. e \in Errnos \cup {ENOSPC} /\ e \in Int /\ e > 0
      BY <2>1, <2>2, ErrnosArePositive DEF ENOSPC
    <2>4. LogError(e, c).ret = -e
      BY DEF LogError
    <2>5. Answer(-e)
      BY <1>1, <2>2, <2>3, <2>4
    <2>6. ret' = -e
      BY <1>2, <2>3, <2>5, NegativeIsTold
    <2>7. b => "error" \in broken'
      BY <1>1 DEF Broken
    <2> QED
      BY <1>2, <2>1, <2>2, <2>6, <2>7 DEF ErrnoIsTheCalls
  <1> QED
    BY <1>3, <1>4

LEMMA ErrorOnlyAnswers ==
    ASSUME AnswerInv, ErrorResult
    PROVE  ErrnoIsTheCalls'
  <1>1. PICK a, b \in BOOLEAN :
            /\ Answer(IF ret < 0 THEN LogError(LogMsg(errno, a), b).ret ELSE ret)
            /\ broken' = Broken(a, "msg")
    BY DEF ErrorResult
  <1>2. cause' = cause /\ pc = "log" /\ op # "release"
    BY DEF ErrorResult, LogErrorOnly
  <1>3. CASE cause = 0
    BY <1>2, <1>3 DEF ErrnoIsTheCalls
  <1>4. CASE cause # 0
    <2>1. ret = -1 /\ errno \in Errnos /\ cause = errno
      BY <1>2, <1>4 DEF AnswerInv, Carried
    <2> DEFINE e == LogMsg(errno, a)
    <2>2. e \in Errnos \cup {ENOSPC} /\ e = IF a THEN ENOSPC ELSE errno
      BY <2>1 DEF LogMsg
    <2>3. Answer(-e)
      BY <1>1, <2>1 DEF LogError
    <2>4. ret' = -e
      BY <1>2, <2>2, <2>3, NegativeIsTold
    <2>5. a => "msg" \in broken'
      BY <1>1 DEF Broken
    <2> QED
      BY <1>2, <2>1, <2>2, <2>4, <2>5 DEF ErrnoIsTheCalls
  <1> QED
    BY <1>3, <1>4

LEMMA SyscallResultAnswers ==
    ASSUME AnswerInv, SyscallResult
    PROVE  ErrnoIsTheCalls'
  <1> DEFINE R(a, b) == LogSyscall(ret, errno, a, b)
  <1>1. cause' = cause /\ pc = "log" /\ op' = op
    BY DEF SyscallResult
  <1>2. CASE cause = 0 \/ op = "release"
    BY <1>1, <1>2 DEF ErrnoIsTheCalls
  <1>3. CASE cause # 0 /\ op # "release"
    <2>1. ret = -1 /\ errno \in Errnos /\ cause = errno
      BY <1>1, <1>3 DEF AnswerInv, Carried
    <2>2. PICK a, b \in BOOLEAN :
              /\ Answer(R(a, b).ret) \/ R(a, b).ret = 0
              /\ broken' = Broken(a, "retstat") \cup Broken(b, "error")
      BY DEF SyscallResult
    <2> DEFINE e == R(a, b).errno
    <2>3. R(a, b).ret = -e /\ e = IF b THEN ENOSPC ELSE errno
      BY <2>1, SyscallAnswers
    <2>4. e \in Errnos \cup {ENOSPC} /\ -e # 0
      BY <2>1, <2>3, ErrnosArePositive DEF ENOSPC
    <2>5. ret' = -e
      BY <1>3, <2>2, <2>3, <2>4, NegativeIsTold
    <2>6. b => "error" \in broken'
      BY <2>2 DEF Broken
    <2> QED
      BY <1>1, <2>1, <2>3, <2>5, <2>6 DEF ErrnoIsTheCalls
  <1> QED
    BY <1>2, <1>3

\* The first readdir() that fails is answered with its errno; in the loop it is not.
LEMMA ReaddirAnswers ==
    ASSUME AnswerInv, Readdir \/ ListEntry
    PROVE  ErrnoIsTheCalls'
  <1>1. cause = 0 /\ op' = "readdir" /\ op = "readdir"
    BY DEF AnswerInv, Carried, InTurn, Readdir, ListEntry
  <1>2. CASE cause' = 0 \/ pc' # "answered"
    BY <1>2 DEF ErrnoIsTheCalls
  <1>3. CASE cause' # 0 /\ pc' = "answered" /\ Readdir
    <2>1. PICK f \in BOOLEAN, e \in Errnos \cup {errno}, g \in BOOLEAN :
              /\ NoEntry(e)
              /\ Answer(LogError(LogMsg(e, f), g).ret)
              /\ broken' = Broken(f, "msg")
      BY <1>3 DEF Readdir
    <2>2. e \in Errnos /\ cause' = e
      BY <1>1, <1>3, <2>1 DEF NoEntry
    <2> DEFINE told == LogMsg(e, f)
    <2>3. told \in Errnos \cup {ENOSPC} /\ told = IF f THEN ENOSPC ELSE e
      BY <2>2 DEF LogMsg
    <2>4. ret' = -told
      BY <1>1, <2>1, <2>3, NegativeIsTold DEF LogError
    <2>5. f => "msg" \in broken'
      BY <2>1 DEF Broken
    <2> QED
      BY <2>2, <2>3, <2>4, <2>5 DEF ErrnoIsTheCalls
  <1>4. CASE cause' # 0 /\ ListEntry
    <2>1. listed' = listed + 1 /\ listed \in Int /\ 0 <= listed
      BY <1>1, <1>4 DEF ListEntry, AnswerInv, HandlersTypeOK, InTurn
    <2> QED
      BY <1>1, <2>1 DEF ErrnoIsTheCalls
  <1> QED
    BY <1>2, <1>3, <1>4

LEMMA AnsweredStep == AnswerInv /\ [Serve]_handlerVars => ErrnoIsTheCalls'
  <1> SUFFICES ASSUME AnswerInv, [Serve]_handlerVars PROVE ErrnoIsTheCalls'
    OBVIOUS
  <1>1. ASSUME pc' # "answered" \/ cause' = 0 PROVE ErrnoIsTheCalls'
    BY <1>1 DEF ErrnoIsTheCalls
  <1>2. ASSUME NEW o \in Ops, NEW p \in Paths, Receive(o, p) PROVE ErrnoIsTheCalls'
    BY <1>1, <1>2 DEF Receive
  <1>3. CASE Ensure \/ ForceCopy
    BY <1>1, <1>3 DEF Ensure, ForceCopy, AnswerInv, Carried
  <1>4. CASE OwnPath \/ StrayPath
    BY <1>1, <1>4 DEF OwnPath, Getattr, Mknod, Truncate, Open, Setxattr, Getxattr, Listxattr,
        Removexattr, Chown, Access, Reads, StrayPath, Mkdir, Unlink, Rmdir, Symlink, Link,
        Readlink, Chmod, Utime, Statfs, Rename, Opendir, Stray, Calls
  <1>5. CASE Handle /\ ~Readdir /\ ~ListEntry
    <2>1. pc' = "log" \/ (pc = "call" /\ cause' = cause)
      BY <1>5 DEF Handle, Read, Write, Ftruncate, Fgetattr, UsesHandle, Calls, Flush, Fsync,
                  Release, Releasedir
    <2> QED
      BY <1>1, <2>1 DEF AnswerInv, Carried
  <1>6. CASE Result
    BY <1>6, OpenAnswers, ErrorOnlyAnswers, SyscallResultAnswers DEF Result
  <1>7. CASE Deliver
    BY <1>1, <1>7 DEF Deliver
  <1>8. CASE UNCHANGED handlerVars
    BY <1>8 DEF handlerVars, request, AnswerInv, ErrnoIsTheCalls
  <1> QED
    BY <1>2, <1>3, <1>4, <1>5, <1>6, <1>7, <1>8, ReaddirAnswers DEF Serve

LEMMA CarriedStep == AnswerInv /\ [Serve]_handlerVars => Carried'
  <1> SUFFICES ASSUME AnswerInv, [Serve]_handlerVars PROVE Carried'
    OBVIOUS
  <1>1. ASSUME pc' = "answered" PROVE Carried'
    BY <1>1 DEF Carried
  <1>2. ASSUME pc' # "log", pc \notin {"log", "answered"}, cause' = cause,
               pc \in {"idle", "copy", "force", "call", "listing"}
        PROVE  Carried'
    BY <1>2 DEF Carried, AnswerInv
  <1>3. ASSUME pc = "call", pc' = "log", Fails \/ Succeeds \/ GetsErrno PROVE Carried'
    <2>1. CASE Succeeds
      BY <1>3, <2>1 DEF Succeeds, Carried, AnswerInv
    <2>2. CASE GetsErrno
      BY <1>3, <2>2 DEF GetsErrno, Carried
    <2> QED
      BY <1>3, <2>1, <2>2 DEF Fails
  <1>4. ASSUME NEW o \in Ops, NEW p \in Paths, Receive(o, p) PROVE Carried'
    BY <1>2, <1>4 DEF Receive
  <1>5. CASE Ensure \/ ForceCopy
    BY <1>1, <1>2, <1>5 DEF Ensure, ForceCopy, Answer
  <1>6. CASE OwnPath \/ StrayPath
    <2>1. pc = "call" /\ pc' = "log"
      BY <1>6 DEF OwnPath, Getattr, Mknod, Truncate, Open, Setxattr, Getxattr, Listxattr,
        Removexattr, Chown, Access, Reads, StrayPath, Mkdir, Unlink, Rmdir, Symlink, Link,
        Readlink, Chmod, Utime, Statfs, Rename, Opendir, Stray, Calls
    <2>2. Fails \/ Succeeds \/ GetsErrno
      BY <1>6 DEF OwnPath, Getattr, Mknod, Truncate, Open, Setxattr, Getxattr, Listxattr,
        Removexattr, Chown, Access, Reads, StrayPath, Mkdir, Unlink, Rmdir, Symlink, Link,
        Readlink, Chmod, Utime, Statfs, Rename, Opendir, Stray
    <2> QED
      BY <1>3, <2>1, <2>2
  <1>7. CASE Handle
    <2>1. ASSUME NEW o, UsesHandle(o) PROVE Carried'
      BY <1>3, <2>1 DEF UsesHandle, Calls
    <2>2. CASE Readdir \/ ListEntry
      BY <1>1, <1>2, <2>2 DEF Readdir, ListEntry, Answer
    <2> QED
      BY <1>1, <1>7, <2>1, <2>2 DEF Handle, Read, Write, Ftruncate, Fgetattr, Flush, Fsync,
                                    Release, Releasedir, Answer
  <1>8. CASE Result
    BY <1>1, <1>8 DEF Result, OpenResult, ErrorResult, SyscallResult, Answer
  <1>9. CASE Deliver \/ UNCHANGED handlerVars
    BY <1>9 DEF Deliver, handlerVars, request, Carried, AnswerInv
  <1> QED
    BY <1>4, <1>5, <1>6, <1>7, <1>8, <1>9 DEF Serve

LEMMA AnswerInvInit == HandlersInit => AnswerInv
  BY HandlersTypeInit DEF HandlersInit, AnswerInv, Carried, ErrnoIsTheCalls

\* A handler whose own system call fails never answers it as a success, and answers
\* with its errno, unless a log write that comes before errno is read, and that
\* nobody guards, fails: then with ENOSPC.
THEOREM ErrnoReachesKernel == Spec => []ErrnoIsTheCalls
  <1>1. AnswerInv /\ [Next]_vars => AnswerInv'
    BY NextParts, HandlersTypeStep, InTurnStep, CarriedStep, AnsweredStep DEF AnswerInv
  <1>2. AnswerInv => ErrnoIsTheCalls
    BY DEF AnswerInv
  <1>3. Init => AnswerInv
    BY AnswerInvInit DEF Init
  <1> QED
    BY <1>1, <1>2, <1>3, PTL DEF Spec
===============================================================================
