------------------------------- MODULE Startup --------------------------------
(***************************************************************************)
(* How a nofs process comes up: main() of src/src/nofs.c picks the five    *)
(* arguments that are its own out of the command line, leaves the rest to  *)
(* libfuse, and opens the log.                                             *)
(*                                                                         *)
(* The arguments are known by their position, 0 being the program's name,  *)
(* so that two of them are never taken for each other.  A "flag" is an     *)
(* option that is complete, "-o" one that takes the next argument.         *)
(***************************************************************************)
EXTENDS Integers, Sequences

CONSTANT MaxArguments    \* bound on the arguments of a command line

ASSUME MaxArgumentsAssumption == MaxArguments \in Nat

VARIABLES
    stage,    \* how far the process is
    line,     \* the arguments: "flag", "-o" or "word"
    ones,     \* the positions of arguments that atoi() does not turn into 0
    root,     \* the user is root
    data,     \* struct nofs_state: the positions of its strings, its transport
    args      \* what libfuse gets after the program's name: positions

startVars == <<stage, line, ones, root, data, args>>

Stages == {"main", "checked", "read", "logging", "serving", "ended", "aborted", "crashed"}
NoData == [transport |-> FALSE, hostname |-> 0, root_dir |-> 0, cache_dir |-> 0]

StartInit ==
    /\ stage = "main"
    /\ \E n \in 0..MaxArguments :
        /\ line \in [1..n -> {"flag", "-o", "word"}]
        /\ ones \in {{}} \cup {{k} : k \in 1..n}
    /\ root \in BOOLEAN
    /\ data = NoData
    /\ args = << >>

argc == Len(line) + 1
Hyphen(k) == k > 0 /\ line[k] # "word"
Leaves(s) == stage' = s /\ UNCHANGED <<line, ones, root, data, args>>

RefuseRoot ==
    /\ stage = "main" /\ root
    /\ Leaves("ended")

\* Mutant: one argument less will do.
CheckLineOffByOne ==
    /\ stage = "main" /\ ~root
    /\ Leaves(IF argc < 3 \/ \E k \in argc-5..argc-1 : Hyphen(k)
              THEN "aborted" ELSE "checked")

\* The check of the last five arguments reads argv[-1] when there are three:
\* on the stack of a new process that is argc, and no address.
CheckLine ==
    /\ stage = "main" /\ ~root
    /\ Leaves(CASE argc < 4 \/ \E k \in argc-4..argc-1 : Hyphen(k) -> "aborted"
                [] argc = 4 /\ ~\E k \in argc-4..argc-1 : Hyphen(k) -> "crashed"
                [] OTHER -> IF Hyphen(argc - 5) THEN "aborted" ELSE "checked")

\* malloc has no room for struct nofs_state.
NoMemory ==
    /\ stage = "checked"
    /\ Leaves("aborted")

\* Mutant: the transport is read where the mount point has been put.
ReadLineLate ==
    /\ stage = "checked"
    /\ data' = [transport |-> argc - 2 \in ones, hostname |-> argc - 4,
                root_dir |-> argc - 3, cache_dir |-> argc - 1]
    /\ args' = [k \in 1..argc-5 |-> IF k = argc - 5 THEN argc - 2 ELSE k]
    /\ stage' = "read"
    /\ UNCHANGED <<line, ones, root>>

\* nofs keeps four of the last five arguments and moves the mount point to
\* where the transport was.  The check lets a line with only four pass: then the
\* program's name is the transport, and the mount point takes its place.
ReadLine ==
    /\ stage = "checked"
    /\ data' = [transport |-> argc - 5 \in ones, hostname |-> argc - 4,
                root_dir |-> argc - 3, cache_dir |-> argc - 1]
    /\ args' = [k \in 1..argc-5 |-> IF k = argc - 5 THEN argc - 2 ELSE k]
    /\ stage' = "read"
    /\ UNCHANGED <<line, ones, root>>

OpenLog ==
    /\ stage = "read"
    /\ Leaves("logging") \/ Leaves("ended")

\* libfuse: the one word that is no option's argument is the mount point.
Taken[k \in Nat] == k > 1 /\ line[args[k - 1]] = "-o" /\ ~Taken[k - 1]
Words == {k \in 1..Len(args) : ~Hyphen(args[k]) /\ ~Taken[k]}

\* fuse_main mounts the file system and calls nofs_init, which hands on the
\* nofs_state it was given.  Nobody reads the command line again.
FuseMain ==
    /\ stage = "logging"
    /\ \/ /\ Words = {Len(args)}
          /\ stage' = "serving"
          /\ line' = << >> /\ ones' = {}
          /\ args' = <<args[Len(args)]>>
          /\ UNCHANGED <<root, data>>
       \/ Leaves("ended")

\* The file system is unmounted: nofs_destroy, and main() returns.
Destroy ==
    /\ stage = "serving"
    /\ Leaves("ended")

Start == RefuseRoot \/ CheckLine \/ NoMemory \/ ReadLine \/ OpenLog \/ FuseMain

-------------------------------------------------------------------------------
StartTypeOK ==
    /\ stage \in Stages
    /\ line \in Seq({"flag", "-o", "word"})
    /\ ones \subseteq 1..Len(line)
    /\ root \in BOOLEAN
    /\ data \in [transport : BOOLEAN, hostname : Nat, root_dir : Nat, cache_dir : Nat]
    /\ args \in Seq(Nat)

\* What the usage text of nofs_usage says: a process that serves was given at
\* least fastTransport, hostName, rootDir, mountPoint and cacheDir, in this order
\* after any options, and each is where the handlers and libfuse look for it.
ServesAsUsed ==
    [][stage # "serving" /\ stage' = "serving" =>
        LET n == Len(line) IN
            /\ n >= 5 /\ \A k \in n-4..n : line[k] = "word"
            /\ data' = [transport |-> n - 4 \in ones, hostname |-> n - 3,
                        root_dir |-> n - 2, cache_dir |-> n]
            /\ args'[1] = n - 1]_startVars
===============================================================================
