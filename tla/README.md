# nofs, modelled and checked

nofs is a FUSE file system. It shows a directory of a remote host under a mount
point by copying files, on demand, into a cache directory, and by copying them
back when they are closed. The copies are made by `scp`, or by `wget` and `curl`
against a small HTTP server. This directory holds TLA+ modules of its parts, the
TLC configurations that check them, and TLAPS proofs: that what nofs has reported
as stored is not lost, that all mounts together are one store of shared files,
that nobody reads a half copied file, that the HTTP server loses nothing of a form
but what its treatment of headers costs, and that a process starts with the
arguments it was given and answers a failed system call with its errno.

Line numbers refer to `src/src/nofs.c` unless a file is named.

## The system

| component | state | operations | where it gets hard |
|---|---|---|---|
| File handlers (145-231, 340-598, 911-960) | what is open (`fi->fh`), nothing else: every decision is read off the cache directory | getattr, mknod, truncate, open, read, write, flush, release, fsync, ftruncate, fgetattr | `access()` and the copy it leads to are two steps; an open for writing replaces a file that others have open; a release whose result nobody reads |
| Cache directory (51-59, 111-123) | one file per path that has ever been looked at | filled by `ensure_local_file`, replaced by `nofs_open`, never emptied by nofs; the user and `mount.sh` remove files | a copy is good for ever: its existence is all that is tested |
| Transfers (66-109, 125-132) | a running `scp`, `wget` or `curl` | get, put | in place, not atomic; may fail before or in the middle; `wget -O` empties its destination first; `curl` sends the path |
| Remote tree | files | read and written by every mount | no locks and no versions: the last put wins |
| HTTP server (`benchmarks/server_test_files/http_server.py`) | the directory it serves, the connection it is working on | GET, HEAD, POST of a multipart form | single-threaded; reads a form line by line and has to find its end |
| Name handlers (175-324: readlink, mkdir, unlink, rmdir, symlink, rename, link, chmod; utime 358, statfs 472, opendir 694) | none | pass an `fpath` to a system call | nothing ever writes `fpath`: it is what an earlier handler has left on the stack |
| Attributes (chown 327, xattrs 609-688, access 867) | the cache file's attributes | xattrs through `ensure_local_file`, chown and access on whatever is in the cache | they stay in the cache and are lost with it: no put carries an owner or an xattr |
| Directory handles (694-818) | a `DIR *` and its position | opendir, readdir, releasedir, fsyncdir | readdir never rewinds: a second listing starts where the first one ended |
| Start (962-1069) | `struct nofs_state` | `main` checks and shuffles `argv` | one argument more is read than is checked for |
| Log and results (`src/src/log.c`) | a `FILE *`, `errno` | printing; `log_syscall` turns -1 into `-errno` | `errno` is read again after the log has been written; handlers overwrite and hand on results |
| Mount scripts (`mount.sh`, `scp_mount.sh`, `http_mount.sh`) | none | unmount, empty the cache, start nofs | a restart is a fresh cache |
| Benchmarks and tests | none | clients | `test-cat-fs.sh` removes files from the cache; `lab_script.c` opens a file twice |

The kernel turns what an application does with a path into requests: a lookup
(getattr), a mknod if the file is to be made, an open, reads and writes, a flush
for `close(2)`, and a release after it. nofs serves several requests at once,
unless it is mounted with `-s`. A handler that needs a copy runs a command with
`system()` and waits. The mounts share the remote tree and nothing else.

What makes the parts right:

* what a put has reported stays on the remote, whatever others do afterwards;
* no put takes from the remote what it did not know of;
* a reader finds whole files, its own mount's updates among them;
* every request is answered;
* a failed system call is answered as a failure, with the `errno` of that call;
* a process serves only with its five arguments where the usage text has them;
* the server stores the content of a form whose parts have a Content-Type, all but
  the first line of one whose parts have none, and hands out whole files.

## Modules

| module | what it is |
|---|---|
| `Nofs` | the file handlers, the cache directories, the remote tree and the transfers: one specification over both transports, with and without `-s` |
| `NofsProperties` | the type invariant, and the safety, action and liveness properties of `Nofs` |
| `NofsInvariant` | the inductive invariant over scp, and the discipline it needs |
| `SharedStore` | the abstract specification: a store from which files are checked out, changed and checked in |
| `NofsStore` | the refinement mapping: `Nofs` implements `SharedStore` |
| `HttpServer` | `http_server.py` with its clients, and its properties |
| `HttpInvariant` | the inductive invariant of the server |
| `FileServer` | the abstract specification: a server on which requests take effect as a whole |
| `HttpFiles` | the refinement mapping: `HttpServer` implements `FileServer` |
| `Startup` | `main`: the command line, `struct nofs_state`, the log file, what libfuse gets |
| `Handlers` | every handler of `nofs_oper` by what it tells the kernel, with `errno`, the log and the stack |
| `Process` | `Startup` and `Handlers` composed: a process from its command line to its end |
| `MCNofs`, `MCHttpServer` | instances for TLC; `Process` is run as it is |
| `NofsProofs` | type correctness, the inductive invariant, nothing lost |
| `NofsReadProofs` | readers see whole files |
| `NofsCreateProofs` | which handlers make files, and where |
| `NofsOwnProofs` | what a mount shows of its own updates |
| `SharedStoreProofs`, `NofsStoreProofs` | the abstract store keeps what it reports; `Nofs` implements it |
| `HttpServerProofs` | the server's invariant, whole uploads and answers; `HttpServer` implements `FileServer` |
| `ProcessProofs` | the command line and the answers |

How they meet. `Process` and `Nofs` are two views of one program. `Nofs` follows
a file across handlers, mounts and transfers, and takes from a handler's result
only whether the kernel goes on. `Handlers` follows one thread through one request
and takes from a transfer only its status. `Handlers!Ensure` has every result
`Nofs!FetchReturn` can come from, and `Nofs!Getattr`, `Mknod`, `Open`, `Truncate`
and `Xattr` end or go on where `Handlers` answers a failure or 0.

`Nofs` and `HttpServer` meet at two places. A get over HTTP reads a file the
server has whole (`HttpServer!GetsSendWholeFiles`), so `Nofs!Uploading` is empty
over HTTP. A put over HTTP is a form whose content is one line, the path of the
cache file: `HttpServer!Stored` makes of it the path if curl knows a type for the
file's extension, and an empty file if not, because the first line of the content
is then lost; these are the two contents of
`Nofs!StartPut`. Either way `do_POST` never ends its header, curl finds an empty
reply and fails, and so does `Nofs!EndPut`.

### Nofs

*Files.* The content of a file is the set of updates it has incorporated: `made`
is its creation, `base` what the remote starts with, `s` what session `s` has
written. That is enough to tell a new copy from an old one, a whole one from a
torn one, and whose write is missing; which bytes they are does not matter. A
half copied file is `Torn(old, new)`: what both have is there, the rest may be.

*Sessions.* A session is one use of one path: `stat`, `read`, `write`, `create`,
`truncate` or `xattr`. `pc[s]` says how far its current request is. `access`, `put` and
`close` are requests nofs has yet to pick up; `opened` means that it is the
application's turn; `get got found missing force forced fd putting` are positions
inside a handler. `found` and `missing` are the two results of
`ensure_local_file`. A session that has ended is `done`, or `leaked` if its
release has kept the descriptor.

| action | code |
|---|---|
| `Begin` | the application names a path; the kernel looks it up |
| `EnsureLocalFile` | 111-120: `access()` on the cache file |
| `StartFetch`, `FailFetch`, `EndFetch`, `BreakFetch` | 79-109: the command starts, fails, ends, breaks off; `FetchReturn` is what 119 and 396 do with the result |
| `Getattr` | 145-161: `lstat()` overwrites the result of `ensure_local_file` |
| `Mknod`, `MknodFails` | 200-231: a failed copy is taken to mean that there is no such file |
| `Open`, `OpenFd` | 379-411: the forced copy, whose result is dropped, then `open(2)` |
| `Truncate` | 340-354 |
| `Xattr` | 609-687: the four handlers copy the file if they have to; attributes are no content |
| `Write`, `Ftruncate` | 451-463, 911-924, through `fi->fh` |
| `Fsync`, `Close` | 566-598; 513-520, which does nothing, so that the put comes with the release |
| `ReleaseReader`, `StartPut`, `FailPut`, `EndPut`, `BreakPut` | 536-557 and 125-132; `PutReturn` is what 549 and 591 do with the result |
| `Evict` | the user removes a cache file, as `src/test/test-cat-fs.sh` does |
| `Remount` | nofs dies; `mount.sh` 34-37 starts it on an empty cache |

`nofs_read` and `nofs_fgetattr` change nothing; what they can find is
`LocalReads`. `nofs_flush` is the first half of `Close`.

*Interleaving.* Between the steps of a handler anything else may happen: other
handlers of the mount (with `Threaded`; with `-s`, `CanRun` lets the next request
in when the last one has returned), other mounts, the user. When something else
writes the destination of a running transfer, `mixed` records it and the transfer
may leave any mixture (`Landed`).

*What the applications do.* nofs has no locks. `Exclusion` says what applications
do about it: `none`; `opens`, no path is open for writing twice, on any mount, as far
as applications can tell, that is from `open(2)` to `close(2)`; `writers`, nor
before the release has put the file; `paths`, in addition no other session of the
same mount on a path while it is being written.

Only `none` and `opens` are disciplines an application can keep by itself. What
`writers` waits for, the end of a put in a release, nofs shows to nobody: whoever
keeps it must know by other means, such as looking at the remote, and what is
checked and proved under it says what nofs does for such applications. `close_lost`
shows what happens to those that keep `opens`. `paths` is stronger still;
`benchmarks/lab_script.c`, which opens a file twice on one mount, does not keep it.

No mount script passes `-s` to nofs. The runs and theorems with `-s` (`Threaded`
is FALSE) are about a mount made in another way than the scripts make it; for the
threads the scripts do get, only what is said under `paths` holds, and what
`close_lost` and `forced_copy` show. Without threads the interleavings of one
handler's steps with another's on the same mount are gone, those with other mounts
are not.

*Faults.* `unreachable` (a command fails at once), `partial` (it breaks off in
the middle), `evict`, `remount`, and the descriptor limit `FdLimit`.

*Auxiliary variables.* `acked` collects what puts have reported; `wrote` and
`stale` mark sessions that have written, and that have opened for writing
without the forced copy. No action reads them.

### SharedStore and NofsStore

`SharedStore` is what an application that shares files through nofs may think of:
stored `files`, one copy at a time `out` with a user, and what has been `reported`.
`CheckOut` gives a copy that has all of the file, `Change` only adds to it,
`Store` puts all or part of it back, with or without a report, and takes nothing
away; `Lose` is a mount that dies with what is checked out through it. A user who
was told of a copy that did not arrive is `behind`, and of that user nothing is
promised. There are no caches, transfers, descriptors or requests.

`NofsStore` maps `Nofs` onto it. `files` is the remote tree, `reported` is
`acked`, `behind` the sessions that are `stale`. What a session has out is its
cache file from the `open(2)` of `nofs_open` to the end of `nofs_release`, and
nothing at any other time. `OpenFd` is then `CheckOut`; `Write`, `Ftruncate` and
another session's `Truncate` are `Change`; `StartPut`, `EndPut` and `BreakPut` are
`Store`; a release and `Remount` are `Store` or `Lose`; a fetch that fails is
`FallBehind` or nothing; all the rest is a stutter.

### HttpServer

The clients send GET, HEAD and POST requests; the server takes one connection at
a time (`AcceptGet`, `AcceptPost`), as `http.server.HTTPServer` does (250-252).
What is left on a connection is `rest`, a sequence of bytes (`x`, `CR`, `LF`) and
of marks. A mark stands for a whole line of the form whose text does not matter:
the boundary, the Content-Disposition, the Content-Type. A content is any sequence
of bytes, and `Body` is what curl makes of it. curl leaves the Content-Type line
out for a text whose file name has no known extension (`untyped`); a request
without a form is `raw`. With `Cuts` a form breaks off after any byte.

`deal_post_data` (59-100) is modelled with one action per `readline()`, which
reads up to the next line end or, when the client has gone, what there is
(`Line`, `AfterLine`), and counts it in `remainbytes` (`ReadLine`).

| action | code |
|---|---|
| `Form`, `FileName` | 65-73: a line that has to be a certain one (`Expect`) |
| `Skip` | 76-77: the first line skipped |
| `Part` | 78-83: the second one, and the open that empties the file |
| `First` | 85-86 |
| `Loop` | 87-99, one round: `WritePreline`, or at the boundary `Chomp` and the end |
| `Ends` | 100 |
| `Return` | 50-57: the answer, whatever the result |

*Auxiliary variables.* `lost` counts the bytes of a form that never arrive.
`intended` is the last complete form for a file, as the client sent it (`Sent`). No
guard of the server reads them. The properties say what the server makes of that
form: `Stored` is the content sent if the part has a Content-Type, and the content
without its first line if it has none, as the lines skipped at 76-79 are then not
those of a header. `FilesAreWhole` says that this line is lost and that nothing
else ever is.

### FileServer and HttpFiles

`FileServer` is what a client of an HTTP server may think of: `files`, what each
client has `asked` and been `told`, and whose upload has been `stored`. A GET
answers with what the file holds, an upload replaces the file it names as a whole
and at most once between its arrival and its answer (`Replace`), or not at all
(`EndPost`). An upload that says what type of content it has is stored as it was
sent; of one that does not, some end of it is stored (`Kept`). There are no connections, forms or lines.

`HttpFiles` maps `HttpServer` onto it. `files` is what the last complete form for a
file leaves (`Held`) and what a client has asked is what it sent, so an upload takes
effect when `deal_post_data` opens the file; until the last line is written only the
server can tell, and `FilesAreWhole` says that from then on the directory holds the
same. A form that breaks off takes no effect in `FileServer`: it empties
or half fills its file in the directory, but then the server never leaves its loop
(`http_cut`), and no client is told of it.

### Startup, Handlers and Process

*Startup.* A command line is a sequence of kinds of argument (a word, an option,
an option that takes the next one) and the arguments are known by position, so
that none is taken for another. `CheckLine` is the test of 1038, which looks at
the last five arguments with `argc < 4`: with three arguments it reads `argv[-1]`,
which on a new stack is `argc` and is dereferenced (`crashed`), with four it takes
the program's name for the transport and puts the mount point in its place.
`ReadLine` is 1047-1058, `OpenLog` `log_open`, `FuseMain` what libfuse makes of
the rest, external: it finds a mount point only where exactly one word is no
option's argument.

*Handlers.* `Receive` is a request the kernel makes for a path it has looked up
(external: what the kernel checks first is `Fits`), `Ensure` the beginning of the
handlers that copy, `ForceCopy` the second copy of an open for writing, one action
per handler its system call, `OpenResult`, `ErrorResult` and `SyscallResult` the
three ways in which a result is logged and returned, `Deliver` the answer.
`nofs_readdir` is its first `readdir()` (`Readdir`) and the rounds of its loop
(`ListEntry`); each `readdir()` may fail, and the buffer may be full. libfuse takes
a positive result of most handlers for no valid errno, of `getxattr`, `listxattr`,
`read` and `write` for a length, and drops the result of a release (`Told`).

`cause` is an auxiliary variable, the errno of the handler's own system call if that
has failed. A copy or a put that has failed is another matter, as many such results
are dropped: `nofs_open` ignores the forced copy (396),
`nofs_getattr` and `nofs_getxattr` overwrite the result of `ensure_local_file`
(154-156, 632-634), `nofs_release` returns it to nobody (532). So nothing is
claimed of failed copies in general, and `ErrnoIsTheCalls` is about `cause`.

Every write to the log may fail and leave `ENOSPC` in `errno`; `log_retstat`
puts `errno` back, `log_error` takes it before it writes, and `log_syscall` drops
what `log_error` returns and reads `errno` after it. The dumps of structures are
one write each, as the last that fails decides.

*The unwritten path.* Eleven handlers pass an `fpath` that nothing has written.
What such an array holds is undefined; in the programs a compiler makes of it, it
is what an earlier call has left at that place of the stack. `left` collects the
paths that handlers of this thread have put together there, and `Stray` lets the
system call find any of them, or something that is no path and fails.

*One thread.* `Handlers` serves one request at a time with one `errno`, which is
thread-local, and one stack. The cache directory is a `tree` of files and
directories; one directory may be open, with `stream` its position.

## Checks

Run one with `tlc -config <name>.cfg <module>`.

| run | module | shows |
|---|---|---|
| `scp_exclusive` | MCNofs | two mounts, three sessions that look up, create or write one path, transfers that break off, mounts that die, `-s`, one writer at a time: nothing reported is lost (`NoLostUpdate`), a writer is never behind (`WriterHasRemote`), the remote never shrinks (`RemoteNeverShrinks`), only `nofs_mknod` makes files and only where there is none (`OnlyMknodInvents`, `CreatesOnlyWhereNoneIs`), and all of it is what `SharedStore` does (`ImplementsStore`) |
| `scp_threaded` | MCNofs | threads, unreachable remotes, broken transfers and truncations under the discipline `paths`: the same, and the same refinement |
| `scp_serial` | MCNofs | what readers see (`WholeRead`, `OwnUpdatesVisible`, `OpenFilesNeverGoBack`) and progress (`EveryRequestIsAnswered`) with `-s` and one descriptor |
| `http_serial` | MCNofs | HTTP, `-s`, no discipline, all uses, evictions and restarts: `WholeRead`, `EveryRequestIsAnswered` |
| `http_server` | MCHttpServer | forms of three kinds that break off after any byte: a complete form leaves what was sent, less the first line of an untyped one (`FilesAreWhole`); the server sends whole files (`GetsSendWholeFiles`), counts right (`RemainIsLeft`) and answers everyone unless a form breaks off (`AnsweredUnlessCut`), and is what `FileServer` says (`ImplementsFileServer`) |
| `process` | Process | every command line of up to six arguments, every handler, log writes that may fail: nofs serves only if it was started as the usage text says (`ServesAsUsed`), and a failed system call is answered as a failure, with its errno or the `ENOSPC` of an unguarded log write that failed (`ErrnoIsTheCalls`) |
| `http_put` | MCNofs | violated: a put over HTTP stores the path of the cache file |
| `forced_copy` | MCNofs | violated: a file is open for writing on an old copy |
| `fsync_copy` | MCNofs | violated: `fsync(2)` reports success and the write is gone |
| `unlink_stray` | Process | violated: an unlink that reports success has removed another file |
| `close_lost` | MCNofs | violated: what was written before `close(2)` is stored and stays |
| `http_cut` | MCHttpServer | violated: a form that breaks off keeps the server in its loop |

*Bounds.* In `MCNofs`: two mounts, because mounts meet only at the remote: a third
adds no pair. Three sessions, two on one mount and one on the other, so that a
reader, a writer and a writer elsewhere meet; every session makes one use of one
path, and a writer may write and fsync as often as it likes. One path, because
handlers of different paths touch different files; `http_serial` has two, as `-s`
and the descriptors tie them together. One update per session: a second write of
the same session is a write by the same owner to the same place. `FdLimit` is
small enough to be reached in `scp_exclusive`, `scp_serial` and `http_serial`.
`SessionSymmetry` exchanges the two sessions of the first mount, which differ in
nothing; it is not used in runs with liveness.

`HttpServer` has two clients that ask again and again, a file that can be written
and one that cannot, and contents that are empty, have no line end, have one at
their end, and have one in the middle and a CR in front of the line end that the
form adds. A line is whole, kept back or ahead, so two lines and a rest reach
every case of the loop; the proofs have contents of any length.

`Process` has lines of up to `MaxArguments = 6` arguments, one more than nofs
needs, so that there is room for an option or for a sixth word; the root and two
paths, so that a stray path can be another one than the one asked for; two
errnos; and directories of three entries. Nothing stops: an ended process
stutters, and `Terminated` is the end of all sessions of `Nofs`.

*Fairness.* In `Nofs`, `WF` of a session's handler: a command that was started
ends, one way or the other, and a handler goes on. `SF` of picking its request
up: with `-s` that is enabled again and again, whenever the request before has
returned, and libfuse reads requests from `/dev/fuse` in order. Nothing is assumed
of the applications: they need not write, fsync or close. In `HttpServer`, `WF`
of the server's steps and `SF` of accepting, for the listen queue is served in
order. `Process` states safety only.

*Mutants.* The operators marked `Mutant` are wrong forms of the definition that
follows them, such as an open for writing that is content with the copy in the
cache (`OpenKeepsCopy`). No specification uses them. Put in the place of that
definition, each makes TLC report the property `PROJECT.json` names with it, which
shows that the property can tell.

## Proofs

`tlapm <module>` checks them. They hold for any number of mounts, paths, sessions,
clients and arguments, any descriptor limit, contents and directories of any size
and, where nothing else is said, every fault.

| theorem | module | statement |
|---|---|---|
| `TypeCorrect` | NofsProofs | `Spec => []TypeOK`, for both transports and every discipline |
| `InvariantHolds` | NofsProofs | `Disciplined => (Spec => []IInv)` |
| `NothingLost` | NofsProofs | `Disciplined => (Spec => []NoLostUpdate)` |
| `WritersUpToDate` | NofsProofs | `Disciplined => (Spec => []WriterHasRemote)` |
| `RemoteOnlyGrows` | NofsProofs | `Disciplined => (Spec => RemoteNeverShrinks)` |
| `StoreImplemented` | NofsStoreProofs | `Disciplined => (Spec => ImplementsStore)` |
| `StoreKeepsReported` | SharedStoreProofs | the store keeps what it has reported while nobody is behind |
| `ReadersSeeWholeFiles` | NofsReadProofs | `Calm => (Spec => []WholeRead)`, over scp and HTTP, without a discipline |
| `OnlyMknodMakes` | NofsCreateProofs | `Disciplined => (Spec => OnlyMknodInvents)` |
| `CreatesWhereNoneIs` | NofsCreateProofs | `Disciplined /\ Telling => (Spec => CreatesOnlyWhereNoneIs)` |
| `OwnUpdatesShown` | NofsOwnProofs | `Disciplined /\ Calm => (Spec => []OwnUpdatesVisible)` |
| `ReadersNeverGoBack` | NofsOwnProofs | `Disciplined /\ Calm => (Spec => OpenFilesNeverGoBack)` |
| `InductiveInvariant` | HttpServerProofs | `Spec => []IInv`, the server's |
| `ServerTypeCorrect` | HttpServerProofs | `Spec => []TypeOK` |
| `UploadsAreWhole` | HttpServerProofs | `Spec => []FilesAreWhole` |
| `GetsAreWhole` | HttpServerProofs | `Spec => []GetsSendWholeFiles` |
| `RemainCorrect` | HttpServerProofs | `Spec => []RemainIsLeft` |
| `FilesServed` | HttpServerProofs | `Spec => ImplementsFileServer` |
| `ProcessTypeCorrect` | ProcessProofs | `Spec => []TypeOK` |
| `StartsAsUsed` | ProcessProofs | `Spec => ServesAsUsed` |
| `ErrnoReachesKernel` | ProcessProofs | `Spec => []ErrnoIsTheCalls` |

What they assume of the constants is `ConstantsAssumption`, `ServerAssumption`,
`MaxArgumentsAssumption` and `HandlersAssumption`, and of the applications, the
mount options and the faults:

* `Disciplined`: scp, and either the discipline `paths`, or `writers` with `-s`.
  `close_lost` and `fsync_copy` show that something of the kind is needed;
* `Calm`: `-s`, and transfers that run to their end. A torn copy stays in the
  cache for good, and with threads a reader can meet one that is being made;
* `Telling`: the remote answers, and torn copies are not removed. Otherwise a
  copy that failed says nothing about the remote, and 209 takes it for an answer.

*Nothing is lost (`IInv`).* A put replaces the remote file by the writer's copy,
so nothing is lost if that copy holds everything the remote has. `nofs_open`
makes it so by the copy it forces; three things could spoil it later:

* another writer, on any mount, puts in between: excluded by `Apart`;
* another handler copies the remote file over the cache file while the writer
  has changes in it. A second forced copy is another writer's. A copy started by
  `ensure_local_file` needs the file to be missing, and it is not as long as it
  is open (`WritersHaveCopy`), so it must have been started before; then its
  handler was still running when the writer's started, which `Serial` excludes
  with `-s` and `Apart` without (`NoFetchUnderWriter`);
* the forced copy or the put did not bring what it should, because something else
  wrote its destination (`Unmixed`), or because it failed; the sessions of which
  the second is true are `stale`, and the properties are stated for behaviours
  in which there are none (`ForcedCopiesArrived`).

`CarriesRemote` then follows the remote's content from the forced copy through
`buf`, the cache file and `buf` again into the remote, and `CarriesOwn` does so
for the session's own update. `IInv` joins these with `TypeOK`, `Made` (what
exists is at least an empty file) and `Roles` (only writers force or put). Each
is needed for the next; none is inductive alone. `CarriesOwn` is also what
`benchmarks/lab_script.c` 30-34 asserts: what one descriptor has written is in the
file another one of the same mount reads.

*The store.* Each action of `Nofs` is, under the mapping, the action of
`SharedStore` named above. From `IInv` comes that a check-out finds nobody else
with the file and the whole of it in the copy, and that a put takes nothing away;
`SendsCopy` adds that a put sends what is checked out, also when the writer is
behind. In the store itself `StoreInv` says that a copy of a user who is not
behind has all of the stored file.

*Whole files (`ReadInv`).* The argument follows one update, `base`, which the
remote has had from the start, so it needs no discipline: a copy that nobody is
fetching has it whenever the remote has (`CachesWhole`), because with `-s` nothing
but another put comes between a transfer and its destination (`Undisturbed`), a
fetch carries it (`CarryWhole`), and what is open is in the cache
(`OpenInCache`). Over HTTP the remote may lose it, to a put that sends a path; then
nothing is claimed, and a copy that still has it does no harm.

*Where files are made.* A cache file appears through a fetch or through
`nofs_mknod`, and over scp a fetch that fails makes none (`Inventors`). What a
writer's lookup did not find is on no remote (`MissingIsNowhere`), and stays so
until `nofs_mknod` has run: no other mount makes the file in between, for the only
writer of the path is this one.

*Own updates (`OwnInv`).* A mount shows an update it has reported because it keeps
the copy it has put (`OwnThere`), and a new copy comes from a remote that has it
(`FetchesCarryOwn`, by `NoLostUpdate`). For `OpenFilesNeverGoBack` the copy that
goes away under a reader must hold nothing the remote has not, except of its own
mount: everything else in it came through the remote (`NothingForeign`,
`ForeignReported`), where every update has been reported (`RemoteReported`), and
what is reported the forced copy brings back.

*The server (`HttpServer!IInv`).* While the loop runs, what has been written, the
line kept back and what is left to read are together the content and the end of
the form (`AddsUp`), and the first two are whole lines without a mark in them
(`Filling`). Reading a line splits what is left, writing one appends what was kept
back, so the sum stays as it is; when the boundary is read, what was written and
kept back is the content with the line end of the form, which `Chomp` removes. No
induction over the content is needed, as the sum is an equation between
sequences. Before the loop `Whole` says what is left at each line, and `Opening`
the one way in which the boundary can be taken for content: an untyped form whose
content has no line end, of which nothing is stored. For an untyped form the sum
is that of the content behind its first line. Of a form that is cut short
no boundary is left (`CutShort`), so it never ends the loop, and nothing about
its file is claimed while it runs. `Alone` and `Kept` tie the files to what they
should be: nobody else is served while an upload has a file open. For the
refinement, `Part` is `Replace`, an answer is the answer, and every other step of
the server is a stutter; that a GET finds the file it should is `GetsSendWholeFiles`.

*The process.* `StartInv` carries through `main` what each stage has established:
`Checked`, that the last five arguments are no options, and `AsRead`, where each
of them is. libfuse then starts only if the remaining line has one word, which is
the mount point. `AnswerInv` says that a handler is in turn (`InTurn`), carries the
result and `errno` of its own call that failed (`Carried`), and answers with it
(`Answered`).

`IInv` of `NofsInvariant` is an invariant of three runs, `IInv` of `HttpInvariant`
of `http_server`. `ReadInv` and `OwnInv` are in the proof modules, and were checked
with TLC on instances of the same size before they were proved.

Only model-checked is progress (`EveryRequestIsAnswered`, `AnsweredUnlessCut`):
liveness under fairness is out of the prover's reach.

## What the models show about the code

With a run:

* Over HTTP nothing an application writes arrives: the form says `file=<path>`
  without an `@` (91), see `http_put`.
* `nofs_open` goes on with the old copy when the forced one fails (396), and the
  next put takes the remote back to it: `forced_copy`. `NoLostUpdate` and
  `RemoteNeverShrinks` are stated for behaviours without such an open.
* A second open for writing on the same mount replaces the file under the first
  (396), whose `fsync(2)` then stores nothing and reports success: `fsync_copy`.
* Eleven handlers act on whatever path the stack holds; an unlink can remove
  another file and report success (254): `unlink_stray`.
* A client that goes away in the middle of a form stops the server: `http_cut`.
* `nofs_flush` stores nothing although its comment (512) says so; the put happens
  in the release, which `close(2)` does not wait for. A writer on another mount
  that opens the file in between takes the change away: `close_lost`.

Seen in the models, which have the code as it is, without a run of their own:

* `nofs_release` leaks the descriptor when the put fails (549), over HTTP always
  (`PutReturn`, `leaked`).
* A lookup over HTTP of a name that does not exist leaves an empty file in the
  cache (81), which later lookups take for the file and which can be opened,
  although 389 calls that wrong (`FailedDestination`). `OnlyMknodInvents` says that
  scp does not do so.
* The second listing of an open directory is empty, or fails with an `errno` of
  long ago, although 752 expects a NULL of the first `readdir()` only for an error
  (`Readdir`). A `readdir()` that fails in the middle ends the listing as if the
  directory ended (773), although 765 says that it has (`ListEntry`).
* `nofs_listxattr` returns the status of a failed copy, which is positive and is
  taken for the length of a list (654, `Told`).
* A log write that fails between a system call and `log_syscall`'s second look at
  `errno` changes what is answered (log.c 228). `log_retstat` guards `errno`, the
  other log functions do not. `ErrnoIsTheCalls` says what comes of it: a failure all
  the same, with the errno of the call or that of the log's write.
* The server skips the first line of the content of a form without a Content-Type
  and reports a success (http_server.py 78, 96; `Stored`).
* A torn copy that `ensure_local_file` leaves behind is taken for a whole one
  later; `WholeRead` is checked without `partial`, and with `-s`, for with threads
  a reader can meet a copy that is being made.
* An open for reading never asks the remote once there is a copy, so another
  mount's updates stay invisible until the path is opened for writing.
  `OwnUpdatesVisible` is about the reader's own mount.
* A remote that does not answer is taken for one that has no such file, and
  `nofs_mknod` makes one (209).
* The forced copy's result is dropped (396), and those of the copies in
  `nofs_getattr` and `nofs_getxattr` are overwritten.
* `main` accepts three and four arguments and reads before the array (1038); such
  a process dies or is refused by libfuse, as `ServesAsUsed` says.

## Not modelled

* Removing a cache file that is open. `Evict` keeps away from open files, since
  the model names cache files by path and has no inodes.
* Commands that outlive a nofs that dies: `Remount` lets a running put break off
  first.
* A nofs that outlives its mount. `fusermount -uz` (mount.sh 34) is lazy: while a
  file is open the old process goes on next to the new one, and its put, by path,
  sends what the new one's cache has there. `Remount` is a nofs that dies, the case
  of a crash and of an unmount with nothing open.
* The length of paths (the buffers at 54 and 81 hold `PATH_MAX`), and directories
  in `Nofs`, where paths are names of regular files.
* The owner, mode and extended attributes of a file beyond their handlers' results:
  no put carries them, and nothing in the repository reads them back.
* Several threads in `Handlers`: `errno` and the stack belong to one thread, and
  what threads do to each other through the cache is in `Nofs`. One directory is
  open at a time; handles of different directories share nothing.
* The text the log prints. Its writes matter by what they do to `errno`.
* The server's directory listings and redirects, which keep no state.
* Build files, the tutorial in `src/html` and the benchmark clients.

## Plan

Done: the file handlers with their invariants, refinement and proofs; the server
with its invariant, refinement and proofs; the process with its command line,
handlers, results and log.

Left:

1. Inodes in the cache, so that open files may be evicted, and the put that goes
   by path (548) sends another file than the one written.
2. The size of `left` as a bound on what a stray path can reach: which handler
   must have run before, on the same thread.
3. An old nofs that goes on after a lazy unmount, next to the new one, on one
   cache directory.
