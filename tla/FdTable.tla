------------------------------- MODULE FdTable -------------------------------
(***************************************************************************)
(* The syscall layer of biscuit (biscuit/syscall.go, biscuit/main.go):     *)
(* syscall() dispatching on tf[RAX], the per-process descriptor table      *)
(* (proc_new, fd_new), open/read/write/getpid/fork/exit/mkdir/link/unlink  *)
(* and the finaliser that stores the return value and marks the process    *)
(* runnable unless it is dead.                                             *)
(*                                                                         *)
(* Each syscall runs as its own handler goroutine.  A handler can only be  *)
(* suspended inside the file system, so everything a handler does before   *)
(* its fs_read/fs_write call is one step, and the rest of it (the offset   *)
(* update and the finaliser) is a second step that may come after steps of *)
(* other handlers.  fs_open, fs_mkdir, fs_link and fs_unlink also block,   *)
(* but their callers read no shared state before them and are one step.    *)
(* The file system is outside the repository: its answers are inputs.      *)
(* Buffer validation (is_mapped, is_mapped_str) is the UserCopy module;    *)
(* here only its outcome is chosen.  Memory is the ProcVM module.          *)
(***************************************************************************)
EXTENDS Naturals, Integers, FiniteSets

CONSTANTS
  MaxProcs,   \* bound on pid_cur: how many processes fork can create
  MaxFd,      \* bound on nextfd: descriptors 0..MaxFd
  Objs,       \* per-open fd_t records the heap can hold at once
  FsErrs,     \* negative errnos the file system can return
  MaxOff,     \* bound on any offset (files hold at most MaxOff bytes)
  Sizes       \* sz arguments of read and write

Pids == 1..MaxProcs
Fdns == 0..MaxFd

\* The three sentinel records fd_stdin, fd_stdout, fd_stderr.
fd_stdin == "fd_stdin"
fd_stdout == "fd_stdout"
fd_stderr == "fd_stderr"
Sentinels == {fd_stdin, fd_stdout, fd_stderr}
AllObjs == Sentinels \cup Objs
NoFd == "nofd"

ENOENT == 2
EBADF == 9
EFAULT == 14
EINVAL == 22
ENAMETOOLONG == 36
ENOSYS == 38
O_RDONLY == 0
O_WRONLY == 1
O_RDWR == 2

\* What is_mapped_str and path_sanitize make of a path argument.
PathRes == {"unmapped", "toolong", "bad", "ok"}

\* Runtime state of a pid: not created yet, running user code, in a
\* handler suspended in the file system, abandoned by runtime.Prockill.
States == {"none", "user", "fs", "gone"}

VARIABLES
  pid_cur,    \* last pid proc_new handed out
  st,         \* st[p]: runtime state of pid p
  dead,       \* dead[p]: proc_t.dead
  fds,        \* fds[p][n]: the record descriptor n names, or NoFd
  nextfd,     \* nextfd[p]
  offset,     \* offset[o]: fd_t.offset of record o (perms and file are
              \* passed to the file system and never read here)
  call,       \* call[p]: the read/write suspended in the file system
  rax,        \* rax[p]: tf[TF_RAX] as the finaliser left it
  panicked    \* a kernel panic happened

vars == <<pid_cur, st, dead, fds, nextfd, offset, call, rax, panicked>>

NoCall == [op |-> "none", o |-> NoFd, off |-> 0, sz |-> 0]
Call == [op : {"read", "write"}, o : AllObjs, off : 0..MaxOff, sz : Sizes]

\* The table proc_new installs: 0, 1, 2 name the sentinels.
StdFds == [n \in Fdns |-> CASE n = 0 -> fd_stdin
                            [] n = 1 -> fd_stdout
                            [] n = 2 -> fd_stderr
                            [] OTHER -> NoFd]
NoFds == [n \in Fdns |-> NoFd]

\* proc_new: nextfd = len(fds).
proc_new_nextfd == Cardinality({n \in Fdns : StdFds[n] /= NoFd})

\* Records some live process's table still reaches; the others have
\* been reclaimed by the collector and a new &fd_t{} may reuse them.
InUse == {fds[p][n] : p \in {q \in Pids : st[q] \in {"user", "fs"}}, n \in Fdns}

Init ==
  \* The first process, created by proc_new before main execs init.
  /\ pid_cur = 1
  /\ st = [p \in Pids |-> IF p = 1 THEN "user" ELSE "none"]
  /\ dead = [p \in Pids |-> FALSE]
  /\ fds = [p \in Pids |-> IF p = 1 THEN StdFds ELSE NoFds]
  /\ nextfd = [p \in Pids |-> IF p = 1 THEN proc_new_nextfd ELSE 0]
  /\ offset = [o \in AllObjs |-> 0]
  /\ call = [p \in Pids |-> NoCall]
  /\ rax = [p \in Pids |-> 0]
  /\ panicked = FALSE

-----------------------------------------------------------------------------
(* The finaliser of syscall(): tf[TF_RAX] = ret; Procrunnable unless dead. *)

syscall_ret(p, ret, isdead) ==
  /\ rax' = [rax EXCEPT ![p] = ret]
  /\ st' = [st EXCEPT ![p] = IF isdead THEN "gone" ELSE "user"]

\* A handler that touched nothing but its return value.
Return(p, ret) ==
  /\ syscall_ret(p, ret, dead[p])
  /\ UNCHANGED <<pid_cur, dead, fds, nextfd, offset, call, panicked>>

\* The common prefix of the path syscalls: EFAULT, then ENAMETOOLONG.
PathFault(r) == IF r = "unmapped" THEN -EFAULT ELSE -ENAMETOOLONG

-----------------------------------------------------------------------------
(* Handlers.  Each starts from a process running user code that trapped.   *)

\* sys_open: validate the path and the access mode, fs_open, fd_new.
sys_open(p, r, acc, res) ==
  /\ st[p] = "user"
  /\ IF r \in {"unmapped", "toolong"} THEN Return(p, PathFault(r))
     ELSE IF acc \notin {O_RDONLY, O_WRONLY, O_RDWR} THEN Return(p, -EINVAL)
     ELSE IF r = "bad" THEN Return(p, -ENOENT)
     ELSE IF res \in FsErrs THEN Return(p, res)
     ELSE \* fd_new: nextfd++, a fresh record, panic if the number is taken.
          LET fdn == nextfd[p]
              o   == CHOOSE x \in Objs \ InUse : TRUE
          IN  /\ fdn <= MaxFd /\ Objs \ InUse /= {}
              /\ nextfd' = [nextfd EXCEPT ![p] = @ + 1]
              /\ IF fds[p][fdn] /= NoFd
                   THEN /\ panicked' = TRUE
                        /\ UNCHANGED <<st, fds, offset, rax>>
                   ELSE /\ fds' = [fds EXCEPT ![p][fdn] = o]
                        /\ offset' = [offset EXCEPT ![o] = 0]
                        /\ syscall_ret(p, fdn, dead[p])
                        /\ UNCHANGED panicked
              /\ UNCHANGED <<pid_cur, dead, call>>

\* sys_read up to fs_read: sz == 0, EFAULT, EBADF; otherwise the handler
\* passes fd.offset to fs_read and waits.
sys_read(p, fdn, sz, mapped) ==
  /\ st[p] = "user"
  /\ IF sz = 0 THEN Return(p, 0)
     ELSE IF ~mapped THEN Return(p, -EFAULT)
     ELSE IF fds[p][fdn] = NoFd THEN Return(p, -EBADF)
     ELSE /\ call' = [call EXCEPT ![p] = [op |-> "read", o |-> fds[p][fdn], off |-> offset[fds[p][fdn]], sz |-> sz]]
          /\ st' = [st EXCEPT ![p] = "fs"]
          /\ UNCHANGED <<pid_cur, dead, fds, nextfd, offset, rax, panicked>>

\* sys_write: the same checks; stdout and stderr go to the console
\* wrapper, which prints every byte and returns sz without blocking, and
\* the offset of the shared sentinel is advanced; other records wait in
\* fs_write.
sys_write(p, fdn, sz, mapped) ==
  /\ st[p] = "user"
  /\ IF sz = 0 THEN Return(p, 0)
     ELSE IF ~mapped THEN Return(p, -EFAULT)
     ELSE IF fds[p][fdn] = NoFd THEN Return(p, -EBADF)
     ELSE LET o == fds[p][fdn] IN
          IF o \in {fd_stdout, fd_stderr}
            THEN /\ offset[o] + sz <= MaxOff
                 /\ offset' = [offset EXCEPT ![o] = @ + sz]
                 /\ syscall_ret(p, sz, dead[p])
                 /\ UNCHANGED <<pid_cur, dead, fds, nextfd, call, panicked>>
            ELSE /\ call' = [call EXCEPT ![p] = [op |-> "write", o |-> o, off |-> offset[o], sz |-> sz]]
                 /\ st' = [st EXCEPT ![p] = "fs"]
                 /\ UNCHANGED <<pid_cur, dead, fds, nextfd, offset, rax, panicked>>

\* Mutant: the offset advances by the size asked for, not by ret.
FsDone_adds_sz(p, n) ==
  LET c == call[p] IN
  /\ st[p] = "fs"
  /\ n \in FsErrs \cup 0..(IF c.off + c.sz > MaxOff THEN MaxOff - c.off ELSE c.sz)
  /\ IF n \in FsErrs
       THEN UNCHANGED offset
       ELSE offset' = [offset EXCEPT ![c.o] = @ + c.sz]
  /\ call' = [call EXCEPT ![p] = NoCall]
  /\ syscall_ret(p, n, dead[p])
  /\ UNCHANGED <<pid_cur, dead, fds, nextfd, panicked>>

\* fs_read/fs_write return: an errno is returned as is; otherwise
\* fd.offset += ret and ret is returned.  The file system transfers at most
\* sz bytes and stops at MaxOff from the offset it was given; the sum
\* must stay within MaxOff, the bound on offsets.
FsDone(p, n) ==
  LET c == call[p] IN
  /\ st[p] = "fs"
  /\ n \in FsErrs \cup 0..(IF c.off + c.sz > MaxOff THEN MaxOff - c.off ELSE c.sz)
  /\ IF n \in FsErrs
       THEN UNCHANGED offset
       ELSE /\ offset[c.o] + n <= MaxOff
            /\ offset' = [offset EXCEPT ![c.o] = @ + n]
  /\ call' = [call EXCEPT ![p] = NoCall]
  /\ syscall_ret(p, n, dead[p])
  /\ UNCHANGED <<pid_cur, dead, fds, nextfd, panicked>>

sys_getpid(p) == st[p] = "user" /\ Return(p, p)

\* proc_new for the child of p: the next pid, the sentinel table.  Memory
\* is copied as in ProcVM; the descriptor table is not copied.
sys_fork(p) ==
  LET c == pid_cur + 1 IN
  /\ st[p] = "user" /\ pid_cur < MaxProcs
  /\ pid_cur' = c
  /\ fds' = [fds EXCEPT ![c] = StdFds]
  /\ nextfd' = [nextfd EXCEPT ![c] = proc_new_nextfd]
  /\ rax' = [rax EXCEPT ![p] = c]
  \* sched_add(child), then the finaliser resumes the parent.
  /\ st' = [st EXCEPT ![c] = "user", ![p] = IF dead[p] THEN "gone" ELSE "user"]
  /\ UNCHANGED <<dead, offset, call, panicked>>

\* sys_exit: proc_kill sets dead, removes the pid and abandons it; the
\* finaliser then sees dead.  ret stays -ENOSYS.
sys_exit(p) ==
  /\ st[p] = "user"
  /\ dead' = [dead EXCEPT ![p] = TRUE]
  /\ syscall_ret(p, -ENOSYS, TRUE)
  /\ UNCHANGED <<pid_cur, fds, nextfd, offset, call, panicked>>

sys_mkdir(p, r, res) ==
  /\ st[p] = "user"
  /\ IF r \in {"unmapped", "toolong"} THEN Return(p, PathFault(r))
     ELSE IF r = "bad" THEN Return(p, -ENOENT)
     ELSE Return(p, res)

\* Both paths are copied before either is checked: EFAULT wins over
\* ENAMETOOLONG, which wins over ENOENT, whichever argument causes it.
sys_link(p, r1, r2, res) ==
  /\ st[p] = "user"
  /\ IF "unmapped" \in {r1, r2} THEN Return(p, -EFAULT)
     ELSE IF "toolong" \in {r1, r2} THEN Return(p, -ENAMETOOLONG)
     ELSE IF "bad" \in {r1, r2} THEN Return(p, -ENOENT)
     ELSE Return(p, res)

sys_unlink(p, r, res) ==
  /\ st[p] = "user"
  /\ IF r \in {"unmapped", "toolong"} THEN Return(p, PathFault(r))
     ELSE IF r = "bad" THEN Return(p, -ENOENT)
     ELSE Return(p, res)

\* A trap number no case matches: ret stays -ENOSYS.
sys_nosys(p) == st[p] = "user" /\ Return(p, -ENOSYS)

\* fs_open, fs_mkdir, fs_link and fs_unlink return err 0 or an errno.
FsRes == FsErrs \cup {0}

\* A panic stops the kernel.
Next ==
  /\ ~panicked
  /\ \E p \in Pids :
       \/ sys_getpid(p) \/ sys_fork(p) \/ sys_exit(p) \/ sys_nosys(p)
       \/ \E n \in 0..MaxOff : FsDone(p, n)
       \/ \E n \in FsErrs : FsDone(p, n)
       \/ \E fdn \in Fdns, sz \in Sizes, m \in BOOLEAN :
            sys_read(p, fdn, sz, m) \/ sys_write(p, fdn, sz, m)
       \/ \E r \in PathRes, acc \in {O_RDONLY, O_WRONLY, O_RDWR, 3},
             res \in FsRes :
            sys_open(p, r, acc, res)
       \/ \E r \in PathRes, res \in FsRes : sys_mkdir(p, r, res) \/ sys_unlink(p, r, res)
       \/ \E r1, r2 \in PathRes, res \in FsRes : sys_link(p, r1, r2, res)

Spec == Init /\ [][Next]_vars

-----------------------------------------------------------------------------
(* Properties.                                                             *)

TypeOK ==
  /\ pid_cur \in Pids
  /\ st \in [Pids -> States]
  /\ dead \in [Pids -> BOOLEAN]
  /\ fds \in [Pids -> [Fdns -> AllObjs \cup {NoFd}]]
  /\ nextfd \in [Pids -> 0..(MaxFd + 1)]
  /\ offset \in [AllObjs -> 0..MaxOff]
  /\ call \in [Pids -> Call \cup {NoCall}]
  /\ rax \in [Pids -> Int]
  /\ panicked \in BOOLEAN

=============================================================================
