------------------------------ MODULE Dispatch ------------------------------
(***************************************************************************)
(* What each call that takes a descriptor does between __fd_grab and        *)
(* __fd_drop: for every descriptor type, the family of backend functions    *)
(* the handle of the entry is given to.  "none": the call fails or answers  *)
(* without the handle.  "as_fd": the handle is passed on as if it were a    *)
(* descriptor, to read, write, pread or pwrite.                             *)
(***************************************************************************)

Families == {"io", "fh", "dh", "net", "msgpipe", "none", "as_fd"}

Row(tty, file, dir, sock, pip) ==
    [TTY |-> tty, FILE |-> file, DIRECTORY |-> dir, SOCKET |-> sock, PIPE |-> pip]
Always(k) == Row(k, k, k, k, k)     \* the type is not looked at

(* unistd *)
read      == Row("io", "fh", "none", "net", "msgpipe")
write     == Row("io", "fh", "none", "net", "msgpipe")
lseek     == Row("none", "fh", "none", "none", "none")
fsync_swapped == Row("none", "dh", "fh", "none", "none")    \* mutant
fsync     == Row("none", "fh", "dh", "none", "none")
ftruncate == Row("none", "fh", "none", "none", "none")
pread     == Row("io", "fh", "none", "io", "io")
pwrite    == Row("io", "fh", "none", "io", "io")
readv     == Row("as_fd", "fh", "none", "as_fd", "as_fd")
writev    == Row("as_fd", "fh", "none", "as_fd", "as_fd")
preadv    == Row("as_fd", "fh", "none", "as_fd", "as_fd")
pwritev   == Row("as_fd", "fh", "none", "as_fd", "as_fd")
fchdir    == Row("none", "none", "dh", "none", "none")
fchownat  == Row("none", "fh", "dh", "none", "none")
isatty    == Always("none")

(* stat *)
fstat     == Row("none", "fh", "dh", "none", "none")
fstatvfs  == Row("none", "dh", "dh", "none", "none")
fchmod    == Row("fh", "fh", "dh", "none", "none")
utimensat == Row("fh", "fh", "dh", "none", "none")

(* fcntl: F_GETFD, F_GETFL and F_SETFL; F_DUPFD is an action of FdCalls *)
fcntl     == Row("none", "none", "none", "net", "none")

(* network *)
accept      == Always("net")
bind        == Always("net")
connect     == Always("net")
listen      == Always("net")
recv        == Always("net")
recvfrom    == Always("net")
recvmsg     == Always("net")
send        == Always("net")
sendto      == Always("net")
sendmsg     == Always("net")
shutdown    == Always("net")
getsockopt  == Always("net")
setsockopt  == Always("net")
getpeername == Always("net")
getsockname == Always("net")

(* dirent: the descriptor comes out of the DIR *)
fdopendir == Always("none")
readdir   == Always("dh")
rewinddir == Always("dh")

Api == [read |-> read, write |-> write, lseek |-> lseek, fsync |-> fsync,
        ftruncate |-> ftruncate, pread |-> pread, pwrite |-> pwrite,
        readv |-> readv, writev |-> writev, preadv |-> preadv,
        pwritev |-> pwritev, fchdir |-> fchdir, fchownat |-> fchownat,
        isatty |-> isatty, fstat |-> fstat, fstatvfs |-> fstatvfs,
        fchmod |-> fchmod, utimensat |-> utimensat, fcntl |-> fcntl,
        accept |-> accept, bind |-> bind, connect |-> connect,
        listen |-> listen, recv |-> recv, recvfrom |-> recvfrom,
        recvmsg |-> recvmsg, send |-> send, sendto |-> sendto,
        sendmsg |-> sendmsg, shutdown |-> shutdown,
        getsockopt |-> getsockopt, setsockopt |-> setsockopt,
        getpeername |-> getpeername, getsockname |-> getsockname,
        fdopendir |-> fdopendir, readdir |-> readdir, rewinddir |-> rewinddir]

(* Where a call is not made for the type: the functions of network and      *)
(* dirent do not look at it, four others have a case that calls the         *)
(* functions of another type.                                               *)
NetCalls == {c \in DOMAIN Api : Api[c] = Always("net")}
DirCalls == {c \in DOMAIN Api : Api[c] = Always("dh")}

Mismatched ==
         NetCalls \X {"TTY", "FILE", "DIRECTORY", "PIPE"}
    \cup DirCalls \X {"TTY", "FILE", "SOCKET", "PIPE"}
    \cup {"pread", "pwrite"} \X {"SOCKET", "PIPE"}
    \cup {"fchmod", "utimensat"} \X {"TTY"}
    \cup {<<"fstatvfs", "FILE">>}

FdUsers == DOMAIN Api

=============================================================================
