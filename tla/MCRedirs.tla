------------------------------ MODULE MCRedirs ------------------------------
(***************************************************************************)
(* Instances of TashRedirs: the shell starts with a terminal on 0, 1, 2 and*)
(* its script, close-on-exec, on 3.                                        *)
(***************************************************************************)
EXTENDS TashRedirs

CONSTANT Family      \* which redirections the nodes of a run carry

R(fd, kind, file, src) == [fd |-> fd, kind |-> kind, file |-> file, src |-> src]
To(fd, file) == R(fd, "file", file, fd)
Dup(fd, src) == R(fd, "dup", "tty", src)
Close(fd)    == R(fd, "close", "tty", fd)
Bad(fd)      == R(fd, "bad", "tty", fd)

One == {To(1, "a"), To(2, "b"), To(3, "b"), Dup(1, 2), Dup(2, 1), Dup(2, 4),
        Dup(3, 3), Close(1), Close(3), Bad(2)}
\* no descriptor twice: redirected_twice shows what happens otherwise
Lists(rs, n) == {l \in UNION {[1..k -> rs] : k \in 0..n} :
                   \A i, j \in DOMAIN l : l[i].fd = l[j].fd => i = j}

MCList ==
  CASE Family = "two" -> Lists(One, 2)
    [] Family = "twice" -> {<<To(1, "a"), To(1, "b")>>}

On(file, flag) == [file |-> file, cloexec |-> flag]
Shell(d) == IF d <= 2 THEN On("tty", FALSE) ELSE IF d = 3 THEN On("script", TRUE) ELSE Closed
\* the usual table; one without a standard input; one with room for a single copy
MCStart ==
  {[d \in Fd |-> Shell(d)],
   [d \in Fd |-> IF d \in {1, 2, 3} THEN On("tty", FALSE) ELSE Closed],
   [d \in Fd |-> IF d > 10 THEN On("tty", TRUE) ELSE Shell(d)]}
=============================================================================
