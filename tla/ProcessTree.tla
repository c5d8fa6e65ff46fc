---- MODULE ProcessTree ----
(***************************************************************************)
(* What is read of other processes (src/src/engine/runtime/mod.rs, and its *)
(* Linux part): the tree below a process, the first of them that answers,  *)
(* the socket it has open, who is in front on a terminal.  A table is a    *)
(* function from process numbers to records: parent, comm, env, args, fds  *)
(* (the terminal on file descriptors 0 to 2), pgrp, tpgid, sockets.        *)
(***************************************************************************)
EXTENDS Integers, Sequences, FiniteSets, SequencesExt

NoAnswer == "none"
Shells == {"bash", "fish", "zsh", "sh", "dash", "ksh", "tcsh", "csh", "nu", "xonsh"}

Ascending(S) == SetToSortSeq(S, <)
ChildPids(table, p) == Ascending({q \in DOMAIN table : table[q].parent = p})

(* The children still to visit are a stack; numbers may be met twice. *)
RECURSIVE Visit(_, _, _)
Visit(table, stack, found) ==
  IF stack = <<>> THEN found
  ELSE IF Contains(found, Last(stack)) THEN Visit(table, Front(stack), found)
  ELSE Visit(table, Front(stack) \o ChildPids(table, Last(stack)), Append(found, Last(stack)))
DescendantPids(table, p) == Visit(table, ChildPids(table, p), <<>>)

\* Sorted by number, which is by age until the numbers start again.
ProcessTreePids(table, p) == IF p = 0 THEN <<>> ELSE Ascending({p} \cup ToSet(DescendantPids(table, p)))

Comm(table, p) == IF p \in DOMAIN table THEN table[p].comm ELSE NoAnswer
Environ(table, p, key) == IF p \in DOMAIN table /\ key \in DOMAIN table[p].env THEN table[p].env[key] ELSE NoAnswer
IsShell(table, p) == Comm(table, p) \in Shells
FindDescendants(table, p, name) == SelectSeq(DescendantPids(table, p), LAMBDA q : Comm(table, q) = name)

FirstAnswer(answers) ==
  LET i == SelectInSeq(answers, LAMBDA a : a # NoAnswer) IN IF i = 0 THEN NoAnswer ELSE answers[i]
EnvVar(table, p, key) ==
  LET pids == ProcessTreePids(table, p) IN FirstAnswer([i \in DOMAIN pids |-> Environ(table, pids[i], key)])
FindByComm(table, p, name) == SelectSeq(ProcessTreePids(table, p), LAMBDA q : Comm(table, q) = name)

(* A list of sockets is a sequence of [inode, owner]: what /proc/net/unix, or ss, says. *)
SocketOwner(list, inodes, owners) ==
  LET row == SelectInSeq(list, LAMBDA r : r.inode \in inodes /\ r.owner \in owners)
  IN  IF row = 0 THEN NoAnswer ELSE list[row].owner
SocketPath(table, list, p, owners) == SocketOwner(list, table[p].sockets, owners)
SocketPathEither(table, unix, ss, p, owners) ==
  IF SocketPath(table, unix, p, owners) # NoAnswer THEN SocketPath(table, unix, p, owners)
  ELSE SocketPath(table, ss, p, owners)

UsesTty(table, p, tty) == p \in DOMAIN table /\ tty \in ToSet(table[p].fds)
ShellForTty(table, shells, tty) == SelectInSeq(shells, LAMBDA p : UsesTty(table, p, tty))

(* The last that is not a shell, or else the last. *)
Pick(table, pids) ==
  LET busy == SelectSeq(pids, LAMBDA p : ~IsShell(table, p))
  IN  IF busy # <<>> THEN Comm(table, Last(busy)) ELSE IF pids # <<>> THEN Comm(table, Last(pids)) ELSE NoAnswer
InForeground(table, p) == table[p].tpgid # 0 /\ table[p].pgrp = table[p].tpgid
ForegroundName(table, root, tty) ==
  LET on == SelectSeq(ProcessTreePids(table, root), LAMBDA p : UsesTty(table, p, tty))
      front == SelectSeq(on, LAMBDA p : InForeground(table, p))
  IN  IF root = 0 \/ tty = "" THEN NoAnswer
      ELSE IF Pick(table, front) # NoAnswer THEN Pick(table, front) ELSE Pick(table, on)
====
