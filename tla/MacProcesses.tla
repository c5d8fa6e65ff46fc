---- MODULE MacProcesses ----
(***************************************************************************)
(* What is read of other processes on macOS (src/src/engine/runtime/       *)
(* macos.rs): from the output of ps and lsof, where Linux has files.       *)
(* ProcessTree has the rest.  A system is a function from numbers to       *)
(* [parent, comm, argv, env, fds, paths, pgrp, tpgid]: argv and env are    *)
(* sequences of texts, a text the sequence of its pieces between blanks,   *)
(* a piece [key, value], with no key if it does not say key=value; fds are *)
(* the terminals on descriptors 0 to 2, paths the sockets as lsof lists    *)
(* them.  Of another user's process ps shows no env.                       *)
(***************************************************************************)
EXTENDS ProcessTree

\* One `ps -A'; kept for 100 ms, or longer as long as ps fails.
NoTable == [p \in {} |-> NoAnswer]
NoCache == [table |-> NoTable, fresh |-> FALSE]
Snapshot(system) == [p \in {q \in DOMAIN system : system[q].comm # ""} |->
                       [parent |-> system[p].parent, comm |-> system[p].comm]]
Refresh(cache, system, works) ==
  IF cache.fresh \/ ~works THEN cache ELSE [table |-> Snapshot(system), fresh |-> TRUE]
Elapses(cache) == [cache EXCEPT !.fresh = FALSE]

\* `ps eww' prints arguments and environment as one line.
MacEnviron(system, p, key) ==
  LET pieces == FlattenSeq(system[p].argv \o system[p].env)
      at == SelectInSeq(pieces, LAMBDA piece : piece.key = key /\ piece.value # "")
  IN  IF p \notin DOMAIN system \/ at = 0 THEN NoAnswer ELSE pieces[at].value

\* lsof names what a descriptor or a socket leads to.
MacUsesTty(system, p, tty) == p \in DOMAIN system /\ tty \in ToSet(system[p].fds)
MacSocketPath(system, p, named) ==
  LET at == SelectInSeq(system[p].paths, LAMBDA s : s \in named)
  IN  IF p \notin DOMAIN system \/ at = 0 THEN NoAnswer ELSE system[p].paths[at]

\* As on Linux, but the tree is the cached one and the groups are asked for now; a
\* number that is not positive is none.
Positive(n) == {n} \cap (Nat \ {0})
GroupNow(system, p) == IF p \in DOMAIN system THEN Positive(system[p].pgrp) ELSE {}
TerminalGroupNow(system, p) == IF p \in DOMAIN system THEN Positive(system[p].tpgid) ELSE {}
MacForegroundName(cache, system, root, tty) ==
  LET tree == ProcessTreePids(cache.table, root)
      on == SelectSeq(tree, LAMBDA p : p \in DOMAIN cache.table /\ MacUsesTty(system, p, tty))
      front == SelectSeq(on, LAMBDA p : GroupNow(system, p) # {} /\ GroupNow(system, p) = TerminalGroupNow(system, p))
  IN  IF root = 0 \/ tty = "" THEN NoAnswer
      ELSE IF Pick(cache.table, front) # NoAnswer THEN Pick(cache.table, front) ELSE Pick(cache.table, on)
====
