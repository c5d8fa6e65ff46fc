---- MODULE MC_Processes ----
(***************************************************************************)
(* What is read of other processes, on Linux and on macOS, the server of   *)
(* an nvim and the text sent to one: against what they should be.          *)
(***************************************************************************)
EXTENDS MacProcesses, NvimServers

Nothing == [x \in {} |-> NoAnswer]
Process(parent, comm, env, args) ==
  [parent |-> parent, comm |-> comm, env |-> env, args |-> args, fds |-> <<"tty">>, pgrp |-> 1, tpgid |-> 1, sockets |-> {}]

-----------------------------------------------------------------------------
\* Every process of a tree once, by number, however the processes are related: numbers
\* are given out again, so that a child's may be the smaller.
Bare(parent) == [p \in DOMAIN parent |-> Process(parent[p], "bash", Nothing, <<>>)]
Below(parent, p) ==
  LET up[n \in 0..4] == IF n = 0 THEN {p} ELSE up[n - 1] \cup {q \in DOMAIN parent : parent[q] \in up[n - 1]} IN up[4]
ASSUME TreeIsWhole ==
  \A parent \in {f \in [1..4 -> 0..4] : \A q \in 1..4 : f[q] # q}, p \in 1..4 :
    LET pids == ProcessTreePids(Bare(parent), p)
    IN  ToSet(pids) = Below(parent, p) /\ \A i, j \in DOMAIN pids : i < j => pids[i] < pids[j]

\* A socket is taken from either list only if the process has it open.
ASSUME SocketIsOwn ==
  \A mine \in SUBSET {7, 8}, unix, ss \in {<<>>} \cup {<<[inode |-> i, owner |-> "zellij"]>> : i \in {7, 8}} :
    LET table == [Bare(<<0>>) EXCEPT ![1].sockets = mine]
    IN  SocketPathEither(table, unix, ss, 1, {"zellij"}) # NoAnswer <=> \E r \in ToSet(unix) \cup ToSet(ss) : r.inode \in mine

\* The name on a terminal is of a job in front of it, a shell only if nothing else is.
ASSUME ForegroundIsInFront ==
  \A comm \in [1..3 -> {"bash", "nvim"}], pgrp \in [1..3 -> 0..2], tpgid \in 0..2, tty \in [1..3 -> {"a", "b"}] :
    LET table == [p \in 1..3 |-> [Bare(<<0, 1, 1>>)[p] EXCEPT !.comm = comm[p], !.pgrp = pgrp[p], !.tpgid = tpgid, !.fds = <<tty[p]>>]]
        front == {p \in 1..3 : tty[p] = "a" /\ tpgid # 0 /\ pgrp[p] = tpgid}
        name == ForegroundName(table, 1, "a")
    IN  /\ front # {} => name = IF \E p \in front : comm[p] = "nvim" THEN "nvim" ELSE "bash"
        /\ front = {} => (name # NoAnswer <=> \E p \in 1..3 : tty[p] = "a")

\* An address is of the process asked for or of an nvim below it, the nearest to
\* the top first, unless a variable says another: NVIM of an nvim that runs in the
\* terminal of another nvim is the outer one's.
ASSUME AddressIsInTree ==
  \A comm \in [1..3 -> {"nvim", "bash"}], sockets \in SUBSET (1..3), at \in [1..3 -> 1..2],
     env \in [1..3 -> {{}, {"NVIM"}}] :
    LET table == [p \in 1..3 |-> Process(p - 1, comm[p], [key \in env[p] |-> "outer"], <<>>)]
        dirs == [d \in 1..2 |-> {[of |-> p, path |-> p] : p \in {q \in sockets : at[q] = d}}]
        mine == {1} \cup {p \in 2..3 : comm[p] = "nvim"}
        has == {p \in mine : env[p] # {} \/ p \in sockets}
        first == CHOOSE p \in has : \A q \in has : p <= q
    IN  ServerFor(table, dirs, 1) = IF has = {} THEN {NoAnswer} ELSE IF env[first] # {} THEN {"outer"} ELSE {first}

\* A move that tears out leaves nvim a window, and nvim is asked to rearrange only
\* what it can.
ASSUME TearsOutOfSeveral ==
  \A windows \in 1..3, atEdge \in BOOLEAN :
    /\ NvimDecides({windows}) = "internal" /\ NvimMovesInside(atEdge) = "tear out" => windows > 1
    /\ windows = 1 => NvimDecides({windows}) = "passthrough"
    /\ NvimCanFocus(atEdge) => NvimMovesInside(atEdge) = "rearrange"

\* Whatever a path is made of, nvim opens that path.
ASSUME PathArrives ==
  \A n \in 0..4 : \A path \in [1..n -> {Apostrophe, QuoteMark, Backslash, Newline, "n"}] :
    /\ ShellReads(LaunchWord(path)) = path
    /\ LuaReads(VimReads(MergeWord(path))) = path

-----------------------------------------------------------------------------
(* macOS *)

Word == [key |-> "", value |-> "x"]
Says(value) == [key |-> "PANE", value |-> value]
MacProcess(argv, env) ==
  [parent |-> 0, comm |-> "foot", argv |-> argv, env |-> env, fds |-> <<>>, paths |-> <<>>, pgrp |-> 1, tpgid |-> 1]

\* ps shows a variable as it is, if it has no blanks and neither an argument nor
\* what follows a blank in another variable looks like it.
Texts == {<<Word>>, <<Says("1")>>, <<Says("2")>>, <<Word, Says("3")>>, <<Says("1"), Word>>}
ASSUME MacVariableIsOwn ==
  \A argv, env \in {<<>>} \cup {<<t>> : t \in Texts} \cup (Texts \X Texts) :
    LET own == SelectSeq(env, LAMBDA t : Head(t).key = "PANE")
        others == {i \in DOMAIN env : Head(env[i]).key # "PANE"}
        answer == MacEnviron(1 :> MacProcess(argv, env), 1, "PANE")
        plain == /\ \A i \in DOMAIN argv : "PANE" \notin {w.key : w \in ToSet(argv[i])}
                 /\ \A i \in others : \A w \in ToSet(env[i]) : w.key = ""
    IN  plain => answer = IF own = <<>> THEN NoAnswer ELSE Head(own[1]).value

\* With a fresh table macOS and Linux name the same process in front; with an old one
\* it is still one that is on the terminal.
ASSUME MacForegroundAgrees ==
  \A comm \in [1..3 -> {"bash", "nvim"}], pgrp \in [1..3 -> 0..2], tty \in [1..3 -> {"a", "b"}], alive \in SUBSET (1..3) :
    LET table == [p \in 1..3 |-> [Bare(<<0, 1, 1>>)[p] EXCEPT !.comm = comm[p], !.pgrp = pgrp[p], !.tpgid = 1, !.fds = <<tty[p]>>]]
        now == [p \in alive |-> table[p]]
        fresh == Refresh(NoCache, table, TRUE)
        old == Refresh(Elapses(fresh), now, FALSE)
        kept == Refresh(fresh, now, TRUE)
        there == {p \in alive : tty[p] = "a"}
    IN  /\ MacForegroundName(fresh, table, 1, "a") = ForegroundName(table, 1, "a")
        /\ \A cache \in {old, kept} :
             MacForegroundName(cache, now, 1, "a") \in IF there = {} THEN {NoAnswer} ELSE {comm[p] : p \in there}
        /\ MacForegroundName(Refresh(Elapses(fresh), now, TRUE), now, 1, "a") = ForegroundName(now, 1, "a")

\* A socket is one that the process has and that bears the name.
ASSUME MacSocketIsOwn ==
  \A paths \in {<<>>} \cup {<<a>> : a \in 1..3} \cup ((1..3) \X (1..3)), named \in SUBSET (1..3) :
    LET answer == MacSocketPath(1 :> [MacProcess(<<>>, <<>>) EXCEPT !.paths = paths], 1, named)
    IN  IF ToSet(paths) \cap named = {} THEN answer = NoAnswer ELSE answer \in ToSet(paths) \cap named
====
