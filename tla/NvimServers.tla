---- MODULE NvimServers ----
(***************************************************************************)
(* Which nvim the adapter speaks to, what it decides on a move, and what   *)
(* it writes into commands (src/src/adapters/apps/nvim.rs).  NvimTransfer  *)
(* has the transfers.  Text is a sequence of characters; a directory is    *)
(* the set of sockets in it that are named for a process, [of, path].      *)
(***************************************************************************)
EXTENDS ProcessTree, FiniteSetsExt

-----------------------------------------------------------------------------
(* The server's address *)

\* The process asked for, then every nvim below it: a terminal shows the process of
\* the UI, which may have the editor as a child.
Candidates(table, p) == <<p>> \o SelectSeq(FindDescendants(table, p, "nvim"), LAMBDA q : q # p)

\* A variable comes before the sockets named for the process, wherever the variable
\* is from: nvim sets NVIM for what runs in its own terminals.  A directory is
\* walked in any order.
SocketsFor(table, dirs, p) ==
  LET set == FirstAnswer(<<Environ(table, p, "NVIM"), Environ(table, p, "NVIM_LISTEN_ADDRESS")>>)
      named(d) == {s.path : s \in {t \in dirs[d] : t.of = p}}
      d0 == {d \in DOMAIN dirs : named(d) # {}}
  IN  IF set # NoAnswer THEN {set} ELSE IF d0 = {} THEN {} ELSE named(Min(d0))

\* The first candidate that has an address, with it; NoAnswer if none has.
ServerFor(table, dirs, p) ==
  LET pids == Candidates(table, p)
      i == SelectInSeq(pids, LAMBDA q : SocketsFor(table, dirs, q) # {})
  IN  IF i = 0 THEN {NoAnswer} ELSE SocketsFor(table, dirs, pids[i])

-----------------------------------------------------------------------------
(* Decisions.  A count is {} if nvim's answer is no number: one window then. *)

WindowsCounted(count) == IF count = {} THEN 1 ELSE CHOOSE n \in count : TRUE
NvimCanFocus(atEdge) == ~atEdge
NvimDecides(count) == IF WindowsCounted(count) <= 1 THEN "passthrough" ELSE "internal"
\* At the edge a move inside becomes a tear-out; else the window goes to that side.
NvimMovesInside(atEdge) == IF atEdge THEN "tear out" ELSE "rearrange"

-----------------------------------------------------------------------------
(* Text in commands: the path at a shell's prompt, and the same path as a    *)
(* Lua string in a Vim string.                                             *)

Apostrophe == "'"
QuoteMark == "\""
Backslash == "\\"
Newline == "newline"
Replaced(text, With(_)) == FlattenSeq([i \in DOMAIN text |-> With(text[i])])

ShellQuote(text) ==
  <<Apostrophe>> \o Replaced(text, LAMBDA c : IF c = Apostrophe THEN <<Apostrophe, QuoteMark, Apostrophe, QuoteMark, Apostrophe>> ELSE <<c>>) \o <<Apostrophe>>
VimQuote(text) == Replaced(text, LAMBDA c : IF c = Apostrophe THEN <<Apostrophe, Apostrophe>> ELSE <<c>>)
LuaQuote(text) ==
  <<QuoteMark>> \o Replaced(text, LAMBDA c : CASE c \in {Backslash, QuoteMark} -> <<Backslash, c>>
                                            [] c = Newline -> <<Backslash, "n">>
                                            [] OTHER -> <<c>>) \o <<QuoteMark>>
LaunchWord(path) == ShellQuote(path)
MergeWord(path) == VimQuote(LuaQuote(path))

-----------------------------------------------------------------------------
(* The readers.  What does not parse is NoAnswer. *)

ReadBy(text, mode, Step(_, _), ends) ==
  LET last == FoldLeft(Step, [mode |-> mode, out |-> <<>>], text)
  IN  IF last.mode \in ends THEN last.out ELSE NoAnswer
InMode(st, mode) == [st EXCEPT !.mode = mode]
WithChar(st, c, mode) == [mode |-> mode, out |-> Append(st.out, c)]

ShellReads(text) ==
  LET step(st, c) ==
        CASE st.mode = "plain" /\ c = Apostrophe -> InMode(st, "single")
          [] st.mode = "plain" /\ c = QuoteMark -> InMode(st, "double")
          [] st.mode = "single" /\ c = Apostrophe -> InMode(st, "plain")
          [] st.mode = "double" /\ c = QuoteMark -> InMode(st, "plain")
          [] OTHER -> WithChar(st, c, st.mode)
  IN  ReadBy(text, "plain", step, {"plain"})
VimReads(text) ==
  LET step(st, c) ==
        CASE st.mode = "in" /\ c = Apostrophe -> InMode(st, "half")
          [] st.mode = "in" /\ c # Apostrophe -> WithChar(st, c, "in")
          [] st.mode = "half" /\ c = Apostrophe -> WithChar(st, c, "in")
          [] OTHER -> InMode(st, "bad")
  IN  ReadBy(text, "in", step, {"in"})
LuaReads(text) ==
  LET step(st, c) ==
        CASE st.mode = "before" /\ c = QuoteMark -> InMode(st, "in")
          [] st.mode = "in" /\ c = QuoteMark -> InMode(st, "after")
          [] st.mode = "in" /\ c = Backslash -> InMode(st, "escape")
          [] st.mode = "in" /\ c \notin {QuoteMark, Backslash, Newline} -> WithChar(st, c, "in")
          [] st.mode = "escape" -> WithChar(st, IF c = "n" THEN Newline ELSE c, "in")
          [] OTHER -> InMode(st, "bad")
  IN  ReadBy(text, "before", step, {"after"})
====
