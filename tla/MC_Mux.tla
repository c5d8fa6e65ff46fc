---- MODULE MC_Mux ----
(***************************************************************************)
(* Emulators for the runs of MuxPanes: kitty; wezterm with a client of its *)
(* own, with none but a bridge, and with two clients and windows that the  *)
(* compositor numbers like other windows of the emulator.                  *)
(***************************************************************************)
EXTENDS MuxPanes

Kitty == [kind |-> "kitty", clients |-> {}, bridge |-> FALSE, wmIds |-> <<11, 12, 13>>]
Wezterm(clients, bridge, wmIds) ==
  [kind |-> "wezterm", clients |-> clients, bridge |-> bridge, wmIds |-> wmIds]

TheEmulators == {Kitty, Wezterm({"ours"}, FALSE, <<11, 12, 13>>), Wezterm({}, TRUE, <<11, 12, 13>>),
                 Wezterm({"ours", "other"}, FALSE, <<2, 3, 1>>)}
====
