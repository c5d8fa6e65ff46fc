\* wezterm whose windows the compositor numbers like other windows of wezterm.
CONSTANTS
  Emulators <- TheEmulators
  Asked = {"west"}
  MuxPane = {1, 2, 3}
  MuxWindow = {1, 2, 3}
  MaxMuxOps = 1
  MaxMuxTrouble = 0
SPECIFICATION MuxSpec
PROPERTIES MergesIntoHintedWindow
CHECK_DEADLOCK FALSE
