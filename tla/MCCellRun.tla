----------------------------- MODULE MCCellRun -----------------------------
(* Instances of CellRun for TLC: two cells of Claude Code on any leftover     *)
(* link and every channel to a judge, of Codex on anything left in its home   *)
(* with the judge of the other family it takes, and of OpenCode; and one cell *)
(* of OpenCode alone (CR_recovered).                                          *)
EXTENDS CellRun

Setup(h, c, claude, codex, left) ==
  [harness |-> h, channel |-> c, hooks |-> left,
   links |-> [x \in Homes |-> IF x = "claude" THEN claude ELSE codex]]

ClaudeCode == {Setup("claude_code", c, l, "none", FALSE) :
                 c \in Channels, l \in {"none", "current", "stale"}}
Codex == {Setup("codex", "claude", "current", l, left) : l \in Links, left \in BOOLEAN}
OpenCode == {Setup("opencode", "openai", l, "none", FALSE) : l \in {"none", "current"}}

AllSetups == ClaudeCode \cup Codex \cup OpenCode

=============================================================================
