----------------------------- MODULE MCApproval -----------------------------
(* Approval for TLC: ls is allowed, git and git push are not; git matches
   whatever git push matches. *)
EXTENDS Approval

MCUnder == [p \in Prefixes |-> IF p = "git push" THEN {"git", "git push"} ELSE {p}]

Ls == [matches |-> {"ls"}, barred |-> FALSE]
Git == [matches |-> {"git"}, barred |-> FALSE]
Push == [matches |-> {"git", "git push"}, barred |-> FALSE]
Secret == [matches |-> {"ls"}, barred |-> TRUE]
Raw == [matches |-> {}, barred |-> FALSE]

Plain(segments, suggested) ==
  [segments |-> segments, form |-> "plain", args |-> "safe", suggested |-> suggested,
   present |-> TRUE, guarded |-> FALSE]

Compound == [Plain({Ls}, {"ls"}) EXCEPT !.form = "compound"]

\* beside a plain command that passes, only a compound one
MCCompound == {Plain({Git}, {"git"}), Compound}

MCCommands ==
  {Plain({}, {}),                                     \* a tool without a command
   Plain({Ls}, {"ls"}),
   Plain({Git}, {"git"}),
   Plain({Ls, Push}, {"ls", "git push"}),
   Plain({Push}, {}),                                 \* no prefix suggested
   Plain({Secret}, {"ls"}),
   [Plain({Git}, {"git"}) EXCEPT !.guarded = TRUE],
   [Plain({Git}, {"ls"}) EXCEPT !.present = FALSE],
   Compound,
   [Plain({Raw}, {"git"}) EXCEPT !.form = "unparsable"],
   [Plain({Ls}, {"ls"}) EXCEPT !.args = "dynamic"]}
=============================================================================
