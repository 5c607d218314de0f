------------------------------ MODULE MCLocal ------------------------------
(***************************************************************************)
(* What a user's commands keep on the local disk, for TLC: long-term       *)
(* memory, the chat's session memory, the snapshots of runs, the journals, *)
(* the skill library, the baseline of an evaluation, and how a command     *)
(* starts.  They share no state, so a behaviour moves the one it has       *)
(* chosen.                                                                 *)
(***************************************************************************)
EXTENDS LongTermMemory, ChatSession, Snapshots, Journal, Launch, Skills,
        Evaluation, TLC

CONSTANT Short   \* the namespace whose text begins that of every other

VARIABLE part

\* memory.db_path and memory.store_db name one file
OneDb == [w \in {"slash", "tool"} |-> "memory.db"]

\* the scopes /proj and /proj2: n begins the text of n2
MCUnder == [ns \in Namespaces |-> IF ns = Short THEN Namespaces ELSE {ns}]

\* the scope /proj2 holds at most the content 1, remembered once
SmallSibling ==
  \A p \in Places, x \in Contents :
    p[2] # Short /\ store[p][x] # Absent => x = 1 /\ store[p][x].count = 0

Symmetry == Permutations(Callers)

Setting(s, values) == {[Blank EXCEPT ![s] = v] : v \in values}

MCFiles ==
  {Blank} \cup Setting("hitl", {"always", "bad", Null}) \cup Setting("steps", {"5"})
    \cup Setting("key", {"k"}) \cup Setting("multi", {"on"})
    \cup Setting("sandbox", {"5", Null}) \cup Setting("own_sandbox", {"6", Null})

MCEnvironments ==
  {Blank} \cup Setting("hitl", {"always", "", "never"}) \cup Setting("steps", {"7", "bad"})
    \cup Setting("key", {"l", ""}) \cup Setting("multi", {"on", "", "bad"})

MCOptions ==
  {Blank} \cup Setting("hitl", {"auto", "always", "bad"}) \cup Setting("steps", {"9"})
    \cup Setting("key", {"m", ""}) \cup Setting("multi", {"on"})

MCFileOf == [n \in SkillNames |-> 2]

MCDatasets == {<<{"normal"}, {"boundary"}>>, <<{"error"}>>, <<{"other"}>>}

localVars ==
  <<memoryVars, chatVars, snapVars, journalVars, launchVars, skillVars, evalVars>>

Parts == {"memory", "chat", "snapshots", "journal", "launch", "skills", "evaluation"}

LocalInit ==
  /\ part \in Parts
  /\ MemoryInit /\ ChatInit /\ SnapInit /\ JournalInit /\ LaunchInit
  /\ SkillsInit /\ EvalInit
  /\ part # "chat" => ~planMode
  /\ part # "snapshots" => run = [r \in Runs |-> NewRun(TRUE)]
  /\ part # "launch" => environment = Blank
  /\ part # "evaluation" => cases = <<{"normal"}, {"boundary"}>>

LocalNext ==
  /\ part' = part
  /\ \/ /\ part = "memory" /\ MemoryNext
        /\ UNCHANGED <<chatVars, snapVars, journalVars, launchVars, skillVars, evalVars>>
     \/ /\ part = "chat" /\ ChatNext
        /\ UNCHANGED <<memoryVars, snapVars, journalVars, launchVars, skillVars, evalVars>>
     \/ /\ part = "snapshots" /\ SnapNext
        /\ UNCHANGED <<memoryVars, chatVars, journalVars, launchVars, skillVars, evalVars>>
     \/ /\ part = "journal" /\ JournalNext
        /\ UNCHANGED <<memoryVars, chatVars, snapVars, launchVars, skillVars, evalVars>>
     \/ /\ part = "launch" /\ LaunchNext
        /\ UNCHANGED <<memoryVars, chatVars, snapVars, journalVars, skillVars, evalVars>>
     \/ /\ part = "skills" /\ SkillsNext
        /\ UNCHANGED <<memoryVars, chatVars, snapVars, journalVars, launchVars, evalVars>>
     \/ /\ part = "evaluation" /\ EvalNext
        /\ UNCHANGED <<memoryVars, chatVars, snapVars, journalVars, launchVars, skillVars>>

LocalSpec == LocalInit /\ [][LocalNext]_<<part, localVars>>

\* The variables of every part keep their types.
LocalTyped ==
  /\ MemoryTypeOK /\ ChatTypeOK /\ SnapTypeOK /\ JournalTypeOK /\ LaunchTypeOK
  /\ SkillTypeOK /\ EvalTypeOK
=============================================================================
