------------------------------- MODULE Skills -------------------------------
(***************************************************************************)
(* The local skill library: SkillLibrary (GSagent/core/skills/library.py)  *)
(* behind `agent skills list|add|rm` and the chat's /skill (GSagent/       *)
(* main.py), in any number of processes over one directory, in which the   *)
(* user places files too.                                                  *)
(*                                                                         *)
(* A file is a number, in the order of the sorted directory.  Of a skill   *)
(* only its name and which text it is matter.  A file is written by        *)
(* opening, which empties it, and by filling it.                           *)
(***************************************************************************)
EXTENDS Naturals, Sequences, SequencesExt

CONSTANTS
  Shells,      \* processes
  SkillFiles,  \* names of files in the directory
  SkillNames,
  Texts,       \* what the instructions of a skill may be
  FileOf       \* the file add and rm take for each name

ASSUME SkillsAssumption ==
  /\ SkillNames # {} /\ Texts # {} /\ SkillFiles \subseteq Nat
  /\ FileOf \in [SkillNames -> SkillFiles]

VARIABLES
  library,    \* what each file holds
  shell,      \* what each process is doing
  touched     \* history: files changed since each process began to read

skillVars == <<library, shell, touched>>

\* a file that is not there, one that is empty or names no skill, and one
\* that two writers have written over each other
Gone == [is |-> "gone"]
Nameless == [is |-> "nameless"]
Mixed == [is |-> "mixed"]
Skill == [is : {"skill"}, name : SkillNames, text : Texts]

NoWork == [cmd |-> "none"]
Work == [cmd : {"look", "add", "rm"},
         pc : {"open", "fill", "glob", "read", "exists", "unlink"},
         skill : Skill,
         hold : {"none", "own", "shared", "lost"},   \* the file add has open
         todo : SUBSET SkillFiles,                   \* what glob listed
         found : Seq(Skill)]                         \* the library, so far

SkillTypeOK ==
  /\ library \in [SkillFiles -> {Gone, Nameless, Mixed} \cup Skill]
  /\ shell \in [Shells -> [loaded : BOOLEAN, work : {NoWork} \cup Work]]
  /\ touched \in [Shells -> SUBSET SkillFiles]

SkillsInit ==
  /\ library = [f \in SkillFiles |-> Gone]
  /\ shell = [p \in Shells |-> [loaded |-> FALSE, work |-> NoWork]]
  /\ touched = [p \in Shells |-> {}]

At(p, pc) == shell[p].work # NoWork /\ shell[p].work.pc = pc

Own(p) == FileOf[shell[p].work.skill.name]

\* f is changed, under whoever is reading or has it open
Write(f, text) ==
  /\ library' = [library EXCEPT ![f] = text]
  /\ touched' = [q \in Shells |-> IF At(q, "read") THEN touched[q] \cup {f} ELSE {}]

OnlyReads == UNCHANGED <<library, touched>>

Does(p, work) == shell' = [shell EXCEPT ![p].work = work]

-----------------------------------------------------------------------------
(* The commands.                                                           *)

Begins(p, cmd, pc, s) ==
  /\ shell[p].work = NoWork /\ ~shell[p].loaded
  /\ Does(p, [cmd |-> cmd, pc |-> pc, skill |-> s, hold |-> "none", todo |-> {},
              found |-> <<>>])
  /\ OnlyReads

\* skills_list, and /skill of a chat, whose library loads once
LoadSkills(p) == Begins(p, "look", "glob", CHOOSE s \in Skill : TRUE)

\* skills_add; a file that names no skill is refused
AddSkill(p, s) == Begins(p, "add", "open", s)

\* skills_rm: remove loads first
RemoveSkill(p, n) == Begins(p, "rm", "glob", CHOOSE s \in Skill : s.name = n)

\* what a command's library holds when it ends is gone with it
NewShell(p) ==
  /\ shell' = [shell EXCEPT ![p] = [loaded |-> FALSE, work |-> NoWork]]
  /\ touched' = [touched EXCEPT ![p] = {}]
  /\ UNCHANGED library

-----------------------------------------------------------------------------
(* add and remove.                                                         *)

OpenSkill(p) ==
  /\ At(p, "open")
  /\ Write(Own(p), Nameless)
  /\ Does(p, [shell[p].work EXCEPT !.pc = "fill", !.hold = "own"])

\* others that have the file open as p fills or unlinks it
Held(p, q, hold) ==
  IF q # p /\ At(q, "fill") /\ Own(q) = Own(p) /\ shell[q].work.hold # "lost"
  THEN [shell[q] EXCEPT !.work.hold = hold] ELSE shell[q]

\* then add reloads
FillSkill(p) ==
  /\ At(p, "fill")
  /\ shell' = [q \in Shells |->
                 IF q = p THEN [shell[p] EXCEPT !.work.pc = "glob", !.work.hold = "none"]
                 ELSE IF shell[p].work.hold = "lost" THEN shell[q] ELSE Held(p, q, "shared")]
  /\ CASE shell[p].work.hold = "own" -> Write(Own(p), shell[p].work.skill)
       [] shell[p].work.hold = "shared" ->
            \E text \in {shell[p].work.skill, Mixed} : Write(Own(p), text)
       [] OTHER -> OnlyReads

\* remove returns False when the file is not there
Exists(p) ==
  /\ At(p, "exists")
  /\ Does(p, IF library[Own(p)] = Gone THEN NoWork ELSE [shell[p].work EXCEPT !.pc = "unlink"])
  /\ OnlyReads

\* unlink raises when another has removed the file in between
Unlinked(p) ==
  /\ At(p, "unlink")
  /\ IF library[Own(p)] = Gone
     THEN Does(p, NoWork) /\ OnlyReads
     ELSE /\ Write(Own(p), Gone)
          /\ shell' = [q \in Shells |->
                         IF q = p THEN [shell[p] EXCEPT !.work.pc = "glob", !.work.cmd = "look",
                                                        !.loaded = FALSE]
                         ELSE Held(p, q, "lost")]

-----------------------------------------------------------------------------
(* _load_from_disk.                                                        *)

GlobSkills(p) ==
  /\ At(p, "glob")
  /\ Does(p, [shell[p].work EXCEPT !.pc = "read", !.found = <<>>,
                !.todo = {f \in SkillFiles : library[f] # Gone}])
  /\ OnlyReads

\* what a file may be read as: a skill, or nothing
ReadAs(f) ==
  CASE library[f] \in Skill -> {<<library[f]>>}
    [] library[f] = Mixed   -> {<<>>} \cup {<<s>> : s \in Skill}
    [] OTHER                -> {<<>>}

First(fs) == CHOOSE f \in fs : \A g \in fs : f <= g

ReadSkillOrStop(p) ==                  \* mutant: the try is around the loop
  /\ At(p, "read") /\ shell[p].work.todo # {}
  /\ LET f == First(shell[p].work.todo)
     IN  \E s \in ReadAs(f) :
           Does(p, [shell[p].work EXCEPT !.found = @ \o s,
                      !.todo = IF library[f] = Gone THEN {} ELSE @ \ {f}])
  /\ OnlyReads

\* a file that cannot be read, is gone, or names no skill is passed over
ReadSkill(p) ==
  /\ At(p, "read") /\ shell[p].work.todo # {}
  /\ LET f == First(shell[p].work.todo)
     IN  \E s \in ReadAs(f) :
           Does(p, [shell[p].work EXCEPT !.found = @ \o s, !.todo = @ \ {f}])
  /\ OnlyReads

EndLoad(p) ==
  /\ At(p, "read") /\ shell[p].work.todo = {}
  /\ shell' = [shell EXCEPT
       ![p].loaded = TRUE,
       ![p].work = IF @.cmd = "rm" THEN [@ EXCEPT !.pc = "exists", !.found = <<>>] ELSE NoWork]
  /\ touched' = [touched EXCEPT ![p] = {}]
  /\ UNCHANGED library

-----------------------------------------------------------------------------
\* the user's editor
Place(f, text) ==
  /\ library[f] # text /\ Write(f, text)
  /\ \A q \in Shells : At(q, "fill") => Own(q) # f
  /\ UNCHANGED shell

SkillsNext ==
  \/ \E p \in Shells :
       \/ NewShell(p) \/ OpenSkill(p) \/ FillSkill(p) \/ Exists(p) \/ Unlinked(p)
       \/ GlobSkills(p) \/ ReadSkill(p) \/ EndLoad(p)
       \/ LoadSkills(p) \/ \E n \in SkillNames : RemoveSkill(p, n)
       \/ \E s \in Skill : AddSkill(p, s)
  \/ \E f \in SkillFiles, text \in {Gone, Nameless} \cup Skill : Place(f, text)

SkillsSpec == SkillsInit /\ [][SkillsNext]_skillVars

-----------------------------------------------------------------------------
(* Properties.                                                             *)

\* A library that has just been loaded holds the skill of every file that
\* nobody touched meanwhile, whatever became of the others
\* (_load_from_disk, library.py:56-77).
SkillsListed ==
  [][\A p \in Shells : EndLoad(p) =>
       \A f \in SkillFiles \ touched[p] :
         library[f] \in Skill => library[f] \in ToSet(shell[p].work.found)
    ]_skillVars

-----------------------------------------------------------------------------
(* What the code says of itself and does not do.                           *)

\* library.py:122: add overwrites the skill of the same name.  It does so
\* in its own file, and get returns the first of the name.
SameNameOverwritten ==
  [][\A p \in Shells : EndLoad(p) /\ shell[p].work.cmd = "add" /\ touched[p] = {} =>
       \A s \in ToSet(shell[p].work.found) :
         s.name = shell[p].work.skill.name => s = shell[p].work.skill
    ]_skillVars
=============================================================================
