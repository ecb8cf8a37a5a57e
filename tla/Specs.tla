-------------------------------- MODULE Specs ---------------------------------
(***************************************************************************)
(* spec.py, with which agents keep the specs of a project: a spec lives in *)
(* the folder of its status, and its id and status are in the frontmatter  *)
(* of the file.  Agents run its commands side by side on the same files,   *)
(* and each command is several reads and writes of them.                   *)
(***************************************************************************)
EXTENDS Naturals, FiniteSets

CONSTANTS
    Agents,
    Names,      \* the file names that titles give
    FolderOf,   \* of each status: STATUS_TO_DIR, else the status itself
    MaxSpecs,   \* bound: on the specs ever made
    MaxKills    \* bound: on the commands killed

Statuses == DOMAIN FolderOf
Folders == {FolderOf[s] : s \in Statuses}
Paths == Folders \X Names
Draft == "draft"

ASSUME SpecsAssumption ==
    /\ MaxSpecs \in Nat /\ MaxKills \in Nat
    /\ Draft \in Statuses

VARIABLES
    specs,      \* the file at each path
    made,       \* how many specs were ever made: each has its number as text
    command,    \* of each agent, the command it runs
    kills

specsVars == <<specs, made, command, kills>>

(* The kinds of file: legacy has no frontmatter, and broken has one that   *)
(* the parser rejects, which create writes for a title like "[a".          *)
Spec(text, kind, id, status) == [text |-> text, kind |-> kind, id |-> id, status |-> status]
NoFile == Spec(0, "none", 0, Draft)

(* at is the step a command is at; alone says that no other ran beside it. *)
Command(at, p, fm, status) == [at |-> at, path |-> p, fm |-> fm, status |-> status, alone |-> TRUE]
Resting == [at |-> "rest"]

SpecsInit ==
    /\ specs \in [Paths -> {NoFile, Spec(1, "legacy", 0, Draft)}]
    /\ Cardinality({p \in Paths : specs[p] # NoFile}) = 1
    /\ made = 1 /\ kills = 0
    /\ command = [a \in Agents |-> Resting]

-----------------------------------------------------------------------------
There == {p \in Paths : specs[p] # NoFile}
InFolder(s) == {p \in Paths : p[1] = FolderOf[s]}
PathOf(s, p) == <<FolderOf[s], p[2]>>

(* resolve_spec: by id, of copies the first, or by a name only one has.    *)
Resolves(p) ==
    /\ p \in There
    /\ \/ specs[p].kind = "parsed"
       \/ \A q \in There : q[2] = p[2] => q = p

(* _status_from_path; two statuses may share a folder.                     *)
StatusAt(p) == IF p \in InFolder(Draft) THEN Draft ELSE CHOOSE s \in Statuses : PathOf(s, p) = p

(* A command begins while others are under way, or alone.                  *)
Quiet(a) == command[a].at \in {"rest", "set"}
Begin(a, c) ==
    /\ Quiet(a)
    /\ command' = [b \in Agents |->
          IF b = a THEN [c EXCEPT !.alone = \A d \in Agents : Quiet(d)]
          ELSE IF Quiet(b) THEN Resting ELSE [command[b] EXCEPT !.alone = FALSE]]
Continue(a, at) == command' = [command EXCEPT ![a].at = at]
Return(a) == command' = [command EXCEPT ![a] = Resting]

-----------------------------------------------------------------------------
(* cmd_create: it looks whether the name is taken, then writes the file.   *)
CreateStart(a) ==
    /\ made < MaxSpecs /\ made' = made + 1
    /\ \E p \in InFolder(Draft), kind \in {"parsed", "broken"} :
          /\ specs[p] = NoFile
          /\ Begin(a, Command("create", p, Spec(made', kind, made', Draft), Draft))
    /\ UNCHANGED <<specs, kills>>

CreateWrite(a) ==
    /\ command[a].at = "create"
    /\ specs' = [specs EXCEPT ![command[a].path] = command[a].fm]
    /\ Return(a) /\ UNCHANGED <<made, kills>>

(* Deviation for the mutants: a status that is set already is left alone.  *)
SetStartIfNew(a) ==
    /\ \E p \in Paths, s \in Statuses :
          /\ Resolves(p) /\ specs[p].kind = "parsed"
          /\ Begin(a, Command(IF s = specs[p].status THEN "set" ELSE "write", p, specs[p], s))
    /\ UNCHANGED <<specs, made, kills>>

(* cmd_set: the spec is found and parsed; a legacy one or a broken one is  *)
(* refused.  The other fields are written and that is all.                 *)
SetStart(a) ==
    /\ \E p \in Paths :
          /\ Resolves(p) /\ specs[p].kind = "parsed"
          /\ \/ \E s \in Statuses : Begin(a, Command("write", p, specs[p], s))
             \/ Begin(a, Command("field", p, specs[p], specs[p].status))
    /\ UNCHANGED <<specs, made, kills>>

(* write_frontmatter keeps the body that the file has, and raises if the   *)
(* file is gone.                                                           *)
WithFrontmatter(p, fm, status) ==
    specs' = [specs EXCEPT ![p] = Spec(@.text, "parsed", fm.id, status)]

SetField(a) ==
    /\ command[a].at = "field"
    /\ LET c == command[a]
       IN  IF specs[c.path] = NoFile THEN UNCHANGED specs
           ELSE WithFrontmatter(c.path, c.fm, c.fm.status)
    /\ Return(a) /\ UNCHANGED <<made, kills>>

SetWrite(a) ==
    /\ command[a].at = "write"
    /\ LET c == command[a]
       IN  IF specs[c.path] = NoFile THEN Return(a) /\ UNCHANGED specs
           ELSE /\ WithFrontmatter(c.path, c.fm, c.status)
                /\ Continue(a, IF PathOf(c.status, c.path) = c.path THEN "set" ELSE "move")
    /\ UNCHANGED <<made, kills>>

(* shutil.move replaces a file of that name in the other folder.           *)
SetMove(a) ==
    /\ command[a].at = "move"
    /\ LET c == command[a]
       IN  IF specs[c.path] = NoFile THEN Return(a) /\ UNCHANGED specs
           ELSE /\ specs' = [specs EXCEPT ![c.path] = NoFile, ![PathOf(c.status, c.path)] = specs[c.path]]
                /\ Continue(a, "rewrite")
    /\ UNCHANGED <<made, kills>>

(* It is parsed and written once more in its new place.                    *)
SetRewrite(a) ==
    /\ command[a].at = "rewrite"
    /\ LET c == command[a]
           p == PathOf(c.status, c.path)
       IN  IF specs[p] = NoFile \/ specs[p].kind = "legacy" THEN Return(a) /\ UNCHANGED specs
           ELSE /\ WithFrontmatter(p, IF specs[p].kind = "parsed" THEN specs[p] ELSE c.fm, c.status)
                /\ Continue(a, "set")
    /\ UNCHANGED <<made, kills>>

(* cmd_migrate gives a legacy spec an id and the status of its folder.     *)
MigrateStart(a) ==
    /\ made < MaxSpecs /\ made' = made + 1
    /\ \E p \in Paths :
          /\ Resolves(p) /\ specs[p].kind = "legacy"
          /\ Begin(a, Command("field", p, Spec(0, "parsed", made', StatusAt(p)), StatusAt(p)))
    /\ UNCHANGED <<specs, kills>>

(* cmd_remove: a spec that is no draft is asked about.                     *)
RemoveStart(a) ==
    /\ \E p \in Paths : Resolves(p) /\ Begin(a, Command("remove", p, specs[p], Draft))
    /\ UNCHANGED <<specs, made, kills>>

RemoveFile(a) ==
    /\ command[a].at = "remove"
    /\ \/ specs' = [specs EXCEPT ![command[a].path] = NoFile]
       \/ command[a].fm.status # Draft /\ UNCHANGED specs
    /\ Return(a) /\ UNCHANGED <<made, kills>>

(* A command is killed between two steps, or with the file it writes cut   *)
(* off right after it was opened: it is then empty, that is, legacy.       *)
Opened(c) == IF c.at = "rewrite" THEN PathOf(c.status, c.path) ELSE c.path

Killed(a) ==
    /\ kills < MaxKills /\ kills' = kills + 1
    /\ ~Quiet(a)
    /\ \/ UNCHANGED specs
       \/ /\ command[a].at \in {"create", "write", "field", "rewrite"}
          /\ Opened(command[a]) \in There \/ command[a].at = "create"
          /\ specs' = [specs EXCEPT ![Opened(command[a])] = Spec(MaxSpecs + 1, "legacy", 0, Draft)]
    /\ Return(a) /\ UNCHANGED made

SpecsNext ==
    \E a \in Agents :
        \/ CreateStart(a) \/ CreateWrite(a) \/ SetStart(a) \/ SetField(a)
        \/ SetWrite(a) \/ SetMove(a) \/ SetRewrite(a) \/ MigrateStart(a)
        \/ RemoveStart(a) \/ RemoveFile(a) \/ Killed(a)

SpecsSpec == SpecsInit /\ [][SpecsNext]_specsVars

-----------------------------------------------------------------------------
(* Whatever killed or concurrent commands left behind, a set status beside *)
(* which nothing else ran leaves the spec it was given in the folder of    *)
(* the status its frontmatter has, and at no other path of that command.   *)
SetStatusRepairs ==
    \A a \in Agents :
        LET c == command[a]
            p == PathOf(c.status, c.path)
        IN  (c.at = "set" /\ c.alone) =>
                /\ specs[p].status = c.status /\ specs[p].id = c.fm.id /\ specs[p].text = c.fm.text
                /\ p # c.path => specs[c.path] = NoFile
=============================================================================
