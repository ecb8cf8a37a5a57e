------------------------------ MODULE Upgrade -------------------------------
(***************************************************************************)
(* takt init, takt upgrade and takt asset: the assets that a release ships *)
(* are copied into a project and recorded in a manifest with their hashes, *)
(* and a later release brings them up to date beside what the user did to  *)
(* them.  A file is an asset's path with n times ".disabled"; a content is *)
(* the release whose text or keys it has and who made it so: "settings"    *)
(* and "merged" are configs that an upgrade wrote anew from what it parsed *)
(* of the user's and of another, their comments gone; "torn" is what a     *)
(* write that was cut short leaves, an empty file or the first part.       *)
(***************************************************************************)
EXTENDS Naturals, FiniteSetsExt

CONSTANTS
    Guardrails,  \* templates/agents/: written with the answers filled in
    Templates,   \* templates/skills/
    Managed,     \* .agents/skills/, .claude/skills/, .claude/agents/
    Config,      \* .takt/config.yaml
    Shipped,     \* of each release: the assets in its bundle
    MaxSuffix,   \* bound: on ".disabled" after a path
    MaxEdits,    \* bound: on what the user does to the files
    MaxCrashes   \* bound: on commands that are killed

Assets == Guardrails \cup Templates \cup Managed \cup {Config}
Releases == DOMAIN Shipped

ASSUME UpgradeAssumption ==
    /\ MaxSuffix \in Nat /\ MaxEdits \in Nat /\ MaxCrashes \in Nat
    /\ \A r \in Releases : r \in Nat \ {0} /\ Shipped[r] \subseteq Assets /\ Config \in Shipped[r]

Files == Assets \X (0..MaxSuffix)
Absent == [by |-> "none", v |-> 0]
Remnant == [by |-> "torn", v |-> 0]
Contents ==
    [by : {"none", "bundle", "init", "user", "settings", "merged", "torn"}, v : {0} \cup Releases]
Entries == [sha : Contents, user_owned : BOOLEAN, source : {"bundled", "user"}]

VARIABLES
    release,    \* the release installed
    disk,       \* the content of each file
    record,     \* the manifest file: "none", "torn", or "whole"
    manifest,   \* its entries
    edits, crashes,
    bypassed    \* history: a command wrote files and not the manifest

upgradeVars == <<release, disk, record, manifest, edits, crashes, bypassed>>

UpgradeTypeOK ==
    /\ release \in Releases
    /\ disk \in [Files -> Contents]
    /\ record \in {"none", "torn", "whole"}
    /\ DOMAIN manifest \subseteq Files
    /\ \A f \in DOMAIN manifest : manifest[f] \in Entries
    /\ edits \in 0..MaxEdits /\ crashes \in 0..MaxCrashes /\ bypassed \in BOOLEAN

(* The user may have files of her own where takt would put its.            *)
UpgradeInit ==
    /\ release \in Releases
    /\ \E own \in SUBSET (Assets \ {Config}) :
          disk = [f \in Files |-> IF f[1] \in own /\ f[2] = 0 THEN [by |-> "user", v |-> release] ELSE Absent]
    /\ record = "none" /\ manifest = <<>>
    /\ edits = 0 /\ crashes = 0 /\ bypassed = FALSE

-----------------------------------------------------------------------------
File(a) == <<a, 0>>
Bundle == {File(a) : a \in Shipped[release]}
Pristine == [by |-> "bundle", v |-> release]
Entry(content, owned, source) == [sha |-> content, user_owned |-> owned, source |-> source]

(* scaffold_project.  Config, guardrails and skill templates are written   *)
(* if they are not there or with --overwrite, the managed ones always; the *)
(* first run records what it wrote.                                        *)
Filled(f) == f[1] \in Guardrails \cup {Config}
Installs(overwrite) ==
    {f \in Bundle : f[1] \in Managed \/ overwrite \/ disk[f] = Absent}
Installed(S) ==
    [f \in Files |-> IF f \notin S THEN disk[f]
                     ELSE IF Filled(f) THEN [by |-> "init", v |-> release] ELSE Pristine]

(* A copy, or a write, truncates the file first.                           *)
CutShort(d, S) == {d} \cup {[d EXCEPT ![f] = Remnant] : f \in S}

InitProject ==
    \E overwrite \in BOOLEAN :
        /\ disk' = Installed(Installs(overwrite))
        /\ bypassed' = (bypassed \/ record # "none")
        /\ IF record # "none" THEN UNCHANGED <<record, manifest>>
           ELSE /\ record' = "whole"
                /\ manifest' = [f \in Installs(overwrite) |->
                                    Entry(disk'[f], f[1] \in Guardrails, "bundled")]
        /\ UNCHANGED <<release, edits, crashes>>

InitKilled ==
    /\ crashes < MaxCrashes /\ crashes' = crashes + 1 /\ bypassed' = TRUE
    /\ \E overwrite \in BOOLEAN : \E S \in SUBSET Installs(overwrite) : disk' \in CutShort(Installed(S), S)
    /\ UNCHANGED <<release, record, manifest, edits>>

-----------------------------------------------------------------------------
(* read_assets_manifest: a torn manifest reads as an empty one.            *)
Tracked == IF record = "whole" THEN DOMAIN manifest ELSE {}
KeptEntries == [f \in Tracked |-> manifest[f]]

(* evaluate_upgrade_actions.  Files at the suffix bound are not looked at. *)
Decide(f) ==
    IF f \in Bundle THEN
        IF f \notin Tracked THEN "new"
        ELSE IF manifest[f].user_owned THEN "skipped_user_owned"
        ELSE IF disk[f] = Absent THEN "restored"
        ELSE IF disk[f] # manifest[f].sha THEN "skipped_modified"
        ELSE IF disk[f] = Pristine THEN "unchanged" ELSE "update"
    ELSE IF f[2] = MaxSuffix THEN "none"
    ELSE IF f \in Tracked THEN "disabled"
    ELSE IF disk[f] # Absent /\ f[1] # Config THEN "user_added" ELSE "none"

(* Deviation for the mutants: edited files are updated too.                *)
CopiedOverEdits == {f \in Files : Decide(f) \in {"new", "update", "restored", "skipped_modified"}}

(* Deviation for the mutants: a file that is gone counts as edited.        *)
CopiedIfThere == {f \in Files : Decide(f) \in {"new", "update"}}

Copied == {f \in Files : Decide(f) \in {"new", "update", "restored"}}
Disabled == {f \in Files : Decide(f) = "disabled"}
Added == {f \in Files : Decide(f) = "user_added"}

(* The content that is at f when its turn comes, of a command that applies *)
(* its decisions in the order of the paths: a file that is disabled        *)
(* replaces the one with the longer name, so that of a row of disabled     *)
(* ones the first reaches f.                                               *)
Reaching(f, disabled) ==
    {n \in 0..f[2] : /\ disk[<<f[1], n>>] # Absent
                     /\ \A m \in n..f[2] : m = f[2] \/ <<f[1], m>> \in disabled}
Carried(f, disabled) ==
    LET reaching == Reaching(f, disabled)
    IN  IF reaching = {} THEN Absent ELSE disk[<<f[1], Min(reaching)>>]

Applied(copied, disabled) ==
    [f \in Files |-> IF f \in copied THEN Pristine
                    ELSE IF f \in disabled THEN Absent ELSE Carried(f, disabled)]

(* The merge of the config, which parses it, adds the keys it lacks and    *)
(* writes it anew; or dies, of what the user wrote or a kill left, if that *)
(* does not parse.                                                         *)
UserMade == {"user", "settings"}
Rewritten(c) == [by |-> IF c.by \in UserMade THEN "settings" ELSE "merged", v |-> release]
Merged(d) ==
    LET c == File(Config)
    IN  IF d[c] = Absent \/ d[c].v >= release THEN {d}
        ELSE {[d EXCEPT ![c] = Rewritten(d[c])]} \cup (IF d[c].by \in {"user", "torn"} THEN {d} ELSE {})

(* command_upgrade; takt asset list and --dry-run only show the decisions. *)
Recorded ==
    LET copied == Copied
        added == Added
    IN  [f \in (Tracked \ Disabled) \cup copied \cup added |->
            IF f \in added THEN Entry(disk[f], TRUE, "user")
            ELSE IF f \notin copied THEN manifest[f]
            ELSE IF f \in Tracked THEN [manifest[f] EXCEPT !.sha = Pristine]
            ELSE Entry(Pristine, FALSE, "bundled")]

UpgradeProject ==
    /\ UNCHANGED <<release, edits, crashes, bypassed>>
    /\ disk' \in Merged(Applied(Copied, Disabled))
    /\ record' = "whole" /\ manifest' = Recorded

(* It dies while it applies its decisions, while it writes the manifest,   *)
(* or before or while it writes the config anew.                           *)
UpgradeKilled ==
    LET copied == Copied
        disabled == Disabled
        all == copied \cup disabled
        InOrder(S) == \A f \in S, g \in all : f[1] = g[1] /\ g[2] < f[2] => g \in S
    IN  /\ crashes < MaxCrashes /\ crashes' = crashes + 1
        /\ \/ /\ bypassed' = TRUE /\ UNCHANGED manifest
              /\ \E S \in SUBSET all :
                    /\ InOrder(S)
                    /\ disk' \in CutShort(Applied(S \cap copied, S \cap disabled), S \cap copied)
                    /\ record' \in IF S = all THEN {record, "torn"} ELSE {record}
           \/ /\ LET applied == Applied(copied, disabled)
                 IN  disk' \in {applied} \cup
                               {[d EXCEPT ![File(Config)] = Remnant] : d \in Merged(applied) \ {applied}}
              /\ record' = "whole" /\ manifest' = Recorded
              /\ UNCHANGED bypassed
        /\ UNCHANGED <<release, edits>>

(* takt asset mark-owned and unmark-owned.                                 *)
MarkOwned ==
    /\ edits < MaxEdits /\ edits' = edits + 1
    /\ \E f \in Tracked, owned \in BOOLEAN :
          /\ owned \/ manifest[f].source # "user"
          /\ manifest' = [KeptEntries EXCEPT ![f].user_owned = owned]
    /\ UNCHANGED <<release, disk, record, crashes, bypassed>>

(* The user writes or deletes a file, or installs the next release.        *)
UserEdits ==
    /\ edits < MaxEdits /\ edits' = edits + 1
    /\ \E f \in Files :
          \/ disk[f] = Absent /\ f[2] = 0 /\ disk' = [disk EXCEPT ![f] = [by |-> "user", v |-> release]]
          \/ disk[f] # Absent /\ disk' = [disk EXCEPT ![f].by = "user"]
          \/ disk[f] # Absent /\ disk' = [disk EXCEPT ![f] = Absent]
    /\ UNCHANGED <<release, record, manifest, crashes, bypassed>>

NewRelease ==
    /\ release + 1 \in Releases /\ release' = release + 1
    /\ UNCHANGED <<disk, record, manifest, edits, crashes, bypassed>>

UpgradeNext ==
    \/ InitProject \/ InitKilled \/ UpgradeProject \/ UpgradeKilled
    \/ MarkOwned \/ UserEdits \/ NewRelease

UpgradeSpec == UpgradeInit /\ [][UpgradeNext]_upgradeVars

-----------------------------------------------------------------------------
Initializing == InitProject \/ InitKilled

(* An upgrade, complete or killed, after whatever happened before, leaves  *)
(* every text of the user that the manifest knows of where it is, or sets  *)
(* it aside under a longer name.  Of the config it keeps the settings but  *)
(* not the comments, and a kill while it is written anew leaves it torn.   *)
TrackedEditsKept ==
    [][\A f \in Tracked : disk[f].by \in UserMade /\ f[2] = 0 =>
          \/ disk'[f] = disk[f]
          \/ \E n \in 1..MaxSuffix : disk'[<<f[1], n>>] = disk[f]
          \/ f = File(Config) /\ (disk'[f].by = "settings" \/ (UpgradeKilled /\ disk'[f] = Remnant))
          \/ UserEdits \/ Initializing]_upgradeVars

(* If no command was killed and takt init ran first, once at most, what is *)
(* not the user's is of the release that is installed, once it is upgraded *)
(* (run again over a manifest, takt init makes its files look edited; a    *)
(* config that keys were added to does too, but has the keys).             *)
UpToDate ==
    [][(~bypassed /\ upgradeVars' # upgradeVars /\ UpgradeProject) => \A f \in Bundle \ {File(Config)} :
          disk'[f] = Pristine \/ disk'[f].by = "user" \/ manifest'[f].user_owned]_upgradeVars

(* docs/onboarding.md: a file with user_owned in the manifest is skipped   *)
(* unconditionally by an upgrade.                                          *)
UserOwnedSkipped ==
    [][\A f \in Tracked :
          ~manifest[f].user_owned \/ disk'[f] = disk[f] \/ UserEdits \/ Initializing]_upgradeVars
=============================================================================
