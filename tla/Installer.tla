----------------------------- MODULE Installer ------------------------------
(***************************************************************************)
(* The installers of one .claude directory.  The terminal's updates files  *)
(* the user may have edited: what was installed is known by the hashes of  *)
(* two manifests, edits are copied to local-patches, by name alone, hooks  *)
(* are merged into Claude Code's own settings.json.  Those of the brief,   *)
(* plan and dev packages copy files of the same names into the same        *)
(* directories and keep no record of it.  Any of them may fail or be       *)
(* killed after any file.                                                  *)
(***************************************************************************)
EXTENDS Naturals, Integers, FiniteSets, Sequences, SequencesExt

CONSTANTS
  Name,         \* file names
  MaxVersion,   \* bound: versions of the package
  MaxEdits,     \* bound: edits of installed files by the user
  Ships,        \* the files each version of the terminal copies, in order
  Carries,      \* those of them the package of its own copies too, in order
  Owner,        \* the role or the package a file comes from
  Roles,        \* the optional roles
  Fingerprint   \* the first 100 characters of each version's verification gate

Version == 1..MaxVersion
Dir == {"commands", "workflows", "agents"}
Path == Dir \X Name
Tracked == {"commands", "workflows"} \X Name

(* A file holds a version's content, an edit (negative) or does not exist. *)
None == 0
Content == (-MaxEdits)..MaxVersion
IsEdit(c) == c < 0

Package == {"brief", "plan", "dev"}
CORE_ROLES == {"implementer", "reviewer", "setup"}

PackageAssumption ==
  /\ IsFiniteSet(Name) /\ MaxVersion \in Nat /\ MaxEdits \in Nat
  /\ Ships \in [Version -> Seq(Path)] /\ Carries \in [Package -> Seq(Path)]
  /\ Owner \in [Path -> CORE_ROLES \union Roles \union {"brief", "plan", "scan"}]
  /\ DOMAIN Fingerprint = Version

VARIABLES
  disk,        \* content of commands, workflows and agents
  manifest,    \* the two manifests: recorded content, None where there is no entry
  patches,     \* local-patches
  settings,    \* settings.json: whether it parses, the hooks and gates registered
  isGlobal,    \* the directory is the home directory's, not a project's
  pc, who, version, roles,   \* the install: step, installer, version, enabled roles
  modified,    \* the files it found modified, before the user was asked
  todo,        \* files it has still to copy, remove or inline
  read,        \* what it read of settings.json
  edits,       \* how many edits have been made
  owed,        \* owed: edits the installer has promised to keep
  unrecorded,  \* history: files have been copied since the last whole update
  mistaken     \* history: edits owed whose backup such a file has replaced

files == <<disk, manifest, patches>>
install == <<isGlobal, who, version, roles, modified>>
promise == <<owed, unrecorded, mistaken>>
vars == <<files, settings, pc, install, todo, read, edits, promise>>

Settings == [valid : BOOLEAN, hooks : BOOLEAN, gates : SUBSET Version]
NoSettings == [valid |-> TRUE, hooks |-> FALSE, gates |-> {}]

TypeOK ==
  /\ disk \in [Path -> Content] /\ manifest \in [Tracked -> Content]
  /\ patches \in [Name -> Content]
  /\ settings \in Settings /\ read \in Settings
  /\ pc \in {"idle", "existing", "copy", "inline", "manifests", "runtime", "hooks",
             "settings"}
  /\ isGlobal \in BOOLEAN /\ who \in {"none", "terminal", "package"}
  /\ version \in Version \union {None} /\ roles \subseteq Roles
  /\ modified \subseteq Tracked
  /\ todo \in Seq(Path) /\ (todo # <<>> => pc \in {"copy", "inline"})
  /\ edits \in 0..MaxEdits
  /\ owed \subseteq {c \in Content : IsEdit(c)}
  /\ unrecorded \in BOOLEAN /\ mistaken \subseteq {c \in Content : IsEdit(c)}

Init ==
  /\ disk = [p \in Path |-> None] /\ manifest = [p \in Tracked |-> None]
  /\ patches = [n \in Name |-> None]
  /\ settings = NoSettings /\ read = NoSettings
  /\ isGlobal \in BOOLEAN
  /\ pc = "idle" /\ who = "none" /\ version = None /\ roles = {}
  /\ modified = {} /\ todo = <<>>
  /\ edits = 0 /\ owed = {} /\ unrecorded = FALSE /\ mistaken = {}

-----------------------------------------------------------------------------
(* runInstall *)

hasExisting == \E p \in Tracked : disk[p] # None

detectModifiedFiles ==
  {p \in Tracked : manifest[p] # None /\ disk[p] \notin {None, manifest[p]}}

(* validateSources: a package that is not whole is refused.  Roles are     *)
(* read from .clancy/.env; a global install enables all of them.  What has *)
(* been modified is looked up before the user is asked.                    *)
Start(v, r) ==
  /\ pc = "idle" /\ (isGlobal => r = Roles)
  /\ pc' = "existing" /\ who' = "terminal" /\ version' = v /\ roles' = r
  /\ modified' = IF hasExisting THEN detectModifiedFiles ELSE {}
  /\ UNCHANGED <<files, settings, isGlobal, todo, read, edits, promise>>

(* The packages of their own: no prompt, no manifest, no backup, no roles. *)
(* Their files are copied and inlined like the terminal's (CopyFile,       *)
(* InlineFile), and at last they leave a VERSION file of their own.        *)
StartPackage(pkg, v) ==
  /\ pc = "idle"
  /\ pc' = "copy" /\ who' = "package" /\ version' = v /\ todo' = Carries[pkg]
  /\ UNCHANGED <<files, settings, isGlobal, roles, modified, read, edits, promise>>

runBriefInstall(v) == StartPackage("brief", v)
runPlanInstall(v) == StartPackage("plan", v)
runDevInstall(v) == StartPackage("dev", v)

Copying ==
  /\ pc' = "copy"
  /\ todo' = Ships[version]

(* backupModifiedFiles copies the commands first, then the workflows, and  *)
(* by the path below each directory: of two files with one name the second *)
(* stays, and it replaces what an earlier update saved.  A newer edit may  *)
(* take an older one's place; what is no edit is one of the installer's    *)
(* own files, which it can only have mistaken for one when they have been  *)
(* copied and not recorded: by an update that was killed, or by one of the *)
(* packages of their own.                                                  *)
Saved(n) ==
  IF <<"workflows", n>> \in modified THEN disk[<<"workflows", n>>]
  ELSE IF <<"commands", n>> \in modified THEN disk[<<"commands", n>>]
  ELSE patches[n]

WrittenOver(n) ==
  {patches[n]} \union
  (IF <<"commands", n>> \in modified THEN {disk[<<"commands", n>>]} ELSE {})

Replaced(byEdit) ==
  UNION {WrittenOver(n) \ {Saved(n)} :
           n \in {m \in Name : IsEdit(Saved(m)) = byEdit}}

Backup_commandsOnly ==
  /\ patches' = [n \in Name |->
       IF <<"commands", n>> \in modified THEN disk[<<"commands", n>>] ELSE patches[n]]
  /\ owed' = owed \ Replaced(TRUE)
  /\ mistaken' = mistaken \union (IF unrecorded THEN owed \intersect Replaced(FALSE) ELSE {})

Backup ==
  /\ patches' = [n \in Name |-> Saved(n)]
  /\ owed' = owed \ Replaced(TRUE)
  /\ mistaken' = mistaken \union (IF unrecorded THEN owed \intersect Replaced(FALSE) ELSE {})

(* handleExistingInstall: the user may say no. *)
Overwrite ==
  /\ pc = "existing"
  /\ Backup
  /\ Copying
  /\ UNCHANGED <<disk, manifest, settings, install, read, edits, unrecorded>>

Finish ==
  /\ pc' = "idle" /\ who' = "none" /\ version' = None /\ roles' = {}
  /\ modified' = {}
  /\ UNCHANGED isGlobal

Decline ==
  /\ pc = "existing" /\ hasExisting /\ Finish
  /\ UNCHANGED <<files, settings, todo, read, edits, promise>>

(* What the terminal makes of a file: that of a disabled role is removed,  *)
(* whoever installed it; one that is no longer shipped stays.              *)
copyRoleFiles(role) == IF role \in CORE_ROLES \union roles THEN version ELSE None
handleBriefContent == IF "strategist" \in roles THEN version ELSE None
handlePlanContent == IF "planner" \in roles THEN version ELSE None
handleScanContent == version

installContent(p) ==
  CASE Owner[p] = "brief" -> handleBriefContent
    [] Owner[p] = "plan" -> handlePlanContent
    [] Owner[p] = "scan" -> handleScanContent
    [] OTHER -> copyRoleFiles(Owner[p])

(* One file after the other.  A package of its own copies over whatever it *)
(* finds.                                                                  *)
CopyFile ==
  /\ pc = "copy" /\ todo # <<>> /\ todo' = Tail(todo) /\ unrecorded' = TRUE
  /\ LET p == Head(todo) IN
     \/ /\ who = "terminal"
        /\ disk' = [disk EXCEPT ![p] = installContent(p)]
        /\ UNCHANGED owed
     \/ /\ who = "package"
        /\ disk' = [disk EXCEPT ![p] = version]
        /\ owed' = owed \ ({disk[p]} \ {patches[n] : n \in Name})
  /\ UNCHANGED <<manifest, patches, settings, pc, install, read, edits, mistaken>>

(* inlineWorkflows: in the home directory a command cannot refer to its    *)
(* workflow, whose text replaces the reference the copied command has.     *)
ToInline ==
  /\ pc = "copy" /\ todo = <<>> /\ isGlobal /\ pc' = "inline"
  /\ todo' = SetToSeq({p \in Path : p[1] = "commands" /\ disk[p] = version})
  /\ UNCHANGED <<files, settings, install, read, edits, promise>>

InlineFile ==
  /\ pc = "inline" /\ todo # <<>> /\ todo' = Tail(todo)
  /\ LET p == Head(todo)
         workflow == disk[<<"workflows", p[2]>>]
     IN disk' = [disk EXCEPT ![p] =
                   IF disk[p] = version /\ workflow # None THEN workflow ELSE @]
  /\ unrecorded' = TRUE
  /\ UNCHANGED <<manifest, patches, settings, pc, install, read, edits, owed, mistaken>>

AllCopied ==
  /\ pc = (IF isGlobal THEN "inline" ELSE "copy")
  /\ todo = <<>>

PackageDone ==
  /\ AllCopied /\ who = "package" /\ Finish
  /\ UNCHANGED <<files, settings, todo, read, edits, promise>>

(* writeVersionAndManifests records whatever is in the directories now,    *)
(* one manifest after the other.                                           *)
WriteManifests ==
  /\ AllCopied /\ who = "terminal" /\ pc' = "manifests"
  /\ manifest' = [p \in Tracked |->
       IF p[1] = "commands" THEN disk[p] ELSE manifest[p]]
  /\ UNCHANGED <<disk, patches, settings, install, todo, read, edits, promise>>

WriteWorkflowsManifest ==
  /\ pc = "manifests" /\ pc' = "runtime"
  /\ manifest' = [p \in Tracked |->
       IF p[1] = "workflows" THEN disk[p] ELSE manifest[p]]
  /\ unrecorded' = FALSE
  /\ UNCHANGED <<disk, patches, settings, install, todo, read, edits, owed, mistaken>>

(* Bundles and version.json, in the .clancy directory: no installer reads  *)
(* them back, the hooks do (SessionHooks).                                 *)
SetupProjectRuntime ==
  /\ pc = "runtime" /\ pc' = "hooks"
  /\ UNCHANGED <<files, settings, install, todo, read, edits, promise>>

-----------------------------------------------------------------------------
(* installHooks *)

(* A settings.json that cannot be parsed is taken for an empty one. *)
ReadSettings ==
  /\ pc = "hooks" /\ pc' = "settings"
  /\ read' = IF settings.valid THEN settings ELSE NoSettings
  /\ UNCHANGED <<files, settings, install, todo, edits, promise>>

(* filterNewEntries: a gate is known by its first 100 characters, so that  *)
(* one that only differs behind them is not replaced.                      *)
hasAgentPrompt(gates, v) == \E g \in gates : Fingerprint[g] = Fingerprint[v]

mergeSettings ==
  [read EXCEPT !.hooks = TRUE,
               !.gates = IF hasAgentPrompt(@, version) THEN @ ELSE @ \union {version}]

(* The file is written in place. *)
WriteSettings ==
  /\ pc = "settings" /\ Finish
  /\ settings' = mergeSettings /\ read' = NoSettings
  /\ UNCHANGED <<files, todo, edits, promise>>

(* Killed, or ended by an error: a symlink in the way, a full disk.  A     *)
(* manifest that has been cut short is taken for none.                     *)
Killed ==
  /\ pc \notin {"idle", "existing"} /\ Finish
  /\ todo' = <<>> /\ read' = NoSettings
  /\ \/ UNCHANGED <<manifest, settings>>
     \/ /\ pc = "settings" /\ settings' = [NoSettings EXCEPT !.valid = FALSE]
        /\ UNCHANGED manifest
     \/ /\ who = "terminal" /\ (AllCopied \/ pc = "manifests")
        /\ manifest' = [p \in Tracked |->
             IF p[1] = (IF pc = "manifests" THEN "workflows" ELSE "commands")
             THEN None ELSE manifest[p]]
        /\ UNCHANGED settings
  /\ UNCHANGED <<disk, patches, edits, promise>>

-----------------------------------------------------------------------------
(* The user, also while the installer asks.  An edit of a file that a      *)
(* manifest names is promised to be kept; what it replaces is the user's   *)
(* to lose.                                                                *)
Edit(p) ==
  /\ pc \in {"idle", "existing"}
  /\ edits < MaxEdits /\ edits' = edits + 1
  /\ disk' = [disk EXCEPT ![p] = -edits']
  /\ owed' = (owed \ {disk[p]}) \union
       (IF /\ p \in Tracked /\ disk[p] # None /\ manifest[p] # None
           /\ pc = "idle" \/ p \in modified
        THEN {-edits'} ELSE {})
  /\ UNCHANGED <<manifest, patches, settings, pc, install, todo, read, unrecorded,
                 mistaken>>

(* The user repairs a settings.json that was cut short. *)
RepairSettings ==
  /\ ~settings.valid
  /\ settings' = [settings EXCEPT !.valid = TRUE]
  /\ UNCHANGED <<files, pc, install, todo, read, edits, promise>>

-----------------------------------------------------------------------------
Next ==
  \/ \E v \in Version, r \in SUBSET Roles : Start(v, r)
  \/ \E v \in Version :
       runBriefInstall(v) \/ runPlanInstall(v) \/ runDevInstall(v)
  \/ Overwrite \/ Decline \/ CopyFile \/ ToInline \/ InlineFile \/ PackageDone
  \/ WriteManifests \/ WriteWorkflowsManifest \/ SetupProjectRuntime
  \/ ReadSettings \/ WriteSettings \/ Killed
  \/ \E p \in UNION {ToSet(Ships[v]) : v \in Version} : Edit(p)
  \/ RepairSettings

Spec == Init /\ [][Next]_vars

-----------------------------------------------------------------------------
(* An edit the installer owes the user is on disk or among the patches,    *)
(* however often an update fails half-way or is declined (the manifests).  *)
(* It is owed from an edit of a file that a manifest names until the user  *)
(* replaces it, until another edit takes its backup's place, be it that of *)
(* the other file of that name, or until the installer of another package      *)
(* copies its file over it before it is backed up.  It is lost in one way  *)
(* only: a later update takes for an edit, and backs up in its place, what *)
(* a half-finished one or another package has left there.                  *)
Kept(e) == (\E p \in Path : disk[p] = e) \/ (\E n \in Name : patches[n] = e)

EditsSurvive == \A e \in owed : Kept(e) \/ e \in mistaken

(* "If you've customised any command or workflow files, they're            *)
(* automatically backed up to `.claude/clancy/local-patches/` before the   *)
(* update - check there to reapply your changes afterwards"                *)
(* (TROUBLESHOOTING.md): what the installer owes can be found again.       *)
EditsCanBeReapplied == \A e \in owed : Kept(e)

=============================================================================
