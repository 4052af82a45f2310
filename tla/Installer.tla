----------------------------- MODULE Installer -----------------------------
(***************************************************************************)
(* The package scripts postinstall and preuninstall, which add the plugin  *)
(* to OpenCode's configuration and take it out again.  The configuration   *)
(* is the user's: a script may fail at any call and be killed at any       *)
(* moment.  One script runs at a time and the user edits between runs.     *)
(***************************************************************************)
EXTENDS Naturals, Sequences, FiniteSets, SequencesExt

CONSTANTS
  Machines,      \* environments a script may find: [xdg, windows, wsl : BOOLEAN]
  KeptBackups,   \* backups that cleanupOldBackups leaves (5)
  MaxRuns,       \* runs of a script
  MaxEdits       \* edits by the user

VARIABLES
  files,     \* what the configuration files hold
  backups,   \* the backups of each file, the oldest first
  latest,    \* the user's settings, as last edited by the user
  cut,       \* 0, or 1 + the backups made since a rollback left the file torn
  script,    \* the script that runs
  runs

installerVars == <<files, backups, latest, cut, script, runs>>

(* opencode.jsonc is looked for before opencode.json.                      *)
Names == <<"jsonc", "json">>
Directories == {"xdg", "appdata", "home", "wsl"}
Files == Directories \X {"jsonc", "json"}

(* The Windows side of WSL; both scripts have the same code.  Which user's *)
(* directory it is stays the same while the scripts run.                   *)
DetectWSLWindowsConfigDir(machine) == IF machine.wsl THEN <<"wsl">> ELSE <<>>

ConfigPaths(machine) ==
  (IF machine.xdg THEN <<"xdg">> ELSE <<>>)
  \o (IF machine.windows THEN <<"appdata", "home">>
      ELSE <<"home">> \o DetectWSLWindowsConfigDir(machine))

(* corrupt does not parse; in notArray "plugin" is no array, in notStrings *)
(* an element of it is no string; user is the version of the settings that *)
(* are the user's, 0 for none.                                             *)
Content(kind, ours, user) == [kind |-> kind, ours |-> ours, user |-> user]
Absent == Content("absent", FALSE, 0)
Torn == {Content("corrupt", FALSE, 0), Content("empty", FALSE, 0)}
Exists(f) == files[f] # Absent

ResolveConfigFile(dir) ==
  IF ~Exists(<<dir, Names[1]>>) /\ Exists(<<dir, Names[2]>>)
  THEN <<dir, Names[2]>> ELSE <<dir, Names[1]>>

(* readExistingConfig: the first file of the directory that parses.        *)
Readable(f) == files[f].kind \notin {"absent", "corrupt"}
ReadExistingConfig(dir) ==
  LET i == SelectInSeq(Names, LAMBDA name : Readable(<<dir, name>>))
  IN  IF i = 0 THEN Absent ELSE files[<<dir, Names[i]>>]

ValidateConfig(content) == content.kind \in {"empty", "ok"}

NoScript == [kind |-> "none", at |-> "end", todo |-> <<>>, file |-> <<"home", "jsonc">>,
             backup |-> 0, restores |-> 0]

Init ==
  /\ files = [f \in Files |-> Absent]
  /\ backups = [f \in Files |-> <<>>]
  /\ latest = [f \in Files |-> 0]
  /\ cut = [f \in Files |-> 0]
  /\ script = NoScript
  /\ runs = 0

(* What a user may leave in a file, with our entry or without.              *)
Edited == {<<"ok", TRUE>>, <<"ok", FALSE>>, <<"corrupt", FALSE>>, <<"notArray", FALSE>>,
           <<"notStrings", TRUE>>, <<"notStrings", FALSE>>}

Edits(f, edit, version) ==
  /\ script.kind = "none" /\ \A g \in Files : latest[g] < version
  /\ files' = [files EXCEPT ![f] = Content(edit[1], edit[2], version)]
  /\ latest' = [latest EXCEPT ![f] = version]
  /\ cut' = [cut EXCEPT ![f] = 0]
  /\ UNCHANGED <<backups, script, runs>>

(* A killed script, the 30 s timeout included, leaves everything as it is. *)
Killed ==
  /\ script.kind # "none"
  /\ script' = NoScript
  /\ UNCHANGED <<files, backups, latest, cut, runs>>

Begin(kind, at, todo, f) ==
  script' = [NoScript EXCEPT !.kind = kind, !.at = at, !.todo = todo, !.file = f]

(* postinstall: the last directory with a configuration, or else the first,*)
(* gets the entry unless some directory has it.  A "plugin" that is no     *)
(* array makes the survey throw; so may any read.                          *)
StartInstall(machine) ==
  LET paths == ConfigPaths(machine)
      found == {i \in DOMAIN paths : ReadExistingConfig(paths[i]) # Absent}
      target == IF found = {} THEN paths[1] ELSE paths[Max(found)]
      registered == \E i \in found : ReadExistingConfig(paths[i]).ours
      throws == \E i \in found : ReadExistingConfig(paths[i]).kind = "notArray"
  IN  /\ script.kind = "none" /\ runs < MaxRuns
      /\ runs' = runs + 1
      /\ IF registered \/ throws THEN UNCHANGED script
         ELSE Begin("install", "read", <<>>, ResolveConfigFile(target))
      /\ UNCHANGED <<files, backups, latest, cut>>

(* preuninstall goes through the directories, one after the other.         *)
StartUninstall(machine) ==
  LET paths == ConfigPaths(machine)
  IN  /\ script.kind = "none" /\ runs < MaxRuns
      /\ runs' = runs + 1
      /\ Begin("uninstall", "read", Tail(paths), ResolveConfigFile(paths[1]))
      /\ UNCHANGED <<files, backups, latest, cut>>

(* The script is done with this file: the next directory, or the end.      *)
NextDirectory ==
  script' = IF script.todo = <<>> THEN NoScript
            ELSE [NoScript EXCEPT !.kind = script.kind, !.at = "read",
                    !.todo = Tail(script.todo),
                    !.file = ResolveConfigFile(Head(script.todo))]

At(kind, at) == script.kind = kind /\ script.at = at
Goto(at) == script' = [script EXCEPT !.at = at]

(* registerInConfig up to its backup: a corrupt file is backed up and left *)
(* alone, one of another shape is left alone, a new one has no backup.     *)
ReadToRegister ==
  LET content == files[script.file]
  IN  /\ At("install", "read")
      /\ \/ NextDirectory                                 \* a call that throws
         \/ content.kind = "corrupt" /\ Goto("backupOnly")
         \/ content.kind = "absent" /\ Goto("write")
         \/ ValidateConfig(content) /\ ~content.ours /\ Goto("backup")
      /\ UNCHANGED <<files, backups, latest, cut, runs>>

(* removeFromConfig up to its backup.                                      *)
ReadToRemove ==
  LET content == files[script.file]
  IN  /\ At("uninstall", "read")
      /\ IF ValidateConfig(content) /\ content.ours
         THEN NextDirectory \/ Goto("backup")             \* or the read throws
         ELSE NextDirectory
      /\ UNCHANGED <<files, backups, latest, cut, runs>>

(* createBackup: whole, torn by a kill or a failure in the middle, or not  *)
(* at all.                                                                 *)
CreateBackup ==
  LET f == script.file
      after == IF script.at = "backup" THEN "write" ELSE "skip"
  IN  /\ script.at \in {"backup", "backupOnly"}
      /\ \/ /\ backups' = [backups EXCEPT ![f] = Append(@, files[f])]
            /\ cut' = [cut EXCEPT ![f] = IF @ = 0 THEN 0 ELSE @ + 1]
            /\ script' = [script EXCEPT !.at = after, !.backup = Len(backups[f]) + 1]
         \/ /\ \E torn \in Torn : backups' = [backups EXCEPT ![f] = Append(@, torn)]
            /\ cut' = [cut EXCEPT ![f] = IF @ = 0 THEN 0 ELSE @ + 1]
            /\ script' = NoScript \/ Goto(after)
         \/ Goto(after) /\ UNCHANGED <<backups, cut>>
      /\ UNCHANGED <<files, latest, runs>>

SkipCorrupt ==
  /\ script.at = "skip"
  /\ NextDirectory
  /\ UNCHANGED <<files, backups, latest, cut, runs>>

(* What a script writes: the settings it read, with our entry or without.  *)
Written(f) ==
  Content("ok", script.kind = "install", files[f].user)

(* Mutant of FailedWrite: the file is written in place.                    *)
WrittenInPlace(f) == Torn

(* atomicWriteJSON that fails before its rename: only the temporary file   *)
(* was touched.                                                            *)
FailedWrite(f) == {files[f]}

AtomicWrite ==
  LET f == script.file
  IN  /\ script.at = "write"
      /\ \/ files' = [files EXCEPT ![f] = Written(f)] /\ Goto("verify")
         \/ /\ \E content \in FailedWrite(f) : files' = [files EXCEPT ![f] = content]
            /\ script' = [script EXCEPT !.at = "restore", !.restores = 1]
      /\ UNCHANGED <<backups, latest, cut, runs>>

(* The verification reads the file again; a failure restores the backup    *)
(* and throws to the handler that restores it once more.                   *)
Verify ==
  /\ script.at = "verify"
  /\ \/ Goto("prune")
     \/ script' = [script EXCEPT !.at = "restore", !.restores = 2]
  /\ UNCHANGED <<files, backups, latest, cut, runs>>

(* copyFileSync of the backup, if there is one: it empties the file first. *)
Restore ==
  LET f == script.file
  IN  /\ script.at = "restore"
      /\ \/ (script.backup = 0 \/ script.restores = 0) /\ NextDirectory /\ UNCHANGED <<files, cut>>
         \/ /\ script.backup # 0 /\ script.restores > 0
            /\ \E torn \in Torn : files' = [files EXCEPT ![f] = torn]
            /\ cut' = [cut EXCEPT ![f] = IF @ = 0 THEN 1 ELSE @]
            /\ script' = [script EXCEPT !.at = "fill", !.restores = @ - 1]
         \/ /\ script.backup # 0 /\ script.restores > 0   \* it fails at once
            /\ script' = [script EXCEPT !.restores = @ - 1]
            /\ UNCHANGED <<files, cut>>
      /\ UNCHANGED <<backups, latest, runs>>

FillRestored ==
  LET f == script.file
  IN  /\ script.at = "fill"
      /\ Goto("restore")
      /\ \/ /\ files' = [files EXCEPT ![f] = backups[f][script.backup]]
            /\ cut' = [cut EXCEPT ![f] = IF files'[f].user = latest[f] THEN 0 ELSE @]
         \/ UNCHANGED <<files, cut>>                      \* a full disk
      /\ UNCHANGED <<backups, latest, runs>>

(* cleanupOldBackups keeps the last ones; an unlink that fails is ignored. *)
Surplus(f) == 1..(Len(backups[f]) - KeptBackups)

(* What is left of a sequence when some of its positions are deleted.      *)
Lasting(seq, gone) ==
  LET left == DOMAIN seq \ gone
  IN  [i \in 1..(Len(seq) - Cardinality(gone)) |->
         seq[CHOOSE j \in left : Cardinality({k \in left : k < j}) = i - 1]]

CleanupOldBackups ==
  LET f == script.file
  IN  /\ script.at = "prune"
      /\ \E gone \in SUBSET Surplus(f) :
           backups' = [backups EXCEPT ![f] = Lasting(@, gone)]
      /\ NextDirectory
      /\ UNCHANGED <<files, latest, cut, runs>>

Next ==
  \/ \E machine \in Machines : StartInstall(machine) \/ StartUninstall(machine)
  \/ \E f \in Files, edit \in Edited, version \in 1..MaxEdits : Edits(f, edit, version)
  \/ ReadToRegister \/ ReadToRemove \/ CreateBackup \/ SkipCorrupt
  \/ AtomicWrite \/ Verify \/ Restore \/ FillRestored \/ CleanupOldBackups
  \/ Killed

Spec == Init /\ [][Next]_installerVars

----------------------------------------------------------------------------
Whole == {"ok", "corrupt", "notArray", "notStrings"}
InstallerTypeOK ==
  /\ \A f \in Files :
       /\ files[f].kind \in {"absent", "empty"} \cup Whole
       /\ files[f].user \in 0..MaxEdits /\ latest[f] \in 0..MaxEdits
       /\ cut[f] \in 0..(MaxRuns + 1) /\ Len(backups[f]) <= MaxRuns
  /\ script.kind \in {"none", "install", "uninstall"}
  /\ script.file \in Files /\ runs \in 0..MaxRuns

(* Whatever fails and wherever a script is killed, the settings the user   *)
(* wrote last are in the configuration file; only a rollback that was cut  *)
(* short may leave them in a backup alone, and then in one of the          *)
(* KeptBackups newest, whose turn to be deleted comes that much later      *)
(* (postinstall.ts 301-308 promises to preserve all but the entry).        *)
SettingsSurvive ==
  \A f \in Files :
    \/ latest[f] = 0 \/ files[f].user = latest[f]
    \/ cut[f] > KeptBackups
    \/ cut[f] > 0 /\ \E i \in DOMAIN backups[f] : backups[f][i].user = latest[f]
============================================================================
