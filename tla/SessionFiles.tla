------------------------------ MODULE SessionFiles ------------------------------
(***************************************************************************)
(* FileSessionStore: save replaces one event-log file per thread and then  *)
(* the manifest, load reads the manifest and then the logs it names.  Each *)
(* replacement is atomic; the process may die between two of them, and a   *)
(* process that loads may run beside the one that saves.                   *)
(***************************************************************************)
EXTENDS Naturals, FiniteSets

CONSTANTS Names,       \* thread names of the one session
          SaveBound,   \* saves that are started
          CrashBound   \* saves that end half way: a kill, a full disk

VARIABLES
    logFile,   \* the save each <name>.events.json is of; 0 when there is none
    manifest,  \* session.json: the save it is of and its thread_names
    saving,    \* the save under way: its number, its threads, those left to write
    saves, crashes,
    complete,  \* history: the last save that returned
    reading,   \* a load under way: the manifest it read, what it read since
    loaded     \* what the load returned last

vars == <<logFile, manifest, saving, saves, crashes, complete, reading, loaded>>
saveVars == <<logFile, manifest, saving, saves, crashes, complete>>
loadVars == <<reading, loaded>>

NoSave == [number |-> 0, names |-> {}, left |-> {}]
NoManifest == [number |-> 0, names |-> {}]
NotReading == [of |-> NoManifest, got |-> [n \in {} |-> 0]]

TypeOK ==
    /\ logFile \in [Names -> 0..saves] /\ manifest.number \in 0..saves
    /\ saving.left \subseteq saving.names /\ saving.names \subseteq Names
    /\ DOMAIN reading.got \subseteq reading.of.names

Init ==
    /\ logFile = [n \in Names |-> 0] /\ manifest = NoManifest
    /\ saving = NoSave /\ saves = 0 /\ crashes = 0 /\ complete = NoManifest
    /\ reading = NotReading /\ loaded = NotReading

----------------------------------------------------------------------------
Save(names) ==
    /\ saving = NoSave /\ saves < SaveBound
    /\ saves' = saves + 1
    /\ saving' = [number |-> saves + 1, names |-> names, left |-> names]
    /\ UNCHANGED <<logFile, manifest, crashes, complete, loadVars>>

WriteLog(n) ==
    /\ n \in saving.left
    /\ logFile' = [logFile EXCEPT ![n] = saving.number]
    /\ saving' = [saving EXCEPT !.left = @ \ {n}]
    /\ UNCHANGED <<manifest, saves, crashes, complete, loadVars>>

\* Mutant: the manifest is written while logs are still missing.
WriteManifestEarly ==
    /\ saving # NoSave
    /\ manifest' = [number |-> saving.number, names |-> saving.names]
    /\ IF saving.left = {} THEN saving' = NoSave /\ complete' = manifest' ELSE UNCHANGED <<saving, complete>>
    /\ UNCHANGED <<logFile, saves, crashes, loadVars>>

WriteManifest ==
    /\ saving # NoSave /\ saving.left = {}
    /\ manifest' = [number |-> saving.number, names |-> saving.names]
    /\ saving' = NoSave /\ complete' = manifest'
    /\ UNCHANGED <<logFile, saves, crashes, loadVars>>

\* _atomic_write fails or the process is killed: the target is as it was.
Crash ==
    /\ saving # NoSave /\ crashes < CrashBound
    /\ crashes' = crashes + 1 /\ saving' = NoSave
    /\ UNCHANGED <<logFile, manifest, saves, complete, loadVars>>

----------------------------------------------------------------------------
\* load raises FileNotFoundError when there is no manifest, as exists says.
Load ==
    /\ reading = NotReading /\ manifest # NoManifest
    /\ reading' = [NotReading EXCEPT !.of = manifest]
    /\ UNCHANGED <<saveVars, loaded>>

ReadLog(n) ==
    /\ n \in reading.of.names \ DOMAIN reading.got
    /\ reading' = [reading EXCEPT !.got = [m \in DOMAIN @ \cup {n} |-> IF m = n THEN logFile[n] ELSE @[m]]]
    /\ UNCHANGED <<saveVars, loaded>>

Loaded ==
    /\ reading # NotReading /\ DOMAIN reading.got = reading.of.names
    /\ loaded' = reading /\ reading' = NotReading
    /\ UNCHANGED saveVars

Next ==
    \/ \E names \in SUBSET Names \ {{}} : Save(names)
    \/ \E n \in Names : WriteLog(n) \/ ReadLog(n)
    \/ WriteManifest \/ Crash \/ Load \/ Loaded

Spec == Init /\ [][Next]_vars

----------------------------------------------------------------------------
\* exists answers true only of a session whose every log can be read, crashes
\* and a concurrent save included.
ExistsMeansLoadable == \A n \in manifest.names : logFile[n] # 0

\* No thread is resumed from a log older than the manifest that names it, and
\* a load that no save or crash disturbed returns the save that completed last.
LoadIsNotStale ==
    /\ \A n \in DOMAIN loaded.got : loaded.got[n] >= loaded.of.number
    /\ crashes = 0 /\ saving = NoSave => \A n \in complete.names : logFile[n] = complete.number

\* "Writes are atomic: partial failures leave prior state intact": what a load
\* returns is one save, when no save runs beside it.
LoadsOneSave ==
    saving = NoSave /\ reading = NotReading =>
        \A n \in manifest.names : logFile[n] = manifest.number
================================================================================
