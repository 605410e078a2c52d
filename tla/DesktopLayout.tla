---------------------------- MODULE DesktopLayout ----------------------------
(***************************************************************************)
(* DesktopController of LumiaKey Desktop: the manifest in memory, its copy *)
(* in the config store, and the three sources of its changes: the user's   *)
(* edits, the monitor that looks for running applications every three      *)
(* seconds, and the button that does the same.                             *)
(*                                                                         *)
(* A change computes the next manifest from the one in memory, which must  *)
(* be valid, waits until the store has saved it, and only then replaces    *)
(* the one in memory.  The store serves its calls in the order they were   *)
(* made.  A start upgrades the stored manifest and may undo edits, and so  *)
(* may a discovery, which rewrites the executables it knows better.        *)
(*                                                                         *)
(* An edit's value is its number, 0 is what the starter manifest has.      *)
(***************************************************************************)
EXTENDS Naturals, Sequences

CONSTANTS
    Apps,           \* managed applications
    Codex,          \* the one whose name the upgrade resets
    Processes,      \* what the OS may have in front
    Matches(_, _, _),   \* application, its name and executable, process: one of
                    \* its names is part of the process's
    Resolvable,     \* those whose executable a discovery may replace: Codex on macOS,
                    \* those of the platform on Windows, none elsewhere
    Found,          \* an executable that a discovery found
    Lacking,        \* edits after which the layout lacks a button the upgrade wants
    Nothing,
    MaxEvents       \* bound on edits, presses of the button, changes of what is in
                    \* front, failures and restarts, together

(* The manifest as far as a change of it looks.  "layouts" stands for what *)
(* starts and discoveries leave alone (settings, the current profile,      *)
(* other layouts); "codexLayout" for the layouts of Codex and Chrome.  Of  *)
(* the applications "foreground" are those flagged to be in front; an      *)
(* icon goes with its application's name.  legacy: all its profiles are of *)
(* an older version.                                                       *)
Lists == [name : [Apps -> Nat], executable : [Apps -> Nat \cup {Found}],
          foreground : SUBSET Apps]

Manifests == [revision : Nat, legacy : BOOLEAN, layouts : Nat, codexLayout : Nat,
              applications : Lists, sequence : Nat, activated : Apps \cup {Nothing}]

Scans == [step : {"listed", "looked", "saving"}, applications : Lists]

Editors == [app : Apps, flagged : BOOLEAN]

Layouts == {"layouts", "codexLayout"}
Fields == Layouts \cup Apps
Sources == {"monitor", "button"}

ASSUME NothingAssumption ==
    Nothing \notin Apps \cup Manifests \cup Scans \cup Editors \cup Processes
ASSUME AppsAssumption ==
    Codex \in Apps /\ Resolvable \subseteq Apps /\ Apps \cap (Layouts \cup Sources) = {}
ASSUME LayoutBoundAssumption == MaxEvents \in Nat

VARIABLES
    phase,          \* "starting" or "ready"
    manifest,       \* _manifest; during a start the one before the restart
    disk,           \* Nothing or the stored manifest
    saving,         \* calls of store.save under way, in their order
    scan,           \* source -> Nothing or its discovery.refresh under way
    editor,         \* Nothing or the application in the editor as it was then
    front,          \* Nothing or the process the OS has in front
    acked,          \* history: field -> its last edit that was saved
    fresh,          \* history: fields with an edit saved since the last start
    mishaps,        \* history: what the properties except, see below
    edits,          \* number of edits so far
    events          \* how much of the bound is used

history == <<acked, fresh>>
layoutVars == <<phase, manifest, disk, saving, scan, editor, front, history, mishaps, edits, events>>

(* Mishaps.  "overlap": a change was computed while an earlier one was     *)
(* being saved; "start": a start ended with the starter manifest instead   *)
(* of the stored one; "scan": a discovery works on applications that an    *)
(* edit was about to replace, or replaced.                                 *)

Starter == [revision |-> 1, legacy |-> FALSE, layouts |-> 0, codexLayout |-> 0,
            applications |-> [name |-> [a \in Apps |-> 0],
                              executable |-> [a \in Apps |-> 0], foreground |-> {}],
            sequence |-> 0, activated |-> Nothing]

Older == [Starter EXCEPT !.legacy = TRUE]

(* The first start finds no manifest or one of an older version.           *)
LayoutInit ==
    /\ phase = "starting" /\ manifest = Starter
    /\ disk \in {Nothing, Older}
    /\ saving = <<>> /\ scan = [s \in Sources |-> Nothing] /\ editor = Nothing
    /\ front \in Processes \cup {Nothing}
    /\ acked = [f \in Fields |-> 0] /\ fresh = {} /\ mishaps = {}
    /\ edits = 0 /\ events = 0

\* One more of what the bound counts.
Event == events < MaxEvents /\ events' = events + 1

AtMostOne(apps) == \A a, b \in apps : a = b

\* validate, of what the program can get wrong: one application in front.
Valid(m) == AtMostOne(m.applications.foreground)

\* The first of a list's applications that are flagged.
First(apps) == IF apps = {} THEN Nothing ELSE CHOOSE a \in apps : TRUE

\* The applications whose texts, or fixed names, the process in front contains.
Matching(list) ==
    {a \in Apps : /\ front # Nothing
                  /\ Matches(a, <<list.name[a], list.executable[a]>>, front)}

\* discovery.refresh: what it may return for the listed applications.
Refreshed(list) ==
    {[list EXCEPT !.foreground = Matching(list),
                  !.executable = [a \in Apps |-> IF a \in found THEN Found ELSE @[a]]] :
        found \in SUBSET Resolvable}

\* _withApplications: what a discovery found, on top of manifest m.
WithApplications(m, list) ==
    LET next == First(list.foreground)
        activation == next # Nothing /\ next # First(m.applications.foreground)
    IN  [m EXCEPT !.applications = list,
                  !.sequence = IF activation THEN @ + 1 ELSE @,
                  !.activated = IF activation THEN next ELSE @]

-----------------------------------------------------------------------------
(* initialize *)

\* _upgradeManifest: current profiles, Codex's name, the buttons that it wants.
Upgraded(m) ==
    IF m.legacy THEN Starter
    ELSE [m EXCEPT !.applications.name[Codex] = 0,
                   !.codexLayout = IF @ \in Lacking THEN 0 ELSE @]

\* Mutant of StartWith: the finding is put on top of the starter manifest.
StartFresh(loaded) ==
    \E list \in Refreshed(loaded.applications) :
       LET next == [WithApplications(Starter, list) EXCEPT
                       !.revision = loaded.revision + 1]
       IN  manifest' = next /\ disk' = next

\* Mutant of StartWith: what was upgraded or found keeps the stored revision.
StartSame(loaded) ==
    \E list \in Refreshed(Upgraded(loaded).applications) :
       LET next == WithApplications(Upgraded(loaded), list)
       IN  manifest' = next /\ disk' = next

StartWith(loaded) ==
    \E list \in Refreshed(Upgraded(loaded).applications) :
       LET found == WithApplications(Upgraded(loaded), list)
           next == IF found = loaded THEN found
                   ELSE [found EXCEPT !.revision = loaded.revision + 1]
       IN  manifest' = next /\ disk' = next

\* The discovery of the start is taken as one step: nothing else changes the
\* manifest before it ends.  What it saves is not validated.
Start ==
    /\ phase = "starting"
    /\ disk # Nothing => Valid(disk)
    /\ StartWith(IF disk = Nothing THEN Starter ELSE disk)
    /\ phase' = "ready" /\ fresh' = {}
    /\ UNCHANGED <<saving, scan, editor, front, acked, mishaps, edits, events>>

\* An error, or a stored manifest that is not valid: the starter is used.
StartCaught ==
    /\ phase = "starting"
    /\ \/ Event
       \/ disk # Nothing /\ ~Valid(disk) /\ UNCHANGED events
    /\ phase' = "ready" /\ manifest' = Starter /\ fresh' = {}
    /\ mishaps' = mishaps \cup {"start"}
    /\ UNCHANGED <<disk, saving, scan, editor, front, acked, edits>>

Restart ==
    /\ phase = "ready" /\ Event
    /\ phase' = "starting"
    /\ saving' = <<>> /\ scan' = [s \in Sources |-> Nothing] /\ editor' = Nothing
    /\ UNCHANGED <<manifest, disk, front, history, mishaps, edits>>

-----------------------------------------------------------------------------
(* _commit *)

Overlap == IF saving = <<>> THEN {} ELSE {"overlap"}

\* Nothing happens to a change that is not valid; its caller gets the error.
Commit(next, by, meeting) ==
    IF Valid(next)
    THEN /\ saving' = Append(saving,
               [next |-> [next EXCEPT !.revision = manifest.revision + 1], by |-> by])
         /\ mishaps' = mishaps \cup Overlap \cup meeting
    ELSE UNCHANGED <<saving, mishaps>>

\* A discovery's flag is cleared when its commit ends, well or not.
Landed(by) ==
    IF by \in Sources THEN scan' = [scan EXCEPT ![by] = Nothing] ELSE UNCHANGED scan

\* The edit of a field that a manifest has.
Value(m, f) == IF f \in Layouts THEN m[f] ELSE m.applications.name[f]

Save ==
    /\ saving # <<>>
    /\ LET next == Head(saving).next
           by == Head(saving).by
       IN /\ disk' = next /\ manifest' = next
          /\ IF by \in Fields
             THEN /\ acked' = [acked EXCEPT ![by] = Value(next, by)]
                  /\ fresh' = fresh \cup {by}
             ELSE UNCHANGED history
          /\ Landed(by)
    /\ saving' = Tail(saving)
    /\ UNCHANGED <<phase, editor, front, mishaps, edits, events>>

SaveFails ==
    /\ saving # <<>>
    /\ Event
    /\ Landed(Head(saving).by)
    /\ saving' = Tail(saving)
    /\ UNCHANGED <<phase, manifest, disk, editor, front, history, mishaps, edits>>

-----------------------------------------------------------------------------
(* The user's edits *)

\* updateSettings, updateButton, importShortcutLayouts and switchProfile, the
\* last also from the tray while the editor is open.
Edit(field) ==
    /\ phase = "ready" /\ Event
    /\ field = "codexLayout" => editor = Nothing
    /\ edits' = edits + 1
    /\ Commit([manifest EXCEPT ![field] = edits'], field, {})
    /\ UNCHANGED <<phase, manifest, disk, scan, editor, front, history>>

OpenEditor(a) ==
    /\ phase = "ready" /\ editor = Nothing /\ Event
    /\ editor' = [app |-> a, flagged |-> a \in manifest.applications.foreground]
    /\ UNCHANGED <<phase, manifest, disk, saving, scan, front, history, mishaps, edits>>

CloseEditor ==
    /\ editor # Nothing
    /\ editor' = Nothing
    /\ UNCHANGED <<phase, manifest, disk, saving, scan, front, history, mishaps, edits, events>>

\* The list with the editor's application in it: its texts are edit n's, its
\* flag is what it was when the editor was opened.
Edited(list, n) ==
    [name |-> [list.name EXCEPT ![editor.app] = n],
     executable |-> [list.executable EXCEPT ![editor.app] = n],
     foreground |-> IF editor.flagged THEN list.foreground \cup {editor.app}
                                      ELSE list.foreground \ {editor.app}]

\* updateApplication
EditApplication ==
    /\ editor # Nothing
    /\ edits' = edits + 1
    /\ Commit([manifest EXCEPT !.applications = Edited(@, edits')],
              editor.app,
              IF \E s \in Sources : scan[s] # Nothing THEN {"scan"} ELSE {})
    /\ editor' = Nothing
    /\ UNCHANGED <<phase, manifest, disk, scan, front, history, events>>

-----------------------------------------------------------------------------
(* _refreshRuntimeApplications (monitor) and refreshApplications (button) *)

Switch ==
    /\ Event
    /\ front' \in (Processes \cup {Nothing}) \ {front}
    /\ UNCHANGED <<phase, manifest, disk, saving, scan, editor, history, mishaps, edits>>

\* A discovery works on the applications listed when it began ...
Discover(s) ==
    /\ phase = "ready" /\ scan[s] = Nothing
    /\ IF s = "button" THEN Event ELSE UNCHANGED events
    /\ scan' = [scan EXCEPT ![s] = [step |-> "listed",
                                    applications |-> manifest.applications]]
    /\ mishaps' = mishaps \cup
           IF \E i \in DOMAIN saving : saving[i].by \in Apps
           THEN {"scan"} ELSE {}
    /\ UNCHANGED <<phase, manifest, disk, saving, editor, front, history, edits>>

\* ... looks at the OS while commands run ...
Look(s) ==
    /\ scan[s] # Nothing /\ scan[s].step = "listed"
    /\ \E list \in Refreshed(scan[s].applications) :
          scan' = [scan EXCEPT ![s] = [step |-> "looked", applications |-> list]]
    /\ UNCHANGED <<phase, manifest, disk, saving, editor, front, history, mishaps, edits, events>>

LookFails(s) ==
    /\ scan[s] # Nothing /\ scan[s].step = "listed"
    /\ Event
    /\ scan' = [scan EXCEPT ![s] = Nothing]
    /\ UNCHANGED <<phase, manifest, disk, saving, editor, front, history, mishaps, edits>>

\* Mutant of SameApplications: what is in front is not compared.
SameRunning(s) ==
    [scan[s].applications EXCEPT !.foreground = {}] =
        [manifest.applications EXCEPT !.foreground = {}]

SameApplications(s) == scan[s].applications = manifest.applications

\* ... and changes the manifest, the monitor only if it found a difference.
Publish(s) ==
    /\ scan[s] # Nothing /\ scan[s].step = "looked"
    /\ LET next == WithApplications(manifest, scan[s].applications) IN
       IF s = "monitor" /\ SameApplications(s)
       THEN scan' = [scan EXCEPT ![s] = Nothing] /\ UNCHANGED <<saving, mishaps>>
       ELSE /\ Commit(next, s, {})
            /\ scan' = IF Valid(next) THEN [scan EXCEPT ![s].step = "saving"]
                       ELSE [scan EXCEPT ![s] = Nothing]
    /\ UNCHANGED <<phase, manifest, disk, editor, front, history, edits, events>>

-----------------------------------------------------------------------------
Scan(s) == Discover(s) \/ Look(s) \/ LookFails(s) \/ Publish(s)

LayoutNext ==
    \/ Start \/ StartCaught \/ Restart
    \/ Save \/ SaveFails \/ Switch
    \/ \E f \in Layouts : Edit(f)
    \/ \E a \in Apps : OpenEditor(a)
    \/ CloseEditor \/ EditApplication
    \/ \E s \in Sources : Scan(s)

LayoutSpec == LayoutInit /\ [][LayoutNext]_layoutVars

\* The monitor is a periodic timer; commands and the store answer.
LayoutFairness ==
    /\ WF_layoutVars(Start \/ StartCaught)
    /\ WF_layoutVars(Save) /\ WF_layoutVars(Discover("monitor"))
    /\ \A s \in Sources : WF_layoutVars(Look(s) \/ LookFails(s)) /\ WF_layoutVars(Publish(s))

FairLayoutSpec == LayoutSpec /\ LayoutFairness

-----------------------------------------------------------------------------
(***************************************************************************)
(* A phone compares revisions to see that the manifest changed, and        *)
(* activation sequences before it follows an application to the front      *)
(* (_consumeDesktopActivation): another manifest has a higher revision,    *)
(* also after a restart, and another activated application a higher        *)
(* sequence, as long as no two changes overlap.                            *)
(***************************************************************************)
RevisionIdentifies ==
    [][manifest' # manifest /\ mishaps' \cap {"overlap", "start"} = {} =>
          /\ manifest'.revision > manifest.revision
          /\ manifest'.activated # manifest.activated
                => manifest'.sequence > manifest.sequence]_layoutVars

(***************************************************************************)
(* An edit that the user saw saved stays, in memory and in the store,      *)
(* until the next edit of the same fields, with three exceptions: a start  *)
(* may take back a Codex or Chrome layout that lacks a button and the name *)
(* of Codex, and a discovery an executable.  This holds of layouts        *)
(* whatever the discoveries find, and of applications as long as none was  *)
(* edited while a discovery was working.                                   *)
(***************************************************************************)
LayoutsKept(m) ==
    /\ m.layouts = acked["layouts"]
    /\ \/ m.codexLayout = acked["codexLayout"]
       \/ m.codexLayout = 0 /\ acked["codexLayout"] \in Lacking /\ "codexLayout" \notin fresh

ApplicationsKept(m) ==
    \A a \in Apps :
       /\ \/ m.applications.name[a] = acked[a]
          \/ a = Codex /\ m.applications.name[a] = 0 /\ a \notin fresh
       /\ \/ m.applications.executable[a] = acked[a]
          \/ a \in Resolvable /\ m.applications.executable[a] = Found

EditsSurvive ==
    /\ mishaps \cap {"overlap", "start"} = {} =>
          /\ phase = "ready" => LayoutsKept(manifest)
          /\ disk # Nothing => LayoutsKept(disk)
    /\ mishaps = {} =>
          /\ phase = "ready" => ApplicationsKept(manifest)
          /\ disk # Nothing => ApplicationsKept(disk)

(***************************************************************************)
(* Whatever overlapped or failed before, the manifest in the end shows the *)
(* application that stays in front, if its process is matched by no other  *)
(* one: a manifest with two of them is not valid and is never committed.   *)
(***************************************************************************)
ForegroundIsShown ==
    <>[]AtMostOne(Matching(manifest.applications)) =>
        <>[](manifest.applications.foreground = Matching(manifest.applications))
=============================================================================
