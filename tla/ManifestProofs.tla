---------------------------- MODULE ManifestProofs ----------------------------
(***************************************************************************)
(* Proofs about the Desktop's manifest: how DesktopLayout revises it and   *)
(* how CompanionLink brings it to the phone, for any applications,         *)
(* Desktops and bounds.                                                    *)
(*                                                                         *)
(* DesktopLayout.  Until two changes overlap, the change being saved was   *)
(* computed from the manifest that it replaces, so that each manifest is   *)
(* the next of the one before it.                                          *)
(*                                                                         *)
(* CompanionLink.  The displayed manifest is settled by a case distinction *)
(* on what is under way: while the selected Desktop's manifest is missing  *)
(* or old, either its fetch is under way and its answer will be accepted,  *)
(* or a fetch whose answer will be dropped is, and a refresh is noted that *)
(* the end of that fetch starts.                                           *)
(***************************************************************************)
EXTENDS CompanionLink, DesktopLayout, SequenceTheorems, TLAPS

(* What the saves under way carry.                                         *)
Changes == [next : Manifests, by : Fields \cup Sources]

LayoutType ==
    /\ phase \in {"starting", "ready"}
    /\ manifest \in Manifests
    /\ disk \in Manifests \cup {Nothing}
    /\ saving \in Seq(Changes)
    /\ scan \in [Sources -> Scans \cup {Nothing}]
    /\ editor \in Editors \cup {Nothing}
    /\ front \in Processes \cup {Nothing}
    /\ acked \in [Fields -> Nat] /\ fresh \subseteq Fields
    /\ mishaps \subseteq {"overlap", "start", "scan"}
    /\ edits \in Nat /\ events \in Nat

(* A change under way was computed from the manifest it will replace.      *)
BuiltOn(m, change) ==
    /\ change.next.revision = m.revision + 1
    /\ ~change.next.legacy
    /\ change.by # "layouts" => change.next.layouts = m.layouts
    /\ change.by # "codexLayout" => change.next.codexLayout = m.codexLayout
    /\ change.next.activated # m.activated => change.next.sequence > m.sequence

(* Memory and store agree, and at most one change is under way.  A start   *)
(* makes the next manifest from the one that was in memory before it.      *)
InStep ==
    /\ Len(saving) <= 1
    /\ phase = "ready" => disk = manifest
    /\ phase = "starting" =>
          /\ saving = <<>> /\ editor = Nothing /\ \A s \in Sources : scan[s] = Nothing
          /\ manifest = IF disk \in {Nothing, Older} THEN Starter ELSE disk
    /\ ~manifest.legacy
    /\ LayoutsKept(manifest)
    /\ saving # <<>> => BuiltOn(manifest, Head(saving))

(* An executable of a list is the last that was saved, or was found.       *)
Placed(list, a) ==
    \/ list.executable[a] = acked[a]
    \/ a \in Resolvable /\ list.executable[a] = Found

(* The names of a list are those in memory.                                *)
Listed(list) ==
    /\ list.name = manifest.applications.name
    /\ \A a \in Apps : Placed(list, a)

(* Every discovery works on the applications that are listed now, and no   *)
(* edit of them is being saved while one is under way.                     *)
ScansCurrent ==
    /\ ApplicationsKept(manifest)
    /\ \A s \in Sources : scan[s] # Nothing => Listed(scan[s].applications)
    /\ saving # <<>> =>
          LET list == Head(saving).next.applications
              by == Head(saving).by
          IN  IF by \in Apps
              THEN /\ \A s \in Sources : scan[s] = Nothing
                   /\ list.executable[by] = list.name[by]
                   /\ \A a \in Apps \ {by} :
                         list.name[a] = manifest.applications.name[a] /\ Placed(list, a)
              ELSE Listed(list)

LayoutInv ==
    /\ LayoutType
    /\ mishaps \cap {"overlap", "start"} = {} => InStep
    /\ mishaps = {} => ScansCurrent

-----------------------------------------------------------------------------
(* Nothing is not a manifest, an application, a discovery or an editor.    *)
LEMMA NothingDiffers ==
    /\ Nothing \notin Apps /\ Nothing \notin Manifests /\ Nothing \notin Scans
    /\ Nothing \notin Editors
  BY NothingAssumption

(* The manifest of a first start is a manifest.                            *)
LEMMA StarterType ==
    /\ Starter \in Manifests /\ Older \in Manifests
    /\ ~Starter.legacy /\ Starter.codexLayout = 0
    /\ \A a \in Apps : /\ Starter.applications.name[a] = 0
                       /\ Starter.applications.executable[a] = 0
    /\ Older.legacy /\ Older.revision = Starter.revision
<1>1. Starter \in Manifests /\ ~Starter.legacy
  BY DEF Starter, Manifests, Lists
<1> QED
  BY <1>1 DEF Older, Starter, Manifests

(* What a discovery may return for a list.                                 *)
LEMMA RefreshedFields ==
    ASSUME NEW list \in Lists, NEW found \in Refreshed(list)
    PROVE  /\ found \in Lists
           /\ found.name = list.name
           /\ \A a \in Apps :
                 \/ found.executable[a] = list.executable[a]
                 \/ a \in Resolvable /\ found.executable[a] = Found
<1>1. Matching(list) \subseteq Apps
  BY DEF Matching
<1>2. PICK S \in SUBSET Resolvable :
        found = [list EXCEPT !.foreground = Matching(list),
                             !.executable = [a \in Apps |->
                                 IF a \in S THEN Found ELSE @[a]]]
  BY Zenon DEF Refreshed
<1> DEFINE executable == [a \in Apps |-> IF a \in S THEN Found ELSE list.executable[a]]
<1>3. /\ executable \in [Apps -> Nat \cup {Found}]
      /\ \A a \in Apps : \/ executable[a] = list.executable[a]
                         \/ a \in Resolvable /\ executable[a] = Found
  BY DEF Lists
<1> HIDE DEF executable
<1>4. found = [list EXCEPT !.foreground = Matching(list), !.executable = executable]
  BY <1>2 DEF executable
<1> QED
  BY <1>1, <1>3, <1>4 DEF Lists

(* The first of some applications is one of them, if there is one.         *)
LEMMA FirstType ==
    ASSUME NEW apps \in SUBSET Apps
    PROVE  First(apps) \in Apps \cup {Nothing}
  BY DEF First

(* What a discovery changes of a manifest.                                 *)
LEMMA WithApplicationsFields ==
    ASSUME NEW m \in Manifests, NEW list \in Lists
    PROVE  LET found == WithApplications(m, list)
           IN  /\ found \in Manifests
               /\ found.revision = m.revision /\ found.legacy = m.legacy
               /\ found.layouts = m.layouts /\ found.codexLayout = m.codexLayout
               /\ found.applications = list
               /\ found.activated # m.activated => found.sequence > m.sequence
<1> DEFINE next == First(list.foreground)
           activation == next # Nothing /\ next # First(m.applications.foreground)
           sequence == IF activation THEN m.sequence + 1 ELSE m.sequence
           activated == IF activation THEN next ELSE m.activated
           listed == [m EXCEPT !.applications = list]
           counted == [listed EXCEPT !.sequence = sequence]
           found == [counted EXCEPT !.activated = activated]
<1>1. /\ sequence \in Nat /\ activated \in Apps \cup {Nothing}
      /\ activated # m.activated => sequence > m.sequence
  <2>1. next \in Apps \cup {Nothing}
    BY FirstType DEF Lists
  <2> HIDE DEF next
  <2> QED
    BY <2>1 DEF Manifests
<1>2. /\ listed \in Manifests /\ listed.applications = list
      /\ listed.revision = m.revision /\ listed.legacy = m.legacy
      /\ listed.layouts = m.layouts /\ listed.codexLayout = m.codexLayout
      /\ listed.sequence = m.sequence /\ listed.activated = m.activated
  BY DEF Manifests
<1>3. /\ counted \in Manifests /\ counted.applications = list
      /\ counted.revision = m.revision /\ counted.legacy = m.legacy
      /\ counted.layouts = m.layouts /\ counted.codexLayout = m.codexLayout
      /\ counted.sequence = sequence /\ counted.activated = m.activated
  <2> HIDE DEF listed, sequence
  <2> QED
    BY <1>1, <1>2 DEF Manifests
<1>4. /\ found \in Manifests /\ found.applications = list
      /\ found.revision = m.revision /\ found.legacy = m.legacy
      /\ found.layouts = m.layouts /\ found.codexLayout = m.codexLayout
      /\ found.sequence = sequence /\ found.activated = activated
  <2> HIDE DEF counted, activated
  <2> QED
    BY <1>1, <1>3 DEF Manifests
<1>5. WithApplications(m, list) = found
  BY <1>2, <1>3 DEF WithApplications
<1> HIDE DEF found
<1> QED
  BY <1>1, <1>4, <1>5

(* What the upgrade changes of a manifest.                                 *)
LEMMA UpgradedFields ==
    ASSUME NEW m \in Manifests
    PROVE  LET upgraded == Upgraded(m)
           IN  /\ upgraded \in Manifests /\ ~upgraded.legacy
               /\ m.legacy => upgraded = Starter
               /\ ~m.legacy =>
                     /\ upgraded.revision = m.revision
                     /\ upgraded.layouts = m.layouts
                     /\ \/ upgraded.codexLayout = m.codexLayout
                        \/ upgraded.codexLayout = 0 /\ m.codexLayout \in Lacking
                     /\ \A a \in Apps :
                           \/ upgraded.applications.name[a] = m.applications.name[a]
                           \/ a = Codex /\ upgraded.applications.name[a] = 0
                     /\ upgraded.applications.executable = m.applications.executable
                     /\ upgraded.sequence = m.sequence
                     /\ upgraded.activated = m.activated
<1>1. CASE m.legacy
  BY <1>1, StarterType DEF Upgraded
<1>2. CASE ~m.legacy
  <2> DEFINE name == [m.applications.name EXCEPT ![Codex] = 0]
             list == [m.applications EXCEPT !.name = name]
             layout == IF m.codexLayout \in Lacking THEN 0 ELSE m.codexLayout
             named == [m EXCEPT !.applications = list]
             upgraded == [named EXCEPT !.codexLayout = layout]
  <2>1. /\ name \in [Apps -> Nat]
        /\ \A a \in Apps : name[a] = m.applications.name[a] \/ (a = Codex /\ name[a] = 0)
    BY DEF Manifests, Lists
  <2>2. [m EXCEPT !.applications.name[Codex] = 0] = [m EXCEPT !.applications = list]
    OBVIOUS
  <2> HIDE DEF name
  <2>3. /\ list \in Lists /\ list.name = name
        /\ list.executable = m.applications.executable
    BY <2>1 DEF Manifests, Lists
  <2>4. /\ layout \in Nat
        /\ layout = m.codexLayout \/ (layout = 0 /\ m.codexLayout \in Lacking)
    BY DEF Manifests
  <2> HIDE DEF list, layout
  <2>5. /\ named \in Manifests /\ named.applications = list
        /\ named.codexLayout = m.codexLayout
        /\ named.legacy = m.legacy /\ named.revision = m.revision
        /\ named.layouts = m.layouts
        /\ named.sequence = m.sequence /\ named.activated = m.activated
    BY <2>3 DEF Manifests
  <2>6. Upgraded(m) = upgraded
    BY <1>2, <2>5, <2>2 DEF Upgraded, list, layout
  <2> HIDE DEF named
  <2>7. /\ upgraded \in Manifests /\ upgraded.applications = list
        /\ upgraded.codexLayout = layout
        /\ upgraded.legacy = m.legacy /\ upgraded.revision = m.revision
        /\ upgraded.layouts = m.layouts
        /\ upgraded.sequence = m.sequence /\ upgraded.activated = m.activated
    BY <2>4, <2>5 DEF Manifests
  <2> HIDE DEF upgraded
  <2> QED
    BY <1>2, <2>1, <2>3, <2>4, <2>6, <2>7
<1> QED
  BY <1>1, <1>2

(* The invariant holds at first.                                           *)
LEMMA LayoutInitially == LayoutInit => LayoutInv
<1> SUFFICES ASSUME LayoutInit PROVE LayoutInv
  OBVIOUS
<1>1. LayoutType
  BY StarterType DEF LayoutInit, LayoutType
<1>2. Starter.layouts = 0 /\ Starter.codexLayout = 0
  BY DEF Starter
<1>3. InStep
  BY <1>2, StarterType DEF LayoutInit, InStep, LayoutsKept, Fields, Layouts
<1>4. ScansCurrent
  BY StarterType DEF LayoutInit, ScansCurrent, ApplicationsKept, Fields
<1> QED
  BY <1>1, <1>3, <1>4 DEF LayoutInv

-----------------------------------------------------------------------------
(* Starts and restarts.                                                    *)

(* What a start makes of the stored manifest.                              *)
LEMMA StartResult ==
    ASSUME LayoutInv, Start
    PROVE  /\ manifest' \in Manifests /\ disk' = manifest' /\ ~manifest'.legacy
           /\ InStep =>
                 /\ manifest'.layouts = manifest.layouts
                 /\ \/ manifest'.codexLayout = manifest.codexLayout
                    \/ manifest'.codexLayout = 0 /\ manifest.codexLayout \in Lacking
                 /\ \A a \in Apps :
                       /\ \/ manifest'.applications.name[a] = manifest.applications.name[a]
                          \/ a = Codex /\ manifest'.applications.name[a] = 0
                       /\ \/ manifest'.applications.executable[a] =
                                manifest.applications.executable[a]
                          \/ /\ a \in Resolvable
                             /\ manifest'.applications.executable[a] = Found
                 /\ manifest' # manifest => manifest'.revision > manifest.revision
                 /\ manifest'.activated # manifest.activated
                       => manifest'.sequence > manifest.sequence
<1> DEFINE loaded == IF disk = Nothing THEN Starter ELSE disk
           upgraded == Upgraded(loaded)
<1>1. loaded \in Manifests
  BY StarterType DEF LayoutInv, LayoutType
<1>2. PICK list \in Refreshed(upgraded.applications) :
        LET found == WithApplications(upgraded, list)
            next == IF found = loaded THEN found
                    ELSE [found EXCEPT !.revision = loaded.revision + 1]
        IN  manifest' = next /\ disk' = next
  BY DEF Start, StartWith
<1> DEFINE found == WithApplications(upgraded, list)
           next == IF found = loaded THEN found
                   ELSE [found EXCEPT !.revision = loaded.revision + 1]
<1>3. manifest' = next /\ disk' = next
  BY <1>2
<1>4. InStep => /\ loaded = manifest \/ (loaded = Older /\ manifest = Starter)
                /\ ~manifest.legacy
  BY NothingDiffers DEF Start, InStep
<1> HIDE DEF loaded
<1>5. /\ upgraded \in Manifests /\ ~upgraded.legacy
      /\ InStep =>
            /\ loaded.revision = manifest.revision
            /\ upgraded.layouts = manifest.layouts
            /\ \/ upgraded.codexLayout = manifest.codexLayout
               \/ upgraded.codexLayout = 0 /\ manifest.codexLayout \in Lacking
            /\ \A a \in Apps :
                  \/ upgraded.applications.name[a] = manifest.applications.name[a]
                  \/ a = Codex /\ upgraded.applications.name[a] = 0
            /\ upgraded.applications.executable = manifest.applications.executable
            /\ upgraded.sequence = manifest.sequence
            /\ upgraded.activated = manifest.activated
  <2>1. upgraded \in Manifests /\ ~upgraded.legacy
    BY <1>1, UpgradedFields
  <2>2. ASSUME loaded = manifest, ~manifest.legacy
        PROVE  /\ upgraded.layouts = manifest.layouts
               /\ \/ upgraded.codexLayout = manifest.codexLayout
                  \/ upgraded.codexLayout = 0 /\ manifest.codexLayout \in Lacking
               /\ \A a \in Apps :
                     \/ upgraded.applications.name[a] = manifest.applications.name[a]
                     \/ a = Codex /\ upgraded.applications.name[a] = 0
               /\ upgraded.applications.executable = manifest.applications.executable
               /\ upgraded.sequence = manifest.sequence
               /\ upgraded.activated = manifest.activated
    BY <1>1, <2>2, UpgradedFields
  <2>3. ASSUME loaded = Older PROVE upgraded = Starter
    BY <1>1, <2>3, UpgradedFields, StarterType
  <2> HIDE DEF upgraded
  <2> QED
    BY <1>4, <2>1, <2>2, <2>3, StarterType
<1> HIDE DEF upgraded
<1>6. /\ list \in Lists
      /\ list.name = upgraded.applications.name
      /\ \A a \in Apps :
            \/ list.executable[a] = upgraded.applications.executable[a]
            \/ a \in Resolvable /\ list.executable[a] = Found
  <2>1. upgraded.applications \in Lists
    BY <1>5 DEF Manifests
  <2> QED
    BY <2>1, RefreshedFields
<1>7. /\ found \in Manifests /\ ~found.legacy
      /\ found.layouts = upgraded.layouts /\ found.codexLayout = upgraded.codexLayout
      /\ found.applications = list
      /\ found.activated # upgraded.activated => found.sequence > upgraded.sequence
  BY <1>5, <1>6, WithApplicationsFields
<1> HIDE DEF found
<1>8. /\ next \in Manifests /\ ~next.legacy
      /\ next.layouts = found.layouts /\ next.codexLayout = found.codexLayout
      /\ next.applications = found.applications
      /\ next.activated = found.activated /\ next.sequence = found.sequence
      /\ next # loaded => next.revision > loaded.revision
  BY <1>1, <1>7 DEF Manifests
<1>9. InStep /\ next # manifest => next.revision > manifest.revision
  BY <1>4, <1>5, <1>8, StarterType
<1> HIDE DEF next
<1> QED
  BY <1>3, <1>5, <1>6, <1>7, <1>8, <1>9

(* A start keeps the invariant.                                            *)
LEMMA StartKeeps == LayoutInv /\ Start => LayoutInv'
<1> SUFFICES ASSUME LayoutInv, Start PROVE LayoutInv'
  OBVIOUS
<1>1. /\ phase = "starting" /\ phase' = "ready" /\ fresh' = {}
      /\ UNCHANGED <<saving, scan, editor, front, acked, mishaps, edits, events>>
  BY DEF Start
<1>2. manifest' \in Manifests /\ disk' = manifest' /\ ~manifest'.legacy
  BY StartResult
<1>3. LayoutType'
  BY <1>1, <1>2 DEF LayoutInv, LayoutType
<1>4. InStep => InStep'
  <2> SUFFICES ASSUME InStep PROVE InStep'
    OBVIOUS
  <2>1. LayoutsKept(manifest) /\ saving = <<>>
    BY <1>1 DEF InStep
  <2>2. LayoutsKept(manifest)'
    BY <1>1, <2>1, StartResult DEF LayoutsKept
  <2> QED
    BY <1>1, <1>2, <2>1, <2>2 DEF InStep
<1>5. InStep /\ ScansCurrent => ScansCurrent'
  <2> SUFFICES ASSUME InStep, ScansCurrent PROVE ScansCurrent'
    OBVIOUS
  <2>1. ApplicationsKept(manifest)'
    BY <1>1, StartResult DEF ScansCurrent, ApplicationsKept
  <2>2. saving' = <<>> /\ \A s \in Sources : scan'[s] = Nothing
    BY <1>1 DEF InStep
  <2> QED
    BY <2>1, <2>2 DEF ScansCurrent
<1> QED
  BY <1>1, <1>3, <1>4, <1>5 DEF LayoutInv

(* A start that ends with the starter manifest keeps it, as a mishap.      *)
LEMMA StartCaughtKeeps == LayoutInv /\ StartCaught => LayoutInv'
<1> SUFFICES ASSUME LayoutInv, StartCaught PROVE LayoutInv'
  OBVIOUS
<1>1. LayoutType'
  BY StarterType DEF LayoutInv, LayoutType, StartCaught, Event
<1>2. "start" \in mishaps'
  BY DEF StartCaught
<1> QED
  BY <1>1, <1>2 DEF LayoutInv

(* A restart, with saves under way or not, keeps the invariant.            *)
LEMMA RestartKeeps == LayoutInv /\ Restart => LayoutInv'
<1> SUFFICES ASSUME LayoutInv, Restart PROVE LayoutInv'
  OBVIOUS
<1>1. LayoutType'
  BY DEF LayoutInv, LayoutType, Restart, Event, history
<1>2. InStep => InStep'
  <2> SUFFICES ASSUME InStep PROVE InStep'
    OBVIOUS
  <2>1. disk' = manifest' /\ ~manifest'.legacy /\ manifest' \in Manifests
    BY DEF LayoutInv, LayoutType, Restart, InStep
  <2>2. disk' \notin {Nothing, Older}
    BY <2>1, NothingDiffers, StarterType
  <2>3. LayoutsKept(manifest)'
    BY DEF Restart, InStep, LayoutsKept, history
  <2> QED
    BY <2>1, <2>2, <2>3 DEF Restart, InStep
<1>3. ScansCurrent => ScansCurrent'
  BY DEF Restart, ScansCurrent, ApplicationsKept, history
<1> QED
  BY <1>1, <1>2, <1>3 DEF LayoutInv, Restart

-----------------------------------------------------------------------------
(* Saves.                                                                  *)

(* The change whose turn it is.                                            *)
LEMMA FirstChange ==
    ASSUME LayoutType, saving # <<>>
    PROVE  /\ Head(saving) \in Changes
           /\ Head(saving).next \in Manifests
           /\ Head(saving).by \in Fields \cup Sources
           /\ Tail(saving) \in Seq(Changes)
           /\ Len(saving) <= 1 => Tail(saving) = <<>>
<1>1. saving \in Seq(Changes)
  BY DEF LayoutType
<1>2. Head(saving) \in Changes /\ Tail(saving) \in Seq(Changes)
  BY <1>1, HeadTailProperties
<1>3. Len(saving) <= 1 => Tail(saving) = <<>>
  BY <1>1, HeadTailProperties, EmptySeq
<1> QED
  BY <1>2, <1>3 DEF Changes

(* The end of a save, well or not, ends the discovery it was made by.      *)
LEMMA LandedScan ==
    ASSUME LayoutType, NEW by \in Fields \cup Sources, Landed(by)
    PROVE  /\ scan' \in [Sources -> Scans \cup {Nothing}]
           /\ \A s \in Sources : scan'[s] = scan[s] \/ scan'[s] = Nothing
  BY DEF LayoutType, Landed

(* What the history notes of a manifest that was saved for an edit of f.   *)
LEMMA AckedFields ==
    ASSUME LayoutType, NEW m \in Manifests, NEW f \in Fields,
           acked' = [acked EXCEPT ![f] = Value(m, f)]
    PROVE  /\ acked' \in [Fields -> Nat]
           /\ acked'["layouts"] = IF f = "layouts" THEN m.layouts ELSE acked["layouts"]
           /\ acked'["codexLayout"] = IF f = "codexLayout" THEN m.codexLayout
                                                           ELSE acked["codexLayout"]
           /\ \A a \in Apps : acked'[a] = IF f = a THEN m.applications.name[a] ELSE acked[a]
<1>1. /\ Value(m, "layouts") = m.layouts
      /\ Value(m, "codexLayout") = m.codexLayout
      /\ \A a \in Apps : Value(m, a) = m.applications.name[a]
  BY AppsAssumption DEF Value, Layouts
<1>2. /\ m.layouts \in Nat /\ m.codexLayout \in Nat
      /\ \A a \in Apps : m.applications.name[a] \in Nat
  BY DEF Manifests, Lists
<1>3. Value(m, f) \in Nat
  BY <1>1, <1>2 DEF Fields, Layouts
<1> QED
  BY <1>1, <1>3, AppsAssumption DEF LayoutType, Fields, Layouts

(* A save that the store has answered keeps the invariant.                 *)
LEMMA SaveKeeps == LayoutInv /\ Save => LayoutInv'
<1> SUFFICES ASSUME LayoutInv, Save PROVE LayoutInv'
  OBVIOUS
<1> DEFINE next == Head(saving).next
           by == Head(saving).by
<1>1. /\ saving # <<>> /\ saving' = Tail(saving)
      /\ disk' = next /\ manifest' = next
      /\ IF by \in Fields
         THEN /\ acked' = [acked EXCEPT ![by] = Value(next, by)]
              /\ fresh' = fresh \cup {by}
         ELSE acked' = acked /\ fresh' = fresh
      /\ Landed(by)
      /\ UNCHANGED <<phase, editor, front, mishaps, edits, events>>
  BY DEF Save, history
<1>2. LayoutType
  BY DEF LayoutInv
<1>3. /\ next \in Manifests /\ by \in Fields \cup Sources
      /\ Tail(saving) \in Seq(Changes)
      /\ Len(saving) <= 1 => Tail(saving) = <<>>
  BY <1>1, <1>2, FirstChange
<1>4. /\ scan' \in [Sources -> Scans \cup {Nothing}]
      /\ \A s \in Sources : scan'[s] = scan[s] \/ scan'[s] = Nothing
  BY <1>1, <1>2, <1>3, LandedScan
<1>5. /\ acked' \in [Fields -> Nat] /\ fresh' \subseteq Fields
      /\ acked'["layouts"] = IF by = "layouts" THEN next.layouts ELSE acked["layouts"]
      /\ acked'["codexLayout"] = IF by = "codexLayout" THEN next.codexLayout
                                                       ELSE acked["codexLayout"]
      /\ \A a \in Apps : acked'[a] = IF by = a THEN next.applications.name[a] ELSE acked[a]
      /\ \A f \in Fields \ {by} : f \in fresh' => f \in fresh
  <2> HIDE DEF next, by
  <2>1. CASE by \in Fields
    BY <1>1, <1>2, <1>3, <2>1, AckedFields DEF LayoutType
  <2>2. CASE by \notin Fields
    BY <1>1, <1>2, <2>2 DEF LayoutType, Fields, Layouts
  <2> QED
    BY <2>1, <2>2
<1> HIDE DEF next, by
<1>6. LayoutType'
  BY <1>1, <1>2, <1>3, <1>4, <1>5 DEF LayoutType
<1>7. InStep => InStep'
  <2> SUFFICES ASSUME InStep PROVE InStep'
    OBVIOUS
  <2>1. saving' = <<>> /\ phase = "ready"
    BY <1>1, <1>2, <1>3 DEF InStep, LayoutType
  <2>2. LayoutsKept(manifest)
    BY DEF InStep
  <2>3. /\ ~next.legacy
        /\ by # "layouts" => next.layouts = manifest.layouts
        /\ by # "codexLayout" => next.codexLayout = manifest.codexLayout
    BY <1>1 DEF InStep, BuiltOn, next, by
  <2>4. LayoutsKept(manifest)'
    BY <1>1, <1>5, <2>2, <2>3 DEF LayoutsKept, Fields, Layouts
  <2> QED
    BY <1>1, <2>1, <2>3, <2>4 DEF InStep
<1>8. InStep /\ ScansCurrent => ScansCurrent'
  <2> SUFFICES ASSUME InStep, ScansCurrent PROVE ScansCurrent'
    OBVIOUS
  <2>1. saving' = <<>>
    BY <1>1, <1>3 DEF InStep
  <2>2. ApplicationsKept(manifest)
    BY DEF ScansCurrent
  <2>3. CASE by \in Apps
    <3>1. /\ \A s \in Sources : scan[s] = Nothing
          /\ next.applications.executable[by] = next.applications.name[by]
          /\ \A a \in Apps \ {by} :
                /\ next.applications.name[a] = manifest.applications.name[a]
                /\ Placed(next.applications, a)
      BY <1>1, <2>3 DEF ScansCurrent, by, next
    <3>2. ApplicationsKept(manifest)'
      BY <1>1, <1>5, <2>2, <2>3, <3>1 DEF ApplicationsKept, Placed, Fields
    <3> QED
      BY <1>4, <2>1, <3>1, <3>2 DEF ScansCurrent
  <2>4. CASE by \notin Apps
    <3>1. Listed(next.applications)
      BY <1>1, <2>4 DEF ScansCurrent, by, next
    <3>2. ApplicationsKept(manifest)'
      BY <1>1, <1>5, <2>2, <2>4, <3>1 DEF ApplicationsKept, Listed, Placed, Fields
    <3>3. (\A s \in Sources : scan[s] # Nothing => Listed(scan[s].applications))'
      BY <1>1, <1>4, <1>5, <2>4, <3>1 DEF ScansCurrent, Listed, Placed
    <3> QED
      BY <2>1, <3>2, <3>3 DEF ScansCurrent
  <2> QED
    BY <2>3, <2>4
<1> QED
  BY <1>1, <1>6, <1>7, <1>8 DEF LayoutInv

(* A save that failed keeps the invariant.                                 *)
LEMMA SaveFailsKeeps == LayoutInv /\ SaveFails => LayoutInv'
<1> SUFFICES ASSUME LayoutInv, SaveFails PROVE LayoutInv'
  OBVIOUS
<1>1. /\ saving # <<>> /\ saving' = Tail(saving) /\ Event
      /\ Landed(Head(saving).by)
      /\ UNCHANGED <<phase, manifest, disk, editor, front, acked, fresh, mishaps, edits>>
  BY DEF SaveFails, history
<1>2. LayoutType
  BY DEF LayoutInv
<1>3. /\ Head(saving).by \in Fields \cup Sources
      /\ Tail(saving) \in Seq(Changes)
      /\ Len(saving) <= 1 => Tail(saving) = <<>>
  BY <1>1, <1>2, FirstChange
<1>4. /\ scan' \in [Sources -> Scans \cup {Nothing}]
      /\ \A s \in Sources : scan'[s] = scan[s] \/ scan'[s] = Nothing
  BY <1>1, <1>2, <1>3, LandedScan
<1>5. LayoutType'
  BY <1>1, <1>2, <1>3, <1>4 DEF LayoutType, Event
<1>6. InStep => InStep'
  <2> SUFFICES ASSUME InStep PROVE InStep'
    OBVIOUS
  <2>1. LayoutsKept(manifest)'
    BY <1>1 DEF InStep, LayoutsKept
  <2>2. saving' = <<>> /\ phase = "ready"
    BY <1>1, <1>2, <1>3 DEF InStep, LayoutType
  <2> QED
    BY <1>1, <2>1, <2>2 DEF InStep
<1>7. InStep /\ ScansCurrent => ScansCurrent'
  <2> SUFFICES ASSUME InStep, ScansCurrent PROVE ScansCurrent'
    OBVIOUS
  <2>1. ApplicationsKept(manifest)' /\ saving' = <<>>
    BY <1>1, <1>3 DEF InStep, ScansCurrent, ApplicationsKept
  <2>2. (\A s \in Sources : scan[s] # Nothing => Listed(scan[s].applications))'
    BY <1>1, <1>4 DEF ScansCurrent, Listed, Placed
  <2> QED
    BY <2>1, <2>2 DEF ScansCurrent
<1> QED
  BY <1>1, <1>5, <1>6, <1>7 DEF LayoutInv

-----------------------------------------------------------------------------
(* Changes.                                                                *)

(* A valid change that is committed while none is under way is the only    *)
(* one; nothing happens to one that is not valid.                          *)
LEMMA CommitAppends ==
    ASSUME LayoutType, NEW next \in Manifests, NEW by \in Fields \cup Sources,
           NEW meeting \in SUBSET {"overlap", "start", "scan"},
           Commit(next, by, meeting)
    PROVE  /\ saving' \in Seq(Changes)
           /\ mishaps' \subseteq {"overlap", "start", "scan"}
           /\ mishaps \subseteq mishaps'
           /\ \/ saving' = saving
              \/ /\ saving' # <<>> /\ Overlap \subseteq mishaps' /\ meeting \subseteq mishaps'
                 /\ saving = <<>> =>
                       /\ Len(saving') = 1
                       /\ Head(saving') = [next |-> [next EXCEPT !.revision = manifest.revision + 1],
                                           by |-> by]
<1> DEFINE change == [next |-> [next EXCEPT !.revision = manifest.revision + 1],
                      by |-> by]
<1>1. change \in Changes
  <2>1. manifest.revision + 1 \in Nat
    BY DEF LayoutType, Manifests
  <2>2. [next EXCEPT !.revision = manifest.revision + 1] \in Manifests
    BY <2>1 DEF Manifests
  <2> QED
    BY <2>2 DEF Changes
<1>2. CASE Valid(next)
  <2>1. /\ saving' = Append(saving, change) /\ saving \in Seq(Changes)
        /\ mishaps' = mishaps \cup Overlap \cup meeting
    BY <1>2 DEF Commit, LayoutType
  <2> HIDE DEF change
  <2>2. /\ saving' \in Seq(Changes) /\ saving' # <<>>
        /\ saving = <<>> => Len(saving') = 1 /\ Head(saving') = change
    BY <1>1, <2>1, AppendProperties
  <2>3. mishaps' \subseteq {"overlap", "start", "scan"}
    BY <2>1 DEF LayoutType, Overlap
  <2> QED
    BY <2>1, <2>2, <2>3 DEF change
<1>3. CASE ~Valid(next)
  BY <1>3 DEF Commit, LayoutType
<1> QED
  BY <1>2, <1>3

(* A change of some fields of the manifest in memory keeps what is in step.*)
LEMMA CommitInStep ==
    ASSUME LayoutInv, phase = "ready",
           NEW next \in Manifests, NEW by \in Fields \cup Sources,
           NEW meeting \in SUBSET {"overlap", "start", "scan"},
           Commit(next, by, meeting),
           UNCHANGED <<phase, manifest, disk, acked, fresh>>,
           next.legacy = manifest.legacy,
           by # "layouts" => next.layouts = manifest.layouts,
           by # "codexLayout" => next.codexLayout = manifest.codexLayout,
           next.activated # manifest.activated => next.sequence > manifest.sequence,
           mishaps' \cap {"overlap", "start"} = {}
    PROVE  InStep'
<1> DEFINE change == [next |-> [next EXCEPT !.revision = manifest.revision + 1],
                      by |-> by]
<1>1. LayoutType
  BY DEF LayoutInv
<1>2. /\ mishaps \subseteq mishaps'
      /\ \/ saving' = saving
         \/ /\ saving' # <<>> /\ Overlap \subseteq mishaps'
            /\ saving = <<>> => Len(saving') = 1 /\ Head(saving') = change
  BY <1>1, CommitAppends
<1>3. InStep
  BY <1>2 DEF LayoutInv
<1>4. LayoutsKept(manifest)' /\ ~manifest'.legacy /\ disk' = manifest' /\ phase' = "ready"
  BY <1>3 DEF InStep, LayoutsKept
<1>5. CASE saving' = saving
  <2>1. Len(saving') <= 1 /\ (saving' # <<>> => BuiltOn(manifest, Head(saving))')
    BY <1>3, <1>5 DEF InStep, BuiltOn
  <2> QED
    BY <1>4, <2>1 DEF InStep
<1>6. CASE saving' # saving
  <2>1. saving = <<>>
    BY <1>2, <1>6 DEF Overlap
  <2>2. BuiltOn(manifest, change)
    BY <1>1, <1>3 DEF InStep, BuiltOn, LayoutType, Manifests
  <2> HIDE DEF change
  <2>3. Len(saving') = 1 /\ Head(saving') = change
    BY <1>2, <1>6, <2>1
  <2>4. BuiltOn(manifest', Head(saving'))
    BY <2>2, <2>3
  <2> QED
    BY <1>4, <2>3, <2>4 DEF InStep
<1> QED
  BY <1>5, <1>6

(* The manifest with an edit of a layout.                                  *)
LEMMA EditedLayout ==
    ASSUME NEW m \in Manifests, NEW f \in Layouts, NEW n \in Nat, NEW next,
           next = [m EXCEPT ![f] = n]
    PROVE  /\ next \in Manifests /\ next.legacy = m.legacy
           /\ f # "layouts" => next.layouts = m.layouts
           /\ f # "codexLayout" => next.codexLayout = m.codexLayout
           /\ next.applications = m.applications
           /\ next.sequence = m.sequence /\ next.activated = m.activated
<1>1. CASE f = "layouts"
  BY <1>1 DEF Manifests
<1>2. CASE f = "codexLayout"
  BY <1>2 DEF Manifests
<1> QED
  BY <1>1, <1>2 DEF Layouts

(* An edit of a layout keeps the invariant, whatever is under way.         *)
LEMMA EditKeeps ==
    ASSUME LayoutInv, NEW f \in Layouts, Edit(f)
    PROVE  LayoutInv'
<1> DEFINE next == [manifest EXCEPT ![f] = edits']
<1>1. /\ phase = "ready" /\ Event /\ edits' = edits + 1
      /\ Commit(next, f, {})
      /\ UNCHANGED <<phase, manifest, disk, scan, editor, front, acked, fresh>>
  BY DEF Edit, history
<1>2. LayoutType /\ f \in Fields \cup Sources /\ f \notin Apps
  BY AppsAssumption DEF LayoutInv, Fields
<1>3. /\ next \in Manifests /\ next.legacy = manifest.legacy
      /\ f # "layouts" => next.layouts = manifest.layouts
      /\ f # "codexLayout" => next.codexLayout = manifest.codexLayout
      /\ next.applications = manifest.applications
      /\ next.activated = manifest.activated
  <2>1. edits' \in Nat /\ manifest \in Manifests
    BY <1>1, <1>2 DEF LayoutType
  <2> QED
    BY <2>1, EditedLayout
<1> HIDE DEF next
<1> DEFINE change == [next |-> [next EXCEPT !.revision = manifest.revision + 1], by |-> f]
<1>4. /\ saving' \in Seq(Changes)
      /\ mishaps' \subseteq {"overlap", "start", "scan"} /\ mishaps \subseteq mishaps'
      /\ \/ saving' = saving
         \/ /\ saving' # <<>> /\ Overlap \subseteq mishaps'
            /\ saving = <<>> => Len(saving') = 1 /\ Head(saving') = change
  BY <1>1, <1>2, <1>3, CommitAppends
<1>5. LayoutType'
  BY <1>1, <1>2, <1>4 DEF LayoutType, Event
<1>6. ASSUME mishaps' \cap {"overlap", "start"} = {} PROVE InStep'
  BY <1>1, <1>2, <1>3, <1>6, CommitInStep
<1>7. ASSUME mishaps' = {} PROVE ScansCurrent'
  <2>1. ScansCurrent
    BY <1>4, <1>7 DEF LayoutInv
  <2>2. /\ ApplicationsKept(manifest)'
        /\ (\A s \in Sources : scan[s] # Nothing => Listed(scan[s].applications))'
    BY <1>1, <2>1 DEF ScansCurrent, ApplicationsKept, Listed, Placed
  <2>3. CASE saving' = saving
    BY <1>1, <2>1, <2>2, <2>3 DEF ScansCurrent, Listed, Placed
  <2>4. CASE saving' # saving
    <3>1. saving = <<>>
      BY <1>4, <1>7, <2>4 DEF Overlap
    <3>2. change.by = f /\ change.next.applications = manifest.applications
      BY <1>3 DEF Manifests
    <3> HIDE DEF change
    <3>3. Head(saving') = change
      BY <1>4, <2>4, <3>1
    <3>4. Listed(Head(saving).next.applications)'
      BY <1>1, <2>1, <3>2, <3>3 DEF ScansCurrent, ApplicationsKept, Listed, Placed
    <3> QED
      BY <1>2, <2>2, <3>2, <3>3, <3>4 DEF ScansCurrent
  <2> QED
    BY <2>3, <2>4
<1> QED
  BY <1>5, <1>6, <1>7 DEF LayoutInv

(* Opening or closing the editor disturbs nothing.                         *)
LEMMA EditorKeeps ==
    ASSUME LayoutInv, CloseEditor \/ \E a \in Apps : OpenEditor(a)
    PROVE  LayoutInv'
<1>1. /\ UNCHANGED <<phase, manifest, disk, saving, scan, front, acked, fresh, mishaps, edits>>
      /\ editor' \in Editors \cup {Nothing} /\ events' \in Nat
      /\ phase = "starting" => editor # Nothing
  <2>1. CASE CloseEditor
    BY <2>1 DEF CloseEditor, LayoutInv, LayoutType, history
  <2>2. ASSUME NEW a \in Apps, OpenEditor(a)
        PROVE  /\ UNCHANGED <<phase, manifest, disk, saving, scan, front, acked, fresh,
                              mishaps, edits>>
               /\ editor' \in Editors /\ events' \in Nat /\ phase = "ready"
    BY <2>2 DEF OpenEditor, LayoutInv, LayoutType, history, Event, Editors
  <2> QED
    BY <2>1, <2>2
<1>2. LayoutType'
  BY <1>1 DEF LayoutInv, LayoutType
<1>3. InStep => InStep'
  <2> SUFFICES ASSUME InStep PROVE InStep'
    OBVIOUS
  <2>1. phase = "ready"
    BY <1>1 DEF InStep, LayoutInv, LayoutType
  <2>2. LayoutsKept(manifest)' /\ (saving # <<>> => BuiltOn(manifest, Head(saving)))'
    BY <1>1 DEF InStep, LayoutsKept, BuiltOn
  <2> QED
    BY <1>1, <2>1, <2>2 DEF InStep
<1>4. ScansCurrent => ScansCurrent'
  BY <1>1 DEF ScansCurrent, ApplicationsKept, Listed, Placed
<1> QED
  BY <1>1, <1>2, <1>3, <1>4 DEF LayoutInv

(* The list with the editor's application in it.                           *)
LEMMA EditedFields ==
    ASSUME editor \in Editors, NEW list \in Lists, NEW n \in Nat
    PROVE  LET edited == Edited(list, n)
               f == editor.app
           IN  /\ edited \in Lists /\ f \in Apps
               /\ edited.executable[f] = edited.name[f]
               /\ \A a \in Apps \ {f} : /\ edited.name[a] = list.name[a]
                                        /\ edited.executable[a] = list.executable[a]
<1>1. editor.app \in Apps
  BY DEF Editors
<1>2. (IF editor.flagged THEN list.foreground \cup {editor.app}
                         ELSE list.foreground \ {editor.app}) \in SUBSET Apps
  BY <1>1 DEF Lists
<1> QED
  BY <1>1, <1>2 DEF Edited, Lists

(* An edit of an application keeps the invariant.                          *)
LEMMA EditApplicationKeeps == LayoutInv /\ EditApplication => LayoutInv'
<1> SUFFICES ASSUME LayoutInv, EditApplication PROVE LayoutInv'
  OBVIOUS
<1> DEFINE list == Edited(manifest.applications, edits')
           f == editor.app
           next == [manifest EXCEPT !.applications = list]
           meeting == IF \E s \in Sources : scan[s] # Nothing THEN {"scan"} ELSE {}
<1>1. /\ editor # Nothing /\ edits' = edits + 1 /\ editor' = Nothing
      /\ Commit(next, f, meeting)
      /\ UNCHANGED <<phase, manifest, disk, scan, front, acked, fresh, events>>
  BY DEF EditApplication, history
<1>2. /\ LayoutType /\ editor \in Editors /\ edits' \in Nat
      /\ manifest \in Manifests /\ manifest.applications \in Lists
  BY <1>1 DEF LayoutInv, LayoutType, Manifests
<1>3. /\ list \in Lists /\ f \in Apps
      /\ list.executable[f] = list.name[f]
      /\ \A a \in Apps \ {f} : /\ list.name[a] = manifest.applications.name[a]
                               /\ list.executable[a] = manifest.applications.executable[a]
  BY <1>2, EditedFields
<1> HIDE DEF list, f
<1>4. /\ next \in Manifests /\ next.applications = list /\ next.legacy = manifest.legacy
      /\ next.layouts = manifest.layouts /\ next.codexLayout = manifest.codexLayout
      /\ next.activated = manifest.activated
      /\ f \in Fields \cup Sources /\ f \notin Layouts
      /\ meeting \in SUBSET {"overlap", "start", "scan"}
  BY <1>2, <1>3, AppsAssumption DEF Manifests, Fields
<1> HIDE DEF next, meeting
<1> DEFINE change == [next |-> [next EXCEPT !.revision = manifest.revision + 1], by |-> f]
<1>5. /\ saving' \in Seq(Changes)
      /\ mishaps' \subseteq {"overlap", "start", "scan"} /\ mishaps \subseteq mishaps'
      /\ \/ saving' = saving
         \/ /\ saving' # <<>> /\ Overlap \subseteq mishaps' /\ meeting \subseteq mishaps'
            /\ saving = <<>> => Len(saving') = 1 /\ Head(saving') = change
  BY <1>1, <1>2, <1>4, CommitAppends
<1>6. LayoutType'
  BY <1>1, <1>2, <1>5 DEF LayoutType
<1>7. ASSUME mishaps' \cap {"overlap", "start"} = {} PROVE InStep'
  <2>1. phase = "ready"
    BY <1>1, <1>2, <1>5, <1>7 DEF LayoutInv, InStep, LayoutType
  <2> QED
    BY <1>1, <1>2, <1>4, <1>7, <2>1, CommitInStep
<1>8. ASSUME mishaps' = {} PROVE ScansCurrent'
  <2>1. ScansCurrent
    BY <1>5, <1>8 DEF LayoutInv
  <2>2. /\ ApplicationsKept(manifest)'
        /\ (\A s \in Sources : scan[s] # Nothing => Listed(scan[s].applications))'
    BY <1>1, <2>1 DEF ScansCurrent, ApplicationsKept, Listed, Placed
  <2>3. CASE saving' = saving
    BY <1>1, <2>1, <2>2, <2>3 DEF ScansCurrent, Listed, Placed
  <2>4. CASE saving' # saving
    <3>1. saving = <<>> /\ \A s \in Sources : scan[s] = Nothing
      BY <1>5, <1>8, <2>4 DEF Overlap, meeting
    <3>2. change.by = f /\ change.next.applications = list
      BY <1>4 DEF Manifests
    <3> HIDE DEF change
    <3>3. Head(saving') = change
      BY <1>5, <2>4, <3>1
    <3>4. \A a \in Apps \ {f} : Placed(list, a)
      BY <1>3, <2>1 DEF ScansCurrent, ApplicationsKept, Placed
    <3> QED
      BY <1>1, <1>3, <2>2, <3>1, <3>2, <3>3, <3>4 DEF ScansCurrent, Placed
  <2> QED
    BY <2>3, <2>4
<1> QED
  BY <1>6, <1>7, <1>8 DEF LayoutInv

(* Another process in front disturbs nothing.                              *)
LEMMA SwitchKeeps == LayoutInv /\ Switch => LayoutInv'
<1> SUFFICES ASSUME LayoutInv, Switch PROVE LayoutInv'
  OBVIOUS
<1>1. /\ UNCHANGED <<phase, manifest, disk, saving, scan, editor, acked, fresh, mishaps, edits>>
      /\ front' \in Processes \cup {Nothing} /\ Event
  BY DEF Switch, history
<1>2. LayoutType'
  BY <1>1 DEF LayoutInv, LayoutType, Event
<1>3. (InStep => InStep') /\ (ScansCurrent => ScansCurrent')
  BY <1>1 DEF InStep, ScansCurrent, LayoutsKept, ApplicationsKept, BuiltOn, Listed, Placed
<1> QED
  BY <1>1, <1>2, <1>3 DEF LayoutInv

(* What a discovery that began or looked works on.                         *)
LEMMA ScanFields ==
    ASSUME LayoutType, NEW s \in Sources, Discover(s) \/ Look(s) \/ LookFails(s)
    PROVE  /\ scan' \in [Sources -> Scans \cup {Nothing}]
           /\ \A r \in Sources \ {s} : scan'[r] = scan[r]
           /\ scan'[s] # Nothing =>
                 \/ /\ Discover(s) /\ scan'[s].applications = manifest.applications
                 \/ /\ scan[s] # Nothing
                    /\ scan'[s].applications.name = scan[s].applications.name
                    /\ \A a \in Apps :
                          \/ scan'[s].applications.executable[a] =
                                scan[s].applications.executable[a]
                          \/ /\ a \in Resolvable
                             /\ scan'[s].applications.executable[a] = Found
<1>1. CASE Discover(s)
  <2> DEFINE listed == [step |-> "listed", applications |-> manifest.applications]
  <2>1. scan' = [scan EXCEPT ![s] = listed]
    BY <1>1 DEF Discover
  <2>2. listed \in Scans /\ listed.applications = manifest.applications
    BY DEF Scans, LayoutType, Manifests
  <2> HIDE DEF listed
  <2> QED
    BY <1>1, <2>1, <2>2 DEF LayoutType
<1>2. CASE Look(s)
  <2>1. PICK list \in Refreshed(scan[s].applications) :
           scan' = [scan EXCEPT ![s] = [step |-> "looked", applications |-> list]]
    BY <1>2 DEF Look
  <2>2. scan[s] # Nothing /\ scan[s].applications \in Lists
    BY <1>2 DEF Look, LayoutType, Scans
  <2>3. /\ list \in Lists
        /\ list.name = scan[s].applications.name
        /\ \A a \in Apps :
              \/ list.executable[a] = scan[s].applications.executable[a]
              \/ a \in Resolvable /\ list.executable[a] = Found
    BY <2>2, RefreshedFields
  <2> DEFINE looked == [step |-> "looked", applications |-> list]
  <2>4. looked \in Scans /\ looked.applications = list
    BY <2>3 DEF Scans
  <2>5. scan' = [scan EXCEPT ![s] = looked]
    BY <2>1
  <2> HIDE DEF looked
  <2> QED
    BY <2>2, <2>3, <2>4, <2>5 DEF LayoutType
<1>3. CASE LookFails(s)
  BY <1>3 DEF LookFails, LayoutType
<1> QED
  BY <1>1, <1>2, <1>3

(* A discovery that begins, looks or fails changes nothing but itself.     *)
LEMMA ScanKeeps ==
    ASSUME LayoutInv, NEW s \in Sources, Discover(s) \/ Look(s) \/ LookFails(s)
    PROVE  LayoutInv'
<1>1. /\ UNCHANGED <<phase, manifest, disk, saving, editor, front, acked, fresh, edits>>
      /\ mishaps \subseteq mishaps'
      /\ LayoutType
  BY DEF Discover, Look, LookFails, LayoutInv, history
<1>2. mishaps' \subseteq {"overlap", "start", "scan"} /\ events' \in Nat
  BY <1>1 DEF Discover, Look, LookFails, Event, LayoutType
<1>3. LayoutType'
  BY <1>1, <1>2, ScanFields DEF LayoutType
<1>4. InStep => InStep'
  <2> SUFFICES ASSUME InStep PROVE InStep'
    OBVIOUS
  <2>1. phase = "ready"
    <3>1. Discover(s) => phase = "ready"
      BY DEF Discover
    <3>2. Look(s) \/ LookFails(s) => scan[s] # Nothing
      BY DEF Look, LookFails
    <3> QED
      BY <1>1, <3>1, <3>2 DEF InStep, LayoutType
  <2>2. LayoutsKept(manifest)' /\ (saving # <<>> => BuiltOn(manifest, Head(saving)))'
    BY <1>1 DEF InStep, LayoutsKept, BuiltOn
  <2> QED
    BY <1>1, <2>1, <2>2 DEF InStep
<1>5. ASSUME mishaps' = {} PROVE ScansCurrent'
  <2>1. ScansCurrent /\ mishaps = {}
    BY <1>1, <1>5 DEF LayoutInv
  <2>2. ApplicationsKept(manifest)'
    BY <1>1, <2>1 DEF ScansCurrent, ApplicationsKept
  <2>3. (\A r \in Sources : scan[r] # Nothing => Listed(scan[r].applications))'
    <3>1. ASSUME NEW r \in Sources, scan'[r] # Nothing
          PROVE  /\ scan'[r].applications.name = manifest.applications.name
                 /\ \A a \in Apps : Placed(scan'[r].applications, a)
      <4>1. CASE r # s
        BY <1>1, <2>1, <3>1, <4>1, ScanFields DEF ScansCurrent, Listed
      <4>2. CASE r = s
        BY <1>1, <2>1, <3>1, <4>2, ScanFields DEF ScansCurrent, ApplicationsKept, Listed, Placed
      <4> QED
        BY <4>1, <4>2
    <3> QED
      BY <1>1, <3>1 DEF Listed, Placed
  <2>4. saving # <<>> /\ Head(saving).by \in Apps => scan'[s] = Nothing
    <3> SUFFICES ASSUME saving # <<>>, Head(saving).by \in Apps
                 PROVE  scan'[s] = Nothing
      OBVIOUS
    <3>1. scan[s] = Nothing
      BY <2>1 DEF ScansCurrent
    <3>2. ~Discover(s)
      <4>1. 1 \in DOMAIN saving /\ saving[1] = Head(saving)
        BY <1>1 DEF LayoutType
      <4> QED
        BY <1>5, <4>1 DEF Discover
    <3> QED
      BY <1>1, <3>1, <3>2, ScanFields
  <2>5. \A r \in Sources \ {s} : scan'[r] = scan[r]
    BY <1>1, ScanFields
  <2> QED
    BY <1>1, <2>1, <2>2, <2>3, <2>4, <2>5 DEF ScansCurrent, Listed, Placed
<1> QED
  BY <1>1, <1>3, <1>4, <1>5 DEF LayoutInv

(* The end of a discovery keeps the invariant.                             *)
LEMMA PublishKeeps ==
    ASSUME LayoutInv, NEW s \in Sources, Publish(s)
    PROVE  LayoutInv'
<1> DEFINE next == WithApplications(manifest, scan[s].applications)
<1>1. /\ scan[s] # Nothing
      /\ UNCHANGED <<phase, manifest, disk, editor, front, acked, fresh, edits, events>>
      /\ LayoutType
  BY DEF Publish, LayoutInv, history
<1>2. scan[s] \in Scans /\ scan[s].applications \in Lists /\ manifest \in Manifests
  BY <1>1 DEF LayoutType, Scans
<1>3. /\ next \in Manifests /\ next.legacy = manifest.legacy
      /\ next.layouts = manifest.layouts /\ next.codexLayout = manifest.codexLayout
      /\ next.applications = scan[s].applications
      /\ next.activated # manifest.activated => next.sequence > manifest.sequence
  BY <1>2, WithApplicationsFields
<1>4. \/ /\ scan' = [scan EXCEPT ![s] = Nothing] /\ UNCHANGED <<saving, mishaps>>
      \/ /\ Commit(next, s, {})
         /\ \/ scan' = [scan EXCEPT ![s].step = "saving"]
            \/ scan' = [scan EXCEPT ![s] = Nothing]
  <2> HIDE DEF next
  <2> QED
    BY DEF Publish, next
<1> HIDE DEF next
<1>5. /\ scan' \in [Sources -> Scans \cup {Nothing}]
      /\ \A r \in Sources : \/ scan'[r] = Nothing
                            \/ scan[r] # Nothing /\ scan'[r].applications = scan[r].applications
                            \/ scan'[r] = scan[r]
  <2>1. CASE scan' = [scan EXCEPT ![s] = Nothing]
    BY <1>1, <2>1 DEF LayoutType
  <2>2. CASE scan' = [scan EXCEPT ![s].step = "saving"]
    <3> DEFINE kept == [scan[s] EXCEPT !.step = "saving"]
    <3>1. kept \in Scans /\ kept.applications = scan[s].applications
      BY <1>2 DEF Scans
    <3>2. scan' = [scan EXCEPT ![s] = kept]
      BY <2>2
    <3> HIDE DEF kept
    <3> QED
      BY <1>1, <3>1, <3>2 DEF LayoutType
  <2> QED
    BY <1>4, <2>1, <2>2
<1>6. /\ ScansCurrent => (\A r \in Sources : scan[r] # Nothing => Listed(scan[r].applications))'
      /\ ScansCurrent => ApplicationsKept(manifest)'
  <2>1. ScansCurrent =>
          \A r \in Sources : scan'[r] # Nothing =>
              /\ scan'[r].applications.name = manifest.applications.name
              /\ \A a \in Apps : Placed(scan'[r].applications, a)
    BY <1>5 DEF ScansCurrent, Listed
  <2> QED
    BY <1>1, <2>1 DEF ScansCurrent, Listed, Placed, ApplicationsKept
<1>7. CASE UNCHANGED <<saving, mishaps>>
  <2>1. LayoutType'
    BY <1>1, <1>5, <1>7 DEF LayoutType
  <2>2. InStep => InStep'
    BY <1>1, <1>5, <1>7 DEF InStep, LayoutsKept, BuiltOn
  <2>3. ScansCurrent => ScansCurrent'
    BY <1>1, <1>5, <1>6, <1>7 DEF ScansCurrent, Listed, Placed
  <2> QED
    BY <1>7, <2>1, <2>2, <2>3 DEF LayoutInv
<1>8. CASE Commit(next, s, {})
  <2> DEFINE change == [next |-> [next EXCEPT !.revision = manifest.revision + 1], by |-> s]
  <2>1. s \in Fields \cup Sources /\ s \notin Fields
    BY AppsAssumption DEF Fields, Layouts, Sources
  <2>2. /\ saving' \in Seq(Changes)
        /\ mishaps' \subseteq {"overlap", "start", "scan"} /\ mishaps \subseteq mishaps'
        /\ \/ saving' = saving
           \/ /\ saving' # <<>> /\ Overlap \subseteq mishaps'
              /\ saving = <<>> => Len(saving') = 1 /\ Head(saving') = change
    BY <1>1, <1>3, <1>8, <2>1, CommitAppends
  <2>3. LayoutType'
    BY <1>1, <1>5, <2>2 DEF LayoutType
  <2>4. ASSUME mishaps' \cap {"overlap", "start"} = {} PROVE InStep'
    <3>1. phase = "ready"
      BY <1>1, <2>2, <2>4 DEF LayoutInv, InStep, LayoutType
    <3> QED
      BY <1>1, <1>3, <1>8, <2>1, <2>4, <3>1, CommitInStep
  <2>5. ASSUME mishaps' = {} PROVE ScansCurrent'
    <3>1. ScansCurrent
      BY <2>2, <2>5 DEF LayoutInv
    <3>2. CASE saving' = saving
      BY <1>1, <1>5, <1>6, <3>1, <3>2 DEF ScansCurrent, Listed, Placed
    <3>3. CASE saving' # saving
      <4>1. saving = <<>>
        BY <2>2, <2>5, <3>3 DEF Overlap
      <4>2. change.by = s /\ change.next.applications = scan[s].applications
        BY <1>3 DEF Manifests
      <4> HIDE DEF change
      <4>3. Head(saving') = change
        BY <2>2, <3>3, <4>1
      <4>4. Listed(Head(saving).next.applications)'
        <5>1. Listed(scan[s].applications)
          BY <1>1, <3>1 DEF ScansCurrent
        <5>2. Head(saving').next.applications = scan[s].applications
          BY <4>2, <4>3
        <5> QED
          BY <1>1, <5>1, <5>2 DEF Listed, Placed
      <4> QED
        BY <1>6, <2>1, <3>1, <4>2, <4>3, <4>4 DEF ScansCurrent, Fields
    <3> QED
      BY <3>2, <3>3
  <2> QED
    BY <2>3, <2>4, <2>5 DEF LayoutInv
<1> QED
  BY <1>4, <1>7, <1>8

-----------------------------------------------------------------------------
(* Every step keeps the invariant.                                         *)
LEMMA LayoutStep == LayoutInv /\ [LayoutNext]_layoutVars => LayoutInv'
<1> SUFFICES ASSUME LayoutInv, [LayoutNext]_layoutVars PROVE LayoutInv'
  OBVIOUS
<1>1. CASE Start
  BY <1>1, StartKeeps
<1>2. CASE StartCaught
  BY <1>2, StartCaughtKeeps
<1>3. CASE Restart
  BY <1>3, RestartKeeps
<1>4. CASE Save
  BY <1>4, SaveKeeps
<1>5. CASE SaveFails
  BY <1>5, SaveFailsKeeps
<1>6. CASE Switch
  BY <1>6, SwitchKeeps
<1>7. ASSUME NEW f \in Layouts, Edit(f) PROVE LayoutInv'
  BY <1>7, EditKeeps
<1>8. CASE CloseEditor \/ \E a \in Apps : OpenEditor(a)
  BY <1>8, EditorKeeps
<1>9. CASE EditApplication
  BY <1>9, EditApplicationKeeps
<1>10. ASSUME NEW s \in Sources, Scan(s) PROVE LayoutInv'
  BY <1>10, ScanKeeps, PublishKeeps DEF Scan
<1>11. CASE UNCHANGED layoutVars
  BY <1>11 DEF layoutVars, history, LayoutInv, LayoutType, InStep, ScansCurrent,
               LayoutsKept, ApplicationsKept, BuiltOn, Listed, Placed
<1> QED
  BY <1>1, <1>2, <1>3, <1>4, <1>5, <1>6, <1>7, <1>8, <1>9, <1>10, <1>11 DEF LayoutNext

(***************************************************************************)
(* Until changes overlap or a start ends with the starter manifest, memory *)
(* and store hold the same manifest, at most one change is being saved,    *)
(* and it was computed from the manifest it replaces                       *)
(* (DesktopController._commit); until an edit of an application meets a    *)
(* discovery, every discovery works on the texts listed now, but for       *)
(* executables that another one found meanwhile.                           *)
(***************************************************************************)
THEOREM LayoutInvariance == LayoutSpec => []LayoutInv
<1> QED
  BY LayoutInitially, LayoutStep, PTL DEF LayoutSpec

(***************************************************************************)
(* An edit that was saved stays in memory and in the store until the next  *)
(* of the same fields (updateButton, updateApplication and the like), or   *)
(* until a start's upgrade or a discovery replaces what they may replace.  *)
(***************************************************************************)
THEOREM EditsStay == LayoutSpec => []EditsSurvive
<1>1. LayoutInv => EditsSurvive
  <2> SUFFICES ASSUME LayoutInv PROVE EditsSurvive
    OBVIOUS
  <2>1. InStep => LayoutsKept(manifest) /\ disk \in {Nothing, Older, manifest}
    BY DEF InStep, LayoutInv, LayoutType
  <2>2. ScansCurrent => ApplicationsKept(manifest)
    BY DEF ScansCurrent
  <2>3. InStep /\ disk = Older => manifest = Starter
    BY NothingDiffers, StarterType DEF InStep, LayoutInv, LayoutType
  <2>4. /\ LayoutsKept(Starter) => LayoutsKept(Older)
        /\ ApplicationsKept(Starter) => ApplicationsKept(Older)
    BY DEF LayoutsKept, ApplicationsKept, Older, Starter
  <2> QED
    BY <2>1, <2>2, <2>3, <2>4 DEF LayoutInv, EditsSurvive
<1> QED
  BY <1>1, LayoutInvariance, PTL

(* Only a start and a save replace the manifest in memory.                 *)
LEMMA ReplacedBy ==
    ASSUME [LayoutNext]_layoutVars, manifest' # manifest
    PROVE  Start \/ StartCaught \/ Save
<1>1. ~Restart /\ ~SaveFails /\ ~Switch /\ ~CloseEditor /\ ~EditApplication
  BY DEF Restart, SaveFails, Switch, CloseEditor, EditApplication
<1>2. /\ \A f \in Layouts : ~Edit(f)
      /\ \A a \in Apps : ~OpenEditor(a)
  BY DEF Edit, OpenEditor
<1>3. \A s \in Sources : ~Scan(s)
  BY DEF Scan, Discover, Look, LookFails, Publish
<1>4. ~UNCHANGED layoutVars
  BY DEF layoutVars
<1> QED
  BY <1>1, <1>2, <1>3, <1>4 DEF LayoutNext

(***************************************************************************)
(* Another manifest has a higher revision, and one that names another      *)
(* activated application a higher sequence (_commit,                       *)
(* _withApplications).                                                     *)
(***************************************************************************)
THEOREM RevisionsIdentify == LayoutSpec => RevisionIdentifies
<1>1. LayoutInv /\ [LayoutNext]_layoutVars =>
        [manifest' # manifest /\ mishaps' \cap {"overlap", "start"} = {} =>
            /\ manifest'.revision > manifest.revision
            /\ manifest'.activated # manifest.activated
                  => manifest'.sequence > manifest.sequence]_layoutVars
  <2> SUFFICES ASSUME LayoutInv, [LayoutNext]_layoutVars, manifest' # manifest,
                      mishaps' \cap {"overlap", "start"} = {}
               PROVE  /\ manifest'.revision > manifest.revision
                      /\ manifest'.activated # manifest.activated
                            => manifest'.sequence > manifest.sequence
    OBVIOUS
  <2>1. CASE Start
    <3>1. InStep
      BY <2>1 DEF Start, LayoutInv
    <3> QED
      BY <2>1, <3>1, StartResult
  <2>2. CASE Save
    <3>1. /\ saving # <<>> /\ manifest' = Head(saving).next
          /\ mishaps' = mishaps
      BY <2>2 DEF Save
    <3>2. BuiltOn(manifest, Head(saving)) /\ manifest.revision \in Nat
      BY <3>1 DEF LayoutInv, InStep, LayoutType, Manifests
    <3> QED
      BY <3>1, <3>2 DEF BuiltOn
  <2>3. ~StartCaught
    BY DEF StartCaught
  <2> QED
    BY <2>1, <2>2, <2>3, ReplacedBy
<1> QED
  BY <1>1, LayoutInvariance, PTL DEF LayoutSpec, RevisionIdentifies

-----------------------------------------------------------------------------
(* The phone.                                                              *)

(* A revision counts a change.                                             *)
RevBound == \A d \in Desktops : rev[d] <= spent.changes

(* What is selected was advertised, and a fetch began after that.          *)
Advertised ==
    /\ host # None => host.rev <= rev[host.d]
    /\ refresh # None => /\ refresh.host.rev <= refresh.from
                         /\ refresh.host.d \notin Plain
    /\ pendingHost # None => pendingHost.d \notin Plain

(* Nothing but the pairing touches the selection while it lasts: neither   *)
(* broadcasts, nor the expiry, nor a heartbeat of the time before.         *)
Alone ==
    /\ manual /\ ~heard /\ ~ticking
    /\ beat # None => ~beat.current

Pairing ==
    /\ pairing # None =>
           /\ Alone
           /\ pairing.step = "manifest" =>
                  host = [d |-> pairing.d, rev |-> pairing.rev]
    /\ ticking => manual
    /\ beat # None /\ beat.current => manual

Fresh == shown # None /\ shown.rev >= host.rev

(* A refresh is noted that the end of the present fetch will start.        *)
Noted ==
    /\ pendingHost = host /\ pendingRev # None
    /\ shown = None \/ pendingRev # shown.rev

Settled ==
    /\ host = None => shown = None
    /\ host # None =>
           /\ shown # None => shown.d = host.d
           /\ host.d \in Plain => shown = None
           /\ host.d \notin Plain =>
                  Fresh \/ (refresh # None /\ (Current(refresh) \/ Noted))

LinkInv ==
    /\ TypeOK
    /\ RevBound
    /\ Advertised
    /\ Pairing
    /\ Undisturbed /\ ~manual => Settled

-----------------------------------------------------------------------------
(* No value of the model is None.                                          *)
LEMMA NoneDiffers ==
    /\ None \notin Desktops /\ None \notin Nat /\ None \notin Host
    /\ None \notin Revisions /\ None \notin Call
  BY NoneAssumption, BoundAssumption DEF Revisions

(* A continuation that has lost its epoch is otherwise the same.           *)
LEMMA OutdatedType ==
    ASSUME NEW call \in Call \cup {None}
    PROVE  /\ Outdated(call) \in Call \cup {None}
           /\ Outdated(call) = None <=> call = None
           /\ call # None => /\ Outdated(call).host = call.host
                             /\ Outdated(call).from = call.from
                             /\ ~Outdated(call).current
  BY NoneDiffers DEF Outdated, Call, Host

(* The invariant holds at first.                                           *)
LEMMA Initially == Init => LinkInv
<1> SUFFICES ASSUME Init PROVE LinkInv
  OBVIOUS
<1>1. /\ rev = [d \in Desktops |-> 0]
      /\ spent = [failures |-> 0, expiries |-> 0, choices |-> 0, delays |-> 0,
                  changes |-> 0]
  BY DEF Init
<1>2. TypeOK
  <2>1. 0 \in Revisions /\ Revisions \subseteq Nat
    BY BoundAssumption DEF Revisions
  <2>2. rev \in [Desktops -> Revisions]
    BY <1>1, <2>1
  <2>3. spent \in Spent
    BY <1>1, BoundAssumption DEF Spent
  <2> QED
    BY <2>2, <2>3 DEF Init, TypeOK
<1>3. RevBound
  <2> SUFFICES ASSUME NEW d \in Desktops
               PROVE  rev[d] <= spent.changes
    BY DEF RevBound
  <2>1. spent.changes = 0 /\ rev[d] = 0
    BY <1>1
  <2> QED
    BY <2>1
<1>4. Advertised /\ Pairing /\ Settled
  BY DEF Init, Advertised, Pairing, Settled
<1> QED
  BY <1>2, <1>3, <1>4 DEF LinkInv

-----------------------------------------------------------------------------
(* An answer has a revision that its Desktop had.                          *)
LEMMA AnswersType ==
    ASSUME TypeOK, NEW d \in Desktops, NEW from \in Revisions, NEW call,
           call.from = from, NEW a \in Answers(call, d)
    PROVE  a \in Revisions /\ from <= a /\ a <= rev[d]
  BY BoundAssumption DEF TypeOK, Answers, Revisions

(* The host of a request and the parts of a host.                          *)
LEMMA CallType ==
    /\ \A h \in Host : h.d \in Desktops /\ h.rev \in Revisions
    /\ \A d \in Desktops, r \in Revisions : [d |-> d, rev |-> r] \in Host
    /\ \A call \in Call : /\ call.host \in Host /\ call.from \in Revisions
                         /\ call.current \in BOOLEAN
    /\ \A h \in Host, r \in Revisions :
           [host |-> h, current |-> TRUE, from |-> r] \in Call
  BY DEF Host, Call

(* The end of a fetch keeps the types.                                     *)
LEMMA EndFetchType ==
    ASSUME TypeOK, NEW awaited \in Revisions \cup {None},
           NEW fetched \in Host \cup {None},
           NEW result \in {"ready", "error", "disconnected", "discovering", "syncing"},
           EndFetch(awaited, fetched, result),
           spent' \in Spent
    PROVE  TypeOK'
<1>1. /\ shown' \in Host \cup {None} /\ pendingRev' \in Revisions \cup {None}
      /\ pendingHost' \in Host \cup {None}
  BY DEF EndFetch, TypeOK
<1>2. refresh' \in Call \cup {None}
  BY NoneDiffers, CallType DEF EndFetch, TypeOK
<1>3. status' \in {"disconnected", "discovering", "syncing", "ready", "error"}
  BY DEF EndFetch
<1>4. UNCHANGED <<rev, host, heard, manual, ticking, pairing, beat, chosen, post>>
  BY DEF EndFetch, pairings
<1> QED
  BY <1>1, <1>2, <1>3, <1>4 DEF TypeOK

(* A broadcast keeps the types.                                            *)
LEMMA ReceiveType ==
    ASSUME TypeOK, NEW d \in Desktops, NEW r \in Revisions, Receive(d, r),
           spent' \in Spent
    PROVE  TypeOK'
<1> DEFINE h == [d |-> d, rev |-> r]
<1>1. h \in Host /\ host' = h /\ heard' = TRUE
  BY CallType DEF Receive
<1>2. UNCHANGED <<rev, manual, ticking, pairing, chosen>>
  BY DEF Receive
<1>3. post' \in Call \cup {None}
  BY OutdatedType DEF Receive, TypeOK
<1>4. beat' \in [host : Host, current : BOOLEAN, step : Steps, from : Revisions]
                 \cup {None}
  BY DEF Receive, TypeOK, Outdated
<1>5. \A f \in {refresh, Outdated(refresh)} :
          f \in Call \cup {None} /\ (Fetch(h, f) => /\ refresh' \in Call \cup {None}
                                                 /\ pendingHost' \in Host \cup {None}
                                                 /\ status' \in {status, "syncing"})
  BY <1>1, OutdatedType, CallType DEF Fetch, TypeOK
<1>6. /\ refresh' \in Call \cup {None} /\ pendingHost' \in Host \cup {None}
      /\ status' \in {status, "syncing", "ready"}
  BY <1>5 DEF Receive, TypeOK
<1>7. shown' \in Host \cup {None} /\ pendingRev' \in Revisions \cup {None}
  BY DEF Receive, TypeOK
<1> QED
  BY <1>1, <1>2, <1>3, <1>4, <1>6, <1>7 DEF TypeOK

-----------------------------------------------------------------------------
(* Every step keeps the types, and no Desktop has a revision beyond the    *)
(* changes so far (LanCompanionService).                                   *)
LEMMA TypeStep == TypeOK /\ RevBound /\ [Next]_vars => TypeOK' /\ RevBound'
<1> SUFFICES ASSUME TypeOK, RevBound, [Next]_vars
             PROVE  TypeOK' /\ RevBound'
  OBVIOUS
<1> DEFINE Beats == [host : Host, current : BOOLEAN, step : Steps, from : Revisions]
           Pairs == [d : Desktops, step : Steps, rev : Revisions, from : Revisions]
<1>1. spent' \in Spent
  <2>1. spent \in Spent
    BY DEF TypeOK, Spent
  <2>2. CASE UNCHANGED spent
    BY <2>1, <2>2
  <2>3. CASE Fail
    BY <2>1, <2>3, BoundAssumption DEF Fail, Spent
  <2>4. ASSUME NEW d \in Desktops, Change(d) PROVE spent' \in Spent
    BY <2>1, <2>4, BoundAssumption DEF Change, Spent
  <2>5. ASSUME NEW d \in Desktops, HearDelayed(d) PROVE spent' \in Spent
    BY <2>1, <2>5, BoundAssumption DEF HearDelayed, Spent
  <2>6. CASE Expire
    BY <2>1, <2>6, BoundAssumption DEF Expire, Spent
  <2>7. CASE Reselect
    BY <2>1, <2>7, BoundAssumption DEF Reselect, Spent
  <2> QED
    BY <2>2, <2>3, <2>4, <2>5, <2>6, <2>7
    DEF Next, vars, FetchEnds, PostEnds, PairStep, BeatStep, Hear, Connect,
        Fetched, FetchFailed, FetchDropped, PostAnswered, PostFailed,
        PostDropped, PairInfo, PairManifest, PairFailed, BeatInfo, BeatManifest,
        BeatFailed, BeatDropped, Post, Disconnect, Tick
<1>2. RevBound'
  <2>1. ASSUME NEW c \in Desktops, Change(c) PROVE RevBound'
    <3> SUFFICES ASSUME NEW d \in Desktops
                 PROVE  rev'[d] <= spent'.changes
      BY DEF RevBound
    <3>1. spent'.changes = spent.changes + 1 /\ rev'[d] \in {rev[d], rev[d] + 1}
      BY <2>1 DEF Change, TypeOK, Spent
    <3>2. rev[d] \in Nat /\ spent.changes \in Nat /\ rev[d] <= spent.changes
      BY BoundAssumption DEF TypeOK, Spent, Revisions, RevBound
    <3> QED
      BY <3>1, <3>2
  <2>2. CASE rev' = rev /\ spent'.changes = spent.changes
    BY <2>2 DEF RevBound
  <2>3. CASE UNCHANGED rev /\ (UNCHANGED spent \/ Fail)
    BY <2>2, <2>3 DEF Fail, TypeOK, Spent
  <2>4. ASSUME NEW d \in Desktops, HearDelayed(d) PROVE RevBound'
    BY <2>2, <2>4 DEF HearDelayed, Receive, TypeOK, Spent
  <2>5. CASE Expire
    BY <2>2, <2>5 DEF Expire, TypeOK, Spent
  <2>6. CASE Reselect
    BY <2>2, <2>6 DEF Reselect, TypeOK, Spent
  <2>7. CASE FetchEnds
    BY <2>3, <2>7 DEF FetchEnds, Fetched, FetchFailed, FetchDropped, EndFetch
  <2>8. CASE PostEnds \/ PairStep \/ BeatStep
    BY <2>3, <2>8 DEF PostEnds, PairStep, BeatStep, PostAnswered, PostFailed,
       PostDropped, PairInfo, PairManifest, PairFailed, BeatInfo, BeatManifest,
       BeatFailed, BeatDropped
  <2>9. ASSUME NEW d \in Desktops, Hear(d) PROVE RevBound'
    BY <2>3, <2>9 DEF Hear, Receive
  <2> QED
    BY <2>1, <2>3, <2>4, <2>5, <2>6, <2>7, <2>8, <2>9
    DEF Next, vars, Connect, Post, Disconnect, Tick
<1> SUFFICES TypeOK'
  BY <1>2
<1>3. ASSUME NEW d \in Desktops, Change(d) PROVE TypeOK'
  <2>1. rev' \in [Desktops -> Revisions]
    <3>1. rev[d] + 1 \in Revisions
      <4>1. spent.changes < MaxRev /\ spent.changes \in Nat /\ rev[d] \in Nat
            /\ rev[d] <= spent.changes
        BY <1>3, BoundAssumption DEF Change, TypeOK, Spent, Revisions, RevBound
      <4> QED
        BY <4>1, BoundAssumption DEF Revisions
    <3> QED
      BY <3>1, <1>3 DEF Change, TypeOK
  <2> QED
    BY <1>1, <1>3, <2>1
    DEF Change, TypeOK, Spent, selection, refreshing, pairings
<1>4. ASSUME NEW d \in Desktops, Hear(d) PROVE TypeOK'
  BY <1>1, <1>4, ReceiveType DEF Hear, TypeOK
<1>5. ASSUME NEW d \in Desktops, HearDelayed(d) PROVE TypeOK'
  <2> PICK r \in 0..rev[d] : Receive(d, r)
    BY <1>5 DEF HearDelayed
  <2>1. r \in Revisions
    BY BoundAssumption DEF TypeOK, Revisions
  <2> QED
    BY <1>1, <2>1, ReceiveType
<1>6. ASSUME Reselect
      PROVE  /\ refresh' \in Call \cup {None} /\ post' \in Call \cup {None}
             /\ beat' \in Beats \cup {None}
             /\ rev' = rev /\ host' = None /\ shown' = None
             /\ pendingRev' = None /\ pendingHost' = None
             /\ heard' = FALSE /\ ticking' = FALSE
  BY <1>6, OutdatedType DEF Reselect, TypeOK, Outdated
<1>7. ASSUME NEW d \in Desktops, Connect(d) PROVE TypeOK'
  <2>1. pairing' \in Pairs
    BY <1>7, BoundAssumption DEF Connect, TypeOK, Steps, Revisions
  <2> QED
    BY <1>1, <1>6, <1>7, <2>1 DEF Connect, TypeOK
<1>8. CASE Disconnect
  BY <1>1, <1>6, <1>8 DEF Disconnect, TypeOK
<1>9. CASE FetchEnds
  <2>1. CASE Fetched
    <3>1. PICK a \in Answers(refresh, refresh.host.d) :
              EndFetch(None, [d |-> refresh.host.d, rev |-> a], "ready")
      BY <2>1 DEF Fetched
    <3>2. refresh \in Call
      BY <2>1 DEF Fetched, TypeOK
    <3>3. a \in Revisions
      BY <3>2, CallType, AnswersType
    <3> QED
      BY <1>1, <3>1, <3>2, <3>3, CallType, EndFetchType
  <2>2. CASE FetchFailed \/ FetchDropped
    <3>1. \E result \in {"ready", "error", "disconnected", "discovering", "syncing"} :
              EndFetch(pendingRev, shown, result)
      BY <2>2 DEF FetchFailed, FetchDropped, TypeOK
    <3> QED
      BY <1>1, <3>1, EndFetchType DEF TypeOK
  <2> QED
    BY <1>9, <2>1, <2>2 DEF FetchEnds
<1>10. CASE PostEnds
  <2>1. refresh' \in Call \cup {None} /\ pendingHost' \in Host \cup {None}
        /\ pendingRev' \in Revisions \cup {None}
    <3>1. CASE PostAnswered
      <4>1. host \in Host
        BY <3>1, NoneDiffers, CallType DEF PostAnswered, Current, TypeOK
      <4>2. PICK a \in Answers(post, host.d) :
                \/ /\ pendingRev' = a
                   /\ \/ refresh # None /\ pendingHost' = host /\ UNCHANGED refresh
                      \/ /\ refresh = None /\ pendingHost' = None
                         /\ refresh' = [host |-> host, current |-> TRUE,
                                        from |-> rev[host.d]]
                \/ UNCHANGED refreshing
        BY <3>1 DEF PostAnswered
      <4>3. a \in Revisions
        BY <3>1, <4>1, CallType, AnswersType DEF PostAnswered, TypeOK
      <4> QED
        BY <4>1, <4>2, <4>3, CallType DEF TypeOK, refreshing
    <3>2. CASE PostFailed \/ PostDropped
      BY <3>2 DEF PostFailed, PostDropped, refreshing, TypeOK
    <3> QED
      BY <1>10, <3>1, <3>2 DEF PostEnds
  <2> QED
    BY <1>1, <1>10, <2>1
    DEF PostEnds, PostAnswered, PostFailed, PostDropped, selection, pairings, TypeOK
<1>11. CASE PairStep
  <2>1. CASE PairInfo
    <3>1. pairing \in Pairs
      BY <2>1 DEF PairInfo, TypeOK
    <3>2. PICK r \in Answers(pairing, pairing.d) :
              /\ host' = [d |-> pairing.d, rev |-> r]
              /\ pairing' = [pairing EXCEPT !.step = "manifest", !.rev = r,
                                            !.from = rev[pairing.d]]
      BY <2>1 DEF PairInfo
    <3>3. r \in Revisions /\ rev[pairing.d] \in Revisions
      BY <3>1, AnswersType DEF TypeOK
    <3>4. host' \in Host /\ pairing' \in Pairs
      BY <3>1, <3>2, <3>3, CallType DEF Steps
    <3> QED
      BY <1>1, <2>1, <3>4 DEF PairInfo, refreshing, TypeOK
  <2>2. CASE PairManifest
    <3>1. pairing.d \in Desktops /\ pairing.rev \in Revisions
      BY <2>2 DEF PairManifest, TypeOK
    <3> QED
      BY <1>1, <2>2, <3>1, CallType DEF PairManifest, refreshing, TypeOK
  <2>3. CASE PairFailed
    BY <1>1, <2>3 DEF PairFailed, refreshing, TypeOK
  <2> QED
    BY <1>11, <2>1, <2>2, <2>3 DEF PairStep
<1>12. CASE BeatStep
  <2>1. CASE BeatInfo
    <3>1. beat \in Beats /\ host = beat.host /\ host \in Host
      BY <2>1 DEF BeatInfo, Current, TypeOK
    <3>2. PICK r \in Answers(beat, host.d) :
              IF r = host.rev
              THEN Alive /\ UNCHANGED <<host, shown>>
              ELSE /\ host' = [host EXCEPT !.rev = r]
                   /\ beat' = [beat EXCEPT !.host = [host EXCEPT !.rev = r],
                                   !.step = "manifest", !.from = rev[host.d]]
                   /\ UNCHANGED <<shown, status, heard>>
      BY <2>1 DEF BeatInfo
    <3>3. r \in Revisions /\ rev[host.d] \in Revisions
      BY <3>1, CallType, AnswersType DEF TypeOK
    <3>4. [host EXCEPT !.rev = r] \in Host
      BY <3>1, <3>3 DEF Host
    <3>5. host' \in Host /\ beat' \in Beats \cup {None}
      BY <3>1, <3>2, <3>3, <3>4 DEF Alive, Steps
    <3>6. /\ shown' = shown
          /\ status' \in {"disconnected", "discovering", "syncing", "ready", "error"}
          /\ heard' \in BOOLEAN
      BY <3>2 DEF Alive, TypeOK
    <3>7. UNCHANGED <<rev, refresh, pendingRev, pendingHost, manual, ticking, pairing,
                      chosen, post, spent>>
      BY <2>1 DEF BeatInfo, refreshing
    <3> QED
      BY <1>1, <3>5, <3>6, <3>7 DEF TypeOK
  <2>2. CASE BeatManifest
    BY <1>1, <2>2 DEF BeatManifest, Alive, refreshing, TypeOK
  <2>3. CASE BeatFailed \/ BeatDropped
    BY <1>1, <2>3 DEF BeatFailed, BeatDropped, selection, refreshing, TypeOK
  <2> QED
    BY <1>12, <2>1, <2>2, <2>3 DEF BeatStep
<1>13. CASE Expire
  BY <1>1, <1>13 DEF Expire, refreshing, pairings, TypeOK
<1>14. CASE Post \/ Tick
  <2>1. host \in Host /\ rev[host.d] \in Revisions
    BY <1>14, CallType DEF Post, Tick, TypeOK
  <2>2. CASE Post
    BY <1>1, <2>1, <2>2, CallType DEF Post, selection, refreshing, pairings, TypeOK
  <2>3. CASE Tick
    <3>1. beat' \in Beats
      BY <2>1, <2>3 DEF Tick, Steps
    <3> QED
      BY <1>1, <2>3, <3>1 DEF Tick, selection, refreshing, TypeOK
  <2> QED
    BY <1>14, <2>2, <2>3
<1>15. CASE UNCHANGED vars
  BY <1>15 DEF vars, selection, refreshing, pairings, TypeOK
<1> QED
  BY <1>3, <1>4, <1>5, <1>7, <1>8, <1>9, <1>10, <1>11, <1>12, <1>13, <1>14,
     <1>15 DEF Next

-----------------------------------------------------------------------------
(* Revisions never go back.                                                *)
LEMMA RevOnlyGrows ==
    ASSUME TypeOK, [Next]_vars
    PROVE  \A d \in Desktops : rev[d] <= rev'[d]
<1> SUFFICES ASSUME NEW d \in Desktops
             PROVE  rev[d] <= rev'[d]
  OBVIOUS
<1>1. rev[d] \in Nat
  BY BoundAssumption DEF TypeOK, Revisions
<1>2. rev'[d] \in {rev[d], rev[d] + 1}
  <2>1. ASSUME NEW c \in Desktops, Change(c) PROVE rev'[d] \in {rev[d], rev[d] + 1}
    BY <2>1 DEF Change, TypeOK
  <2> QED
    BY <2>1 DEF Next, vars, FetchEnds, PostEnds, PairStep, BeatStep, Hear,
       HearDelayed, Receive, Connect, Reselect, Fetched, FetchFailed, FetchDropped,
       EndFetch, PostAnswered, PostFailed, PostDropped, PairInfo, PairManifest,
       PairFailed, BeatInfo, BeatManifest, BeatFailed, BeatDropped, Expire, Post,
       Disconnect, Tick
<1> QED
  BY <1>1, <1>2

(* Every step keeps a pairing undisturbed.                                 *)
LEMMA PairingStep ==
    ASSUME TypeOK, Pairing, [Next]_vars
    PROVE  Pairing'
<1>1. ASSUME NEW d \in Desktops, Hear(d) \/ HearDelayed(d) PROVE Pairing'
  <2>1. ~manual /\ UNCHANGED <<manual, ticking, pairing>> /\ beat' \in {beat, Outdated(beat)}
    BY <1>1 DEF Hear, HearDelayed, Receive, Listens
  <2>2. pairing = None /\ ~ticking /\ (beat # None => ~beat.current)
    BY <2>1 DEF Pairing, Alone
  <2>3. beat' # None => ~beat'.current
    BY <2>1, <2>2 DEF Outdated, TypeOK
  <2> QED
    BY <2>1, <2>2, <2>3 DEF Pairing
<1>2. ASSUME NEW d \in Desktops, Connect(d) PROVE Pairing'
  BY <1>2 DEF Connect, Reselect, Outdated, Pairing, Alone, TypeOK
<1>3. CASE Disconnect
  BY <1>3 DEF Disconnect, Reselect, Outdated, Pairing, Alone, TypeOK
<1>4. CASE PairInfo
  <2>1. pairing \in [d : Desktops, step : Steps, rev : Revisions, from : Revisions]
    BY <1>4 DEF PairInfo, TypeOK
  <2>2. PICK r \in Answers(pairing, pairing.d) :
            /\ host' = [d |-> pairing.d, rev |-> r]
            /\ pairing' = [pairing EXCEPT !.step = "manifest", !.rev = r,
                                          !.from = rev[pairing.d]]
    BY <1>4 DEF PairInfo
  <2>3. host' = [d |-> pairing'.d, rev |-> pairing'.rev]
    BY <2>1, <2>2
  <2> QED
    BY <1>4, <2>3 DEF PairInfo, Pairing, Alone
<1>5. CASE PairManifest
  BY <1>5 DEF PairManifest, Pairing, Alone
<1>6. CASE PairFailed
  BY <1>6 DEF PairFailed, Pairing, Alone
<1>7. CASE BeatInfo
  <2>1. pairing = None /\ manual
    BY <1>7 DEF BeatInfo, Current, Pairing, Alone
  <2> QED
    BY <1>7, <2>1 DEF BeatInfo, Pairing
<1>8. CASE BeatManifest \/ BeatFailed
  BY <1>8 DEF BeatManifest, BeatFailed, Alive, Current, Pairing, Alone
<1>9. CASE BeatDropped \/ Tick
  BY <1>9 DEF BeatDropped, Tick, selection, refreshing, Pairing, Alone
<1>10. CASE Expire
  BY <1>10 DEF Expire, pairings, Pairing, Alone
<1>11. CASE FetchEnds
  BY <1>11 DEF FetchEnds, Fetched, FetchFailed, FetchDropped, EndFetch, pairings,
     Pairing, Alone
<1>12. CASE PostEnds \/ Post
  BY <1>12 DEF PostEnds, PostAnswered, PostFailed, PostDropped, Post, selection,
     pairings, Pairing, Alone
<1>13. ASSUME NEW d \in Desktops, Change(d) PROVE Pairing'
  BY <1>13 DEF Change, selection, pairings, Pairing, Alone
<1>14. CASE UNCHANGED vars
  BY <1>14 DEF vars, selection, pairings, Pairing, Alone
<1> QED
  BY <1>1, <1>2, <1>3, <1>4, <1>5, <1>6, <1>7, <1>8, <1>9, <1>10, <1>11, <1>12, <1>13,
     <1>14
  DEF Next, PairStep, BeatStep

(* No step makes a host or a call ahead of its Desktop.                    *)
LEMMA AdvertisedStep ==
    ASSUME TypeOK, RevBound, Advertised, [Next]_vars
    PROVE  Advertised'
<1>1. \A d \in Desktops : rev[d] \in Nat /\ rev'[d] \in Nat /\ rev[d] <= rev'[d]
  BY RevOnlyGrows, TypeStep, BoundAssumption DEF TypeOK, Revisions
<1>2. /\ host # None => host \in Host /\ host.rev \in Nat
      /\ refresh # None => refresh \in Call /\ refresh.host \in Host
  BY CallType, BoundAssumption DEF TypeOK, Revisions
\* The fetch of a host as last advertised.
<1>3. ASSUME NEW h \in Host, h.d \notin Plain, h.rev <= rev[h.d],
             NEW r \in {refresh, Outdated(refresh)},
             \/ refresh' = r
             \/ refresh' = [host |-> h, current |-> TRUE, from |-> rev[h.d]]
      PROVE  refresh' # None => /\ refresh'.host.rev <= refresh'.from
                                /\ refresh'.host.d \notin Plain
  BY <1>2, <1>3, OutdatedType DEF Advertised, TypeOK
<1>4. ASSUME NEW d \in Desktops, NEW r \in Revisions, r <= rev[d], Receive(d, r)
      PROVE  Advertised'
  <2> DEFINE h == [d |-> d, rev |-> r]
             f == IF host = None THEN Outdated(refresh) ELSE refresh
  <2>1. h \in Host /\ host' = h /\ rev' = rev
    BY <1>4, CallType DEF Receive
  <2>2. CASE d \notin Plain /\ Fetch(h, f)
    <3>1. h.d = d /\ h.rev = r /\ h.d \notin Plain /\ h.rev <= rev[h.d]
      BY <1>4, <2>2
    <3> HIDE DEF h
    <3>2. f \in {refresh, Outdated(refresh)}
      OBVIOUS
    <3>3. refresh' # None => /\ refresh'.host.rev <= refresh'.from
                             /\ refresh'.host.d \notin Plain
      BY <1>3, <2>1, <2>2, <3>1, <3>2 DEF Fetch
    <3>4. pendingHost' \in {None, h}
      BY <2>2 DEF Fetch
    <3> QED
      BY <2>1, <3>1, <3>3, <3>4 DEF Advertised
  <2>3. CASE refresh' = f /\ pendingHost' \in {None, pendingHost}
    <3>1. refresh' # None => /\ refresh # None
                             /\ refresh'.host = refresh.host
                             /\ refresh'.from = refresh.from
      BY <2>3, OutdatedType DEF TypeOK
    <3> QED
      BY <1>4, <2>1, <2>3, <3>1 DEF Advertised
  <2> QED
    BY <1>4, <2>2, <2>3 DEF Receive
<1>5. ASSUME NEW d \in Desktops, Hear(d) \/ HearDelayed(d) PROVE Advertised'
  <2>1. PICK r \in 0..rev[d] : Receive(d, r)
    BY <1>1, <1>5 DEF Hear, HearDelayed
  <2>2. r \in Revisions /\ r <= rev[d]
    BY BoundAssumption DEF TypeOK, Revisions
  <2> QED
    BY <1>4, <2>1, <2>2
<1>6. CASE Reselect
  BY <1>6, OutdatedType DEF Reselect, Advertised, TypeOK
<1>7. CASE FetchEnds
  <2>1. UNCHANGED <<rev, host>>
    BY <1>7 DEF FetchEnds, Fetched, FetchFailed, FetchDropped, EndFetch
  <2>2. \/ refresh' = None /\ UNCHANGED pendingHost
        \/ /\ pendingHost # None /\ pendingHost = host /\ pendingHost' = None
           /\ refresh' = [host |-> host, current |-> TRUE, from |-> rev[host.d]]
    BY <1>7 DEF FetchEnds, Fetched, FetchFailed, FetchDropped, EndFetch
  <2> QED
    BY <1>2, <2>1, <2>2 DEF Advertised
<1>8. CASE PostEnds
  <2>1. UNCHANGED <<rev, host>>
    BY <1>8 DEF PostEnds, PostAnswered, PostFailed, PostDropped, selection
  <2>2. \/ UNCHANGED <<refresh, pendingHost>>
        \/ /\ host # None /\ host.d \notin Plain
           /\ \/ UNCHANGED refresh /\ pendingHost' = host
              \/ /\ refresh' = [host |-> host, current |-> TRUE, from |-> rev[host.d]]
                 /\ pendingHost' = None
    BY <1>8, NoneDiffers, CallType
    DEF PostEnds, PostAnswered, PostFailed, PostDropped, refreshing, Current, TypeOK
  <2> QED
    BY <1>2, <2>1, <2>2 DEF Advertised
<1>9. CASE PairInfo
  <2>1. PICK r \in Answers(pairing, pairing.d) : host' = [d |-> pairing.d, rev |-> r]
    BY <1>9 DEF PairInfo
  <2>2. r <= rev[pairing.d]
    BY <1>9, AnswersType DEF PairInfo, TypeOK
  <2> QED
    BY <1>9, <2>1, <2>2 DEF PairInfo, refreshing, Advertised
<1>10. CASE BeatInfo
  <2>1. beat \in [host : Host, current : BOOLEAN, step : Steps, from : Revisions]
        /\ host = beat.host
    BY <1>10 DEF BeatInfo, Current, TypeOK
  <2>2. PICK r \in Answers(beat, host.d) : host' \in {host, [host EXCEPT !.rev = r]}
    BY <1>10 DEF BeatInfo
  <2>3. r <= rev[host.d]
    BY <2>1, CallType, AnswersType
  <2>4. host' = host \/ (host'.d = host.d /\ host'.rev = r)
    BY <2>1, <2>2 DEF Host
  <2> QED
    BY <1>2, <1>10, <2>1, <2>3, <2>4 DEF BeatInfo, refreshing, Advertised
<1>11. CASE PairManifest \/ PairFailed \/ BeatManifest \/ BeatFailed \/ BeatDropped
            \/ Expire \/ Post \/ Tick
  BY <1>11 DEF PairManifest, PairFailed, BeatManifest, BeatFailed, BeatDropped, Expire,
     Post, Tick, selection, refreshing, Advertised
<1>12. ASSUME NEW d \in Desktops, Change(d) PROVE Advertised'
  <2>1. UNCHANGED <<host, refresh, pendingHost>>
    BY <1>12 DEF Change, selection, refreshing
  <2>2. host # None => rev[host.d] <= rev'[host.d] /\ rev[host.d] \in Nat
                       /\ rev'[host.d] \in Nat /\ host.rev <= rev[host.d]
    BY <1>1, <1>2, CallType DEF Advertised
  <2>3. host # None => host.rev <= rev'[host.d]
    BY <1>2, <2>2
  <2> QED
    BY <2>1, <2>3 DEF Advertised
<1>13. CASE UNCHANGED vars
  BY <1>13 DEF vars, selection, refreshing, Advertised
<1> QED
  BY <1>5, <1>6, <1>7, <1>8, <1>9, <1>10, <1>11, <1>12, <1>13
  DEF Next, Connect, Disconnect, PairStep, BeatStep

-----------------------------------------------------------------------------
(* The steps that change what Settled reads, without a manual connection.  *)

(* A broadcast is displayed, fetched or noted.                             *)
LEMMA SettledReceive ==
    ASSUME TypeOK, Settled, NEW d \in Desktops, NEW r \in Revisions, Receive(d, r)
    PROVE  Settled'
<1> DEFINE h == [d |-> d, rev |-> r]
           f == IF host = None THEN Outdated(refresh) ELSE refresh
<1>1. h \in Host /\ h # None /\ host' = h /\ h.d = d /\ h.rev = r /\ r # None
  BY CallType, NoneDiffers DEF Receive
<1>2. host # None => host.d = d
  BY DEF Receive, Listens
<1>3. CASE d \notin Plain /\ (host = None \/ host.rev # r \/ shown = None)
  <2>1. pendingRev' = r /\ shown' = shown /\ Fetch(h, f)
    BY <1>3 DEF Receive
  <2>2. shown # None => shown.d = d
    BY <1>2 DEF Settled
  <2> HIDE DEF h
  <2>3. CASE f = None
    <3>1. refresh' # None /\ Current(refresh)'
      BY <1>1, <2>1, <2>3, NoneDiffers, CallType DEF Fetch, Current, TypeOK
    <3> QED
      BY <1>1, <1>3, <2>1, <2>2, <3>1 DEF Settled
  <2>4. CASE f # None
    <3>1. refresh' = f /\ pendingHost' = h
      BY <2>1, <2>4 DEF Fetch
    <3>2. Fresh' \/ Noted'
      BY <1>1, <2>1, <3>1, BoundAssumption DEF Fresh, Noted, Revisions
    <3> QED
      BY <1>1, <1>3, <2>1, <2>2, <2>4, <3>1, <3>2 DEF Settled
  <2> QED
    BY <2>3, <2>4
<1>4. CASE d \notin Plain /\ host # None /\ host.rev = r /\ shown # None
  <2>1. host \in Host
    BY <1>4 DEF TypeOK
  <2>2. host' = host
    BY <1>1, <1>2, <1>4, <2>1 DEF Host
  <2>3. UNCHANGED <<refresh, pendingRev, pendingHost, shown>>
    BY <1>4 DEF Receive
  <2> QED
    BY <2>2, <2>3 DEF Settled, Fresh, Noted, Current
<1>5. CASE d \in Plain
  <2>1. shown' = None
    BY <1>5 DEF Receive
  <2> QED
    BY <1>1, <1>5, <2>1 DEF Settled
<1> QED
  BY <1>3, <1>4, <1>5

(* The end of a fetch displays what was heard, or fetches it.              *)
LEMMA SettledFetch ==
    ASSUME TypeOK, Advertised, Settled, Fetched \/ FetchDropped
    PROVE  Settled'
<1>1. UNCHANGED <<rev, host>>
  BY DEF Fetched, FetchDropped, EndFetch
<1>2. CASE Fetched
  <2>1. PICK a \in Answers(refresh, refresh.host.d) :
            EndFetch(None, [d |-> refresh.host.d, rev |-> a], "ready")
    BY <1>2 DEF Fetched
  <2>2. /\ refresh \in Call /\ refresh # None /\ host = refresh.host
        /\ host \in Host /\ host # None /\ host.d \notin Plain
        /\ host.rev <= refresh.from
    BY <1>2, CallType, NoneDiffers DEF Fetched, Current, TypeOK, Advertised
  <2>3. a \in Revisions /\ refresh.from \in Revisions /\ refresh.from <= a
    BY <2>2, CallType, AnswersType
  <2>4. shown' = [d |-> host.d, rev |-> a]
    BY <2>1, <2>2 DEF EndFetch
  <2>5. shown' # None /\ shown'.d = host.d /\ shown'.rev = a
    BY <2>2, <2>3, <2>4, CallType, NoneDiffers
  <2>6. host.rev <= a
    BY <2>2, <2>3, CallType, BoundAssumption DEF Revisions
  <2> QED
    BY <1>1, <2>2, <2>5, <2>6 DEF Settled, Fresh
<1>3. CASE FetchDropped
  <2>1. refresh # None /\ ~Current(refresh) /\ EndFetch(pendingRev, shown, status)
    BY <1>3 DEF FetchDropped
  <2>2. UNCHANGED <<shown, pendingRev>>
    BY <2>1 DEF EndFetch
  <2>3. CASE host = None
    BY <1>1, <2>2, <2>3 DEF Settled
  <2>4. CASE host # None /\ host.d \in Plain
    BY <1>1, <2>2, <2>4 DEF Settled
  <2>5. CASE host # None /\ Fresh
    BY <1>1, <2>2, <2>5 DEF Settled, Fresh
  <2>6. CASE host # None /\ host.d \notin Plain /\ ~Fresh
    <3>1. Noted
      BY <2>1, <2>6 DEF Settled
    <3>2. refresh' = [host |-> host, current |-> TRUE, from |-> rev[host.d]]
      BY <2>1, <2>6, <3>1 DEF EndFetch, Noted
    <3>3. refresh' # None /\ Current(refresh)'
      BY <1>1, <2>6, <3>2, NoneDiffers, CallType DEF Current, TypeOK
    <3> QED
      BY <1>1, <2>2, <2>6, <3>3 DEF Settled
  <2> QED
    BY <2>3, <2>4, <2>5, <2>6
<1> QED
  BY <1>2, <1>3

(* The answer of an action leaves the selection settled.                   *)
LEMMA SettledAnswer ==
    ASSUME TypeOK, Settled, PostAnswered
    PROVE  Settled'
<1>1. host # None /\ UNCHANGED <<rev, host, shown>>
  BY NoneDiffers, CallType DEF PostAnswered, Current, TypeOK
<1>2. CASE UNCHANGED refreshing
  BY <1>1, <1>2 DEF refreshing, Settled, Fresh, Noted, Current
<1>3. ASSUME NEW a \in Answers(post, host.d), shown = None \/ a # shown.rev,
             pendingRev' = a, refresh # None, pendingHost' = host, UNCHANGED refresh
      PROVE  Settled'
  <2>1. a # None
    BY <1>1, <1>3, CallType, AnswersType, NoneDiffers DEF PostAnswered, TypeOK
  <2> QED
    BY <1>1, <1>3, <2>1 DEF Settled, Fresh, Noted, Current
<1>4. ASSUME refresh = None, refresh' = [host |-> host, current |-> TRUE,
                                        from |-> rev[host.d]]
      PROVE  Settled'
  <2>1. refresh' # None /\ Current(refresh)'
    BY <1>1, <1>4, NoneDiffers, CallType DEF Current, TypeOK
  <2> QED
    BY <1>1, <2>1 DEF Settled
<1> QED
  BY <1>2, <1>3, <1>4 DEF PostAnswered

(* Every step of undisturbed discovery leaves it settled.                  *)
LEMMA SettledStep ==
    ASSUME LinkInv, [Next]_vars, Undisturbed', ~manual'
    PROVE  Settled'
<1>1. Undisturbed
  <2>1. spent \in Spent /\ spent' \in Spent
    BY TypeStep DEF LinkInv, TypeOK
  <2>2. spent.failures \in Nat /\ spent.expiries \in Nat
    BY <2>1, BoundAssumption DEF Spent
  <2>3. spent'.failures = spent.failures \/ spent'.failures = spent.failures + 1
    BY <2>1 DEF Next, vars, FetchEnds, PostEnds, PairStep, BeatStep, Hear,
       HearDelayed, Connect, Reselect, Fail, Spent, Fetched, FetchFailed,
       FetchDropped, PostAnswered, PostFailed, PostDropped, PairInfo, PairManifest,
       PairFailed, BeatInfo, BeatManifest, BeatFailed, BeatDropped, Expire, Post,
       Disconnect, Tick, Change
  <2>4. spent'.expiries = spent.expiries \/ spent'.expiries = spent.expiries + 1
    BY <2>1 DEF Next, vars, FetchEnds, PostEnds, PairStep, BeatStep, Hear,
       HearDelayed, Connect, Reselect, Fail, Spent, Fetched, FetchFailed,
       FetchDropped, PostAnswered, PostFailed, PostDropped, PairInfo, PairManifest,
       PairFailed, BeatInfo, BeatManifest, BeatFailed, BeatDropped, Expire, Post,
       Disconnect, Tick, Change
  <2> QED
    BY <2>2, <2>3, <2>4 DEF Undisturbed
<1>2. ~Fail /\ ~Expire
  <2>1. spent \in Spent
    BY DEF LinkInv, TypeOK
  <2>2. Fail \/ Expire => ~Undisturbed'
    BY <1>1, <2>1 DEF Fail, Expire, Undisturbed, Spent
  <2> QED
    BY <2>2
<1>3. CASE Disconnect
  BY <1>3 DEF Disconnect, Reselect, Settled
<1>4. CASE ~Disconnect
  <2>1. ~manual
    BY <1>4 DEF Next, vars, pairings, FetchEnds, PostEnds, PairStep, BeatStep, Hear,
       HearDelayed, Receive, Connect, Reselect, Fetched, FetchFailed,
       FetchDropped, EndFetch, PostAnswered, PostFailed, PostDropped, PairInfo,
       PairManifest, PairFailed, BeatInfo, BeatManifest, BeatFailed, BeatDropped,
       Expire, Post, Tick, Change
  <2>2. Settled /\ TypeOK /\ Advertised
    BY <1>1, <2>1 DEF LinkInv
  <2>3. ~PairStep
    BY <2>1 DEF LinkInv, Pairing, Alone, PairStep, PairInfo, PairManifest, PairFailed
  <2>4. ~BeatInfo /\ ~BeatManifest /\ ~BeatFailed /\ ~Tick
    BY <2>1 DEF LinkInv, Pairing, Alone, BeatInfo, BeatManifest, BeatFailed, Tick,
       Current
  <2>5. ASSUME NEW d \in Desktops, Hear(d) \/ HearDelayed(d) PROVE Settled'
    <3>1. PICK r \in 0..rev[d] : Receive(d, r)
      BY <2>2, <2>5, BoundAssumption DEF Hear, HearDelayed, TypeOK, Revisions
    <3>2. r \in Revisions
      BY <2>2, BoundAssumption DEF TypeOK, Revisions
    <3> QED
      BY <2>2, <3>1, <3>2, SettledReceive
  <2>6. CASE Fetched \/ FetchDropped \/ PostAnswered
    BY <2>2, <2>6, SettledFetch, SettledAnswer
  <2>7. CASE PostDropped \/ Post \/ BeatDropped \/ UNCHANGED vars
    <3>1. UNCHANGED <<host, shown, refresh, pendingRev, pendingHost>>
      BY <2>7 DEF PostDropped, Post, BeatDropped, vars, selection, refreshing
    <3> QED
      BY <2>2, <3>1 DEF Settled, Fresh, Noted, Current
  <2>8. ASSUME NEW d \in Desktops, Change(d) PROVE Settled'
    <3>1. UNCHANGED <<host, shown, refresh, pendingRev, pendingHost>>
      BY <2>8 DEF Change, selection, refreshing
    <3> QED
      BY <2>2, <3>1 DEF Settled, Fresh, Noted, Current
  <2>9. ASSUME NEW d \in Desktops PROVE ~Connect(d)
    BY DEF Connect
  <2>10. ~FetchFailed /\ ~PostFailed
    BY <1>2 DEF FetchFailed, PostFailed
  <2> QED
    BY <1>2, <1>4, <2>3, <2>4, <2>5, <2>6, <2>7, <2>8, <2>9, <2>10
    DEF Next, FetchEnds, PostEnds, BeatStep
<1> QED
  BY <1>3, <1>4

-----------------------------------------------------------------------------
(***************************************************************************)
(* The invariant holds in every behaviour.                                 *)
(***************************************************************************)
THEOREM LinkInvariance == Spec => []LinkInv
<1>1. LinkInv /\ [Next]_vars => LinkInv'
  BY TypeStep, AdvertisedStep, PairingStep, SettledStep DEF LinkInv
<1> QED
  BY Initially, <1>1, PTL DEF Spec

(***************************************************************************)
(* No fetch is forgotten: discovery at rest displays the selected          *)
(* Desktop's manifest, as new as its last broadcast (AtRestIsFresh).       *)
(***************************************************************************)
THEOREM AtRest == Spec => []AtRestIsFresh
<1>1. LinkInv => AtRestIsFresh
  BY DEF LinkInv, AtRestIsFresh, Settled, Fresh
<1> QED
  BY LinkInvariance, <1>1, PTL

(***************************************************************************)
(* No answer outlives its selection: only the selected Desktop's manifest  *)
(* comes to be displayed (ManifestOfSelected).                             *)
(***************************************************************************)
THEOREM OnlyTheSelected == Spec => ManifestOfSelected
<1> DEFINE Arrives == shown' \notin {shown, None} => host' # None /\ shown'.d = host'.d
<1>1. LinkInv /\ [Next]_vars => [Arrives]_vars
  <2> SUFFICES ASSUME LinkInv, Next, shown' \notin {shown, None}
               PROVE  host' # None /\ shown'.d = host'.d
    BY DEF vars, selection
  <2>1. CASE Fetched
    <3>1. host = refresh.host /\ host' = host /\ refresh.host \in Host
      BY <2>1, CallType DEF Fetched, Current, EndFetch, LinkInv, TypeOK
    <3> QED
      BY <2>1, <3>1, NoneDiffers DEF Fetched, EndFetch
  <2>2. CASE PairManifest
    BY <2>2, NoneDiffers, CallType
    DEF PairManifest, LinkInv, Pairing, TypeOK
  <2>3. CASE BeatManifest
    BY <2>3, NoneDiffers DEF BeatManifest, Current
  <2>4. CASE BeatInfo
    BY <2>4 DEF BeatInfo
  <2>5. CASE ~(Fetched \/ PairManifest \/ BeatManifest \/ BeatInfo)
    BY <2>5 DEF Next, FetchEnds, PostEnds, PairStep, BeatStep, Hear,
       HearDelayed, Receive, Connect, Reselect, FetchFailed, FetchDropped, EndFetch,
       PostAnswered, PostFailed, PostDropped, PairInfo, PairFailed, BeatFailed,
       BeatDropped, Expire, Post, Disconnect, Tick, Change, selection
  <2> QED
    BY <2>1, <2>2, <2>3, <2>4, <2>5
<1> QED
  BY LinkInvariance, <1>1, PTL DEF Spec, ManifestOfSelected
=============================================================================
