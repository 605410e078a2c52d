---------------------------- MODULE BackupFormat ----------------------------
(***************************************************************************)
(* What a backup may contain, twice: the validator of the community server  *)
(* (community_server/src/account_backup.rs, from validate_backup on) and     *)
(* the codec of the phone (lib/data/account_backup_codec.dart), which        *)
(* encodes a configuration and decodes what the server returns.  The two are *)
(* written independently, in two languages, and must agree.                  *)
(*                                                                         *)
(* Texts are their lengths in bytes, sizes and scales are hundredths, and    *)
(* what a check reads of a string, a path or a file is a field of a record.  *)
(* JSON of another shape is the "malformed" body of AccountBackups.          *)
(***************************************************************************)
EXTENDS Integers, SequencesExt

CONSTANT None  \* an optional field that is absent

MaxImageBytes == 4 * 1024 * 1024
MaxBackupBody == 20 * 1024 * 1024
MaxCompanionBytes == 16 * 1024

Distinct(s) == \A i, j \in DOMAIN s : s[i] = s[j] => i = j

VisualTypes == {"none", "builtinIcon", "customImage"}
Fits == {"contain", "cover", "centerCrop"}
Extensions == {"png", "jpg", "jpeg", "webp"}
ActionTypes == {"keyboard", "companion", "consumerControl", "mouseWheel",
                "mouseMove", "mouseButton", "none"}
WheelTypes == {"jog", "mousePad"}

\* Part of a path: its length, its dots, whether two of them are adjacent, one
\* is at an end or followed by "_" or "-", and whether the rest is letters,
\* digits, "_" and "-".  The extension is the text after the file's last dot,
\* or all of it, in lower case.
SafeComponent(c) == c.len > 0 /\ c.plain /\ ~c.twin /\ ~(c.dots = 1 /\ c.len = 1)

-----------------------------------------------------------------------------
(* What bodies and drafts are made of. *)

\* Two adjacent dots are two dots, and a lone dot is at an end.
PathComponents ==
    {c \in [len : Nat, dots : Nat, twin : BOOLEAN, ragged : BOOLEAN, plain : BOOLEAN] :
        (c.twin => c.dots >= 2) /\ (c.len = 1 /\ c.dots = 1 => c.ragged)}
ImagePaths ==
    [parts : Nat, root : STRING, folder : PathComponents, file : PathComponents,
     ext : STRING, backslashes : BOOLEAN]
ImageFiles ==
    [kind : STRING, bytes : Nat, whole : BOOLEAN, decodes : BOOLEAN, megapixels : Nat]

WellFormedVisual(v) ==
    /\ DOMAIN v = {"type", "value", "fit", "iconSize", "imageScale", "alignmentX",
                   "alignmentY"}
    /\ v.type = "customImage" /\ v.value # None => v.value \in ImagePaths

WellFormedButton(b) ==
    /\ b # None
    /\ DOMAIN b = {"id", "position", "label", "subtitle", "textSize", "visual", "action"}
    /\ {b.id, b.label, b.subtitle} \subseteq Nat
    /\ WellFormedVisual(b.visual)

WellFormedProfile(p) ==
    /\ DOMAIN p = {"id", "name", "targetApplication", "profileIcon", "buttons", "wheel"}
    /\ {p.id.len, p.name, p.targetApplication, p.wheel.modeLabel} \subseteq Nat
    /\ WellFormedVisual(p.profileIcon)
    /\ p.buttons \in Seq(Range(p.buttons))
    /\ \A b \in Range(p.buttons) : WellFormedButton(b)

WellFormedEnvelope(e) ==
    /\ \A p \in Range(e.profiles) : WellFormedProfile(p)
    /\ \A i \in Range(e.files) : i.path \in ImagePaths /\ i.file \in ImageFiles

-----------------------------------------------------------------------------
(* The server. *)

SafeImagePath(p) ==
    /\ ~p.backslashes /\ p.parts = 3 /\ p.root = "images"
    /\ SafeComponent(p.folder) /\ SafeComponent(p.file)
    /\ p.ext \in Extensions

ValidateVisual(v) ==
    /\ v.type \in VisualTypes /\ v.fit \in Fits
    /\ v.iconSize \in 1800..6400 /\ v.imageScale \in 75..200
    /\ v.alignmentX \in -100..100 /\ v.alignmentY \in -100..100
    /\ v.type = "customImage" => v.value # None /\ SafeImagePath(v.value)

\* A value is a word, a whole number (plain: without plus sign and leading
\* zeros), a pair of numbers (by their digits) or JSON text (strict: as
\* serde_json reads it, no number too large, no half of a surrogate pair, at
\* most 127 levels).
ServerWords ==
    [consumerControl |-> {"MUTE", "VOLUME_UP", "VOLUME_DOWN", "PREVIOUS_TRACK",
         "PLAY_PAUSE", "NEXT_TRACK", "PLAY", "PAUSE", "RECORD", "STOP",
         "BRIGHTNESS_UP", "BRIGHTNESS_DOWN", "KEYBOARD_BRIGHTNESS_UP",
         "KEYBOARD_BRIGHTNESS_DOWN", "KEYBOARD_BACKLIGHT_MINIMUM",
         "KEYBOARD_BACKLIGHT_MAXIMUM"},
     mouseWheel |-> {"UP", "DOWN", "WHEEL_UP", "WHEEL_DOWN"},
     mouseMove |-> {"UP", "DOWN", "LEFT", "RIGHT"},
     mouseButton |-> {"LEFT", "PRIMARY", "RIGHT", "SECONDARY", "MIDDLE"}]
\* Mutant: a modifier was forgotten in one of the two lists.
ServerModifiersShort ==
    {"PRIMARY", "LEFT_CTRL", "LEFT_SHIFT", "LEFT_ALT", "LEFT_META", "LEFT_GUI",
     "SHIFT", "ALT", "META", "GUI", "RIGHT_CTRL", "RIGHT_SHIFT", "RIGHT_META",
     "RIGHT_GUI"}

ServerModifiers ==
    {"PRIMARY", "LEFT_CTRL", "LEFT_SHIFT", "LEFT_ALT", "LEFT_META", "LEFT_GUI",
     "SHIFT", "ALT", "META", "GUI", "RIGHT_CTRL", "RIGHT_SHIFT", "RIGHT_ALT",
     "RIGHT_META", "RIGHT_GUI"}

ValidMouseCoordinates(v) == v.kind = "pair" /\ v.x \in 1..4 /\ v.y \in 1..4

ValidateAction(a) ==
    /\ a.type \in ActionTypes
    /\ a.type # "keyboard" => a.keyCode = None /\ a.modifiers = << >>
    /\ \/ /\ a.type = "companion" /\ a.value # None /\ a.value.kind = "json"
          /\ a.value.bytes <= MaxCompanionBytes
          /\ a.value.strict /\ a.value.object /\ a.value.entries > 0
       \/ /\ a.type = "keyboard" /\ a.value = None /\ a.keyCode # None
          /\ a.keyCode.len \in 5..44 /\ a.keyCode.wellFormed
       \/ /\ a.type \in DOMAIN ServerWords /\ a.value # None
          /\ \/ a.value.kind = "word" /\ a.value.word \in ServerWords[a.type]
             \/ /\ a.type = "mouseWheel" /\ a.value.kind = "number"
                /\ a.value.n \in -127..127
             \/ a.type = "mouseMove" /\ ValidMouseCoordinates(a.value)
       \/ a.type = "none" /\ a.value = None /\ a.keyCode = None
    /\ Len(a.modifiers) <= 8 /\ Range(a.modifiers) \subseteq ServerModifiers

\* Mutant: the actions of the wheel are not looked at.
ValidateWheelKind(w) == w.controlType \in WheelTypes /\ w.modeLabel <= 128

\* The seven actions of a wheel, in the order of the fields.
ValidateWheel(w) ==
    /\ w.controlType \in WheelTypes /\ w.modeLabel <= 128
    /\ \A i \in DOMAIN w.actions : ValidateAction(w.actions[i])

ValidateButton(b) ==
    /\ b.position \in 0..59
    /\ b.id <= 128 /\ b.label <= 1024 /\ b.subtitle <= 1024
    /\ b.textSize \in 1000..2400
    /\ ValidateVisual(b.visual) /\ ValidateAction(b.action)

ValidateProfile(p) ==
    /\ p.name <= 512 /\ p.targetApplication <= 512
    /\ ValidateVisual(p.profileIcon)
    /\ Len(p.buttons) <= 60
    /\ Distinct([i \in DOMAIN p.buttons |-> p.buttons[i].position])
    /\ \A i \in DOMAIN p.buttons : ValidateButton(p.buttons[i])
    /\ ValidateWheel(p.wheel)

ValidatePreferences(f) ==
    /\ f.orientationMode \in {"auto", "portrait", "landscape"}
    /\ f.shortcutPlatform \in {"automatic", "apple", "windowsLinux"}
    /\ f.controlSurfaceLayout \in {"automatic", "phone", "shortcutBoard"}
    /\ f.chargingBrightnessMode \in {"fixed", "dynamic"}
    /\ f.tabletKeysPerPage \in 24..60 /\ f.chargingBrightness \in 10..100

VisualsOf(p) == {p.profileIcon} \cup {p.buttons[i].visual : i \in DOMAIN p.buttons}

\* The images that the profiles refer to (collect_image_ref).
CollectImageRefs(profiles) ==
    {v.value : v \in {u \in UNION {VisualsOf(p) : p \in Range(profiles)} :
                         u.type = "customImage"}} \ {None}

\* whole: a PNG with its IHDR and dimensions, a JPEG that ends with its end
\* marker, a WebP of the size that it states.
Shortest == [png |-> 33, jpeg |-> 4, webp |-> 30]
ValidImageSignature(i) ==
    /\ \/ i.mime = "image/png" /\ i.path.ext = "png" /\ i.file.kind = "png"
       \/ i.mime = "image/jpeg" /\ i.path.ext \in {"jpg", "jpeg"} /\ i.file.kind = "jpeg"
       \/ i.mime = "image/webp" /\ i.path.ext = "webp" /\ i.file.kind = "webp"
    /\ i.path.file.dots > 0
    /\ i.file.whole /\ i.file.bytes >= Shortest[i.file.kind]

ValidateImages(e) ==
    /\ ~e.images => e.files = << >>
    /\ Len(e.files) <= 244
    /\ Distinct([i \in DOMAIN e.files |-> e.files[i].path])
    /\ \A i \in Range(e.files) :
          /\ SafeImagePath(i.path) /\ i.path \in CollectImageRefs(e.profiles)
          /\ i.base64 /\ i.file.bytes <= MaxImageBytes /\ ValidImageSignature(i)

ValidateBackup(e) ==
    /\ e.version = 1
    /\ Len(e.ids) <= 4 /\ (e.settings \/ e.ids # << >>)
    /\ \A i \in DOMAIN e.ids : e.ids[i].len \in 1..128
    /\ Distinct(e.ids)
    /\ e.settings <=> e.preferences # None
    /\ [i \in DOMAIN e.profiles |-> e.profiles[i].id] = e.ids
    /\ \A p \in Range(e.profiles) : ValidateProfile(p)
    /\ e.preferences # None => ValidatePreferences(e.preferences)
    /\ ValidateImages(e)

-----------------------------------------------------------------------------
(* The phone. *)

PathLength(p) == 6 + 1 + p.folder.len + 1 + p.file.len

ReadableComponent(c) == c.len \in 1..80 /\ c.plain /\ c.dots <= 1 /\ ~c.ragged

PathReadable(p) ==
    /\ ~p.backslashes /\ p.parts = 3 /\ p.root = "images"
    /\ ReadableComponent(p.folder) /\ ReadableComponent(p.file)
    /\ p.file.dots = 1 /\ p.ext \in Extensions
    /\ PathLength(p) <= 200

VisualReadable(v) ==
    /\ v.type \in VisualTypes /\ v.fit \in Fits
    /\ v.type = "customImage" /\ v.value # None => PathReadable(v.value)

PhoneWords ==
    [consumerControl |-> {"BRIGHTNESS_UP", "BRIGHTNESS_DOWN",
         "KEYBOARD_BRIGHTNESS_UP", "KEYBOARD_BRIGHTNESS_DOWN",
         "KEYBOARD_BACKLIGHT_MINIMUM", "KEYBOARD_BACKLIGHT_MAXIMUM", "PLAY",
         "PAUSE", "RECORD", "NEXT_TRACK", "PREVIOUS_TRACK", "STOP",
         "PLAY_PAUSE", "MUTE", "VOLUME_UP", "VOLUME_DOWN"},
     mouseMove |-> {"UP", "DOWN", "LEFT", "RIGHT"},
     mouseWheel |-> {"UP", "DOWN", "WHEEL_UP", "WHEEL_DOWN"},
     mouseButton |-> {"LEFT", "PRIMARY", "RIGHT", "SECONDARY", "MIDDLE"}]
PhoneModifiers ==
    {"PRIMARY", "LEFT_CTRL", "RIGHT_CTRL", "LEFT_SHIFT", "RIGHT_SHIFT", "SHIFT",
     "ALT", "LEFT_ALT", "RIGHT_ALT", "META", "LEFT_META", "RIGHT_META", "GUI",
     "LEFT_GUI", "RIGHT_GUI"}

PayloadReadable(v) ==
    /\ v # None /\ v.kind = "json" /\ v.object /\ v.entries > 0
    /\ v.bytes <= MaxCompanionBytes

ActionReadable(a) ==
    /\ a.type \in ActionTypes /\ Len(a.modifiers) <= 8
    /\ a.type # "keyboard" => a.keyCode = None /\ a.modifiers = << >>
    /\ \/ a.type = "companion" /\ PayloadReadable(a.value)
       \/ /\ a.type = "keyboard" /\ a.value = None /\ a.keyCode # None
          /\ a.keyCode.len \in 5..44 /\ a.keyCode.wellFormed
          /\ Range(a.modifiers) \subseteq PhoneModifiers
       \/ /\ a.type \in DOMAIN PhoneWords /\ a.value # None
          /\ \/ a.value.kind = "word" /\ a.value.word \in PhoneWords[a.type]
             \/ /\ a.type = "mouseWheel" /\ a.value.kind = "number"
                /\ a.value.n \in -127..127 /\ a.value.plain
             \/ /\ a.type = "mouseMove" /\ a.value.kind = "pair"
                /\ a.value.x \in 1..4 /\ a.value.y \in 1..4
       \/ a.type = "none" /\ a.value = None

ProfileReadable(p) ==
    /\ p.id.len > 0
    /\ Len(p.buttons) <= 60
    /\ Distinct([i \in DOMAIN p.buttons |-> p.buttons[i].position])
    /\ \A i \in DOMAIN p.buttons : p.buttons[i].position \in 0..59
    /\ \A v \in VisualsOf(p) : VisualReadable(v)
    /\ \A i \in DOMAIN p.buttons : ActionReadable(p.buttons[i].action)
    /\ p.wheel.controlType \in WheelTypes
    /\ \A i \in DOMAIN p.wheel.actions : ActionReadable(p.wheel.actions[i])

PreferencesReadable(f) ==
    /\ f.orientationMode \in {"auto", "portrait", "landscape"}
    /\ f.shortcutPlatform \in {"automatic", "apple", "windowsLinux"}
    /\ f.controlSurfaceLayout \in {"automatic", "phone", "shortcutBoard"}
    /\ f.chargingBrightnessMode \in {"fixed", "dynamic"}
    /\ f.tabletKeysPerPage \in 24..60 /\ f.chargingBrightness \in 10..100

MimeFor(p) ==
    CASE p.ext = "png" -> "image/png"
      [] p.ext \in {"jpg", "jpeg"} -> "image/jpeg"
      [] OTHER -> "image/webp"

FileReadable(p, f) ==
    /\ f.bytes \in 1..MaxImageBytes
    /\ f.kind = (IF p.ext = "jpg" THEN "jpeg" ELSE p.ext)
    /\ f.decodes /\ f.megapixels <= 16

\* A body is as long as its images in base64; the text around them is left out.
BodyBytes(e) ==
    LET Base64(i) == 4 * ((e.files[i].file.bytes + 2) \div 3)
    IN  MapThenSumSet(Base64, DOMAIN e.files)

CollectImagePaths(profiles) ==
    UNION {{v.value : v \in {u \in VisualsOf(p) :
               u.type = "customImage" /\ u.value # None}} : p \in Range(profiles)}

Normalized(path) == [path EXCEPT !.backslashes = FALSE]
NormalizedVisual(v) ==
    IF v.type = "customImage" /\ v.value # None
    THEN [v EXCEPT !.value = Normalized(v.value)] ELSE v
NormalizeImagePaths(p) ==
    [p EXCEPT !.profileIcon = NormalizedVisual(@),
              !.buttons = [i \in DOMAIN @ |->
                  [@[i] EXCEPT !.visual = NormalizedVisual(@)]]]

\* A draft is the configuration that the phone has and what its user selects
\* of it; files are the images that the phone could read, each with its path.
SelectedProfiles(d) ==
    [i \in DOMAIN d.ids |->
        NormalizeImagePaths(CHOOSE p \in Range(d.profiles) : p.id = d.ids[i])]
NormalizedFiles(d) == {[f EXCEPT !.path = Normalized(@)] : f \in d.files}
EncodedImage(f) ==
    [path |-> f.path, mime |-> MimeFor(f.path), base64 |-> TRUE, file |-> f.file]

\* The preferences keep their ranges wherever they are set, and a path, however
\* it is written, is that of one file.
WellFormedDraft(d) ==
    /\ d.ids \in Seq(Range(d.ids))
    /\ \A p \in Range(d.profiles) : WellFormedProfile(p)
    /\ d.preferences # None /\ PreferencesReadable(d.preferences)
    /\ IsFiniteSet(d.files) /\ d.files \subseteq [path : ImagePaths, file : ImageFiles]
    /\ \A f, g \in d.files : Normalized(f.path) = Normalized(g.path) => f.file = g.file

\* The images that the selected profiles refer to.
ReferencedFiles(d) ==
    {f \in NormalizedFiles(d) : f.path \in CollectImagePaths(SelectedProfiles(d))}

\* The images are sent in some order, that of a map.
Encode(d) ==
    LET files == SetToSeq(ReferencedFiles(d))
    IN  [version |-> 1, settings |-> d.settings, ids |-> d.ids, images |-> d.images,
         preferences |-> IF d.settings THEN d.preferences ELSE None,
         profiles |-> SelectedProfiles(d),
         files |-> IF d.images
                   THEN [i \in DOMAIN files |-> EncodedImage(files[i])] ELSE << >>]

Encodable(d) ==
    /\ d.settings \/ d.ids # << >>
    /\ Len(d.ids) <= 4 /\ Distinct(d.ids)
    /\ Range(d.ids) \subseteq {p.id : p \in Range(d.profiles)}
    /\ LET e == Encode(d)
           referenced == CollectImagePaths(e.profiles)
       IN  /\ \A p \in Range(e.profiles) : ProfileReadable(p)
           /\ \A p \in referenced : PathReadable(p)
           /\ d.images =>
                 /\ Cardinality(NormalizedFiles(d)) <= 244
                 /\ \A f \in Range(e.files) : FileReadable(f.path, f.file)
                 /\ referenced = {f.path : f \in Range(e.files)}
           /\ BodyBytes(e) <= MaxBackupBody

\* decode accepts what the server returns.
Readable(e) ==
    /\ e.version = 1 /\ BodyBytes(e) <= MaxBackupBody
    /\ Len(e.ids) <= 4 /\ Distinct(e.ids) /\ (e.settings \/ e.ids # << >>)
    /\ e.settings <=> e.preferences # None
    /\ e.preferences # None => PreferencesReadable(e.preferences)
    /\ [i \in DOMAIN e.profiles |-> e.profiles[i].id] = e.ids
    /\ \A p \in Range(e.profiles) : ProfileReadable(p)
    /\ Len(e.files) <= 244 /\ (~e.images => e.files = << >>)
    /\ \A i \in Range(e.files) :
          /\ PathReadable(i.path) /\ i.mime = MimeFor(i.path)
          /\ i.base64 /\ FileReadable(i.path, i.file)
          /\ i.path \in CollectImagePaths(e.profiles)
    /\ Distinct([i \in DOMAIN e.files |-> e.files[i].path])

\* Mutant: the last position is lost.
ButtonsFromJsonShort(buttons) ==
    LET positions == {b.position : b \in Range(buttons)}
    IN  [q \in 0..(Max(positions \cup {14}) - 1) |->
            IF q \in positions
            THEN CHOOSE b \in Range(buttons) : b.position = q ELSE None]

\* ProfileConfig.fromJson: the buttons of the positions from 0 to the last one
\* in use, at least 15 of them; None is ButtonConfig.empty.
ButtonsFromJson(buttons) ==
    LET positions == {b.position : b \in Range(buttons)}
    IN  [q \in 0..Max(positions \cup {14}) |->
            IF q \in positions
            THEN CHOOSE b \in Range(buttons) : b.position = q ELSE None]

\* What decode returns.
Decoded(e) ==
    [settings |-> e.settings, ids |-> e.ids, images |-> e.images,
     preferences |-> e.preferences,
     profiles |-> [i \in DOMAIN e.profiles |->
         [e.profiles[i] EXCEPT !.buttons = ButtonsFromJson(@)]],
     files |-> {[path |-> i.path, file |-> i.file] : i \in Range(e.files)}]
=============================================================================
