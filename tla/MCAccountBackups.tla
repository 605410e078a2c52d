------------------------- MODULE MCAccountBackups -------------------------
(* Two permits for three requests of two accounts that upload a body, two    *)
(* requests that upload two, and one request with each of many bodies that   *)
(* differ from the first in one place, at a limit of one of the validators.  *)
EXTENDS AccountBackups

Id(name) == [name |-> name, len |-> 9]
Component(len) == [len |-> len, dots |-> 0, twin |-> FALSE, ragged |-> FALSE, plain |-> TRUE]
Folder == Component(15)
Leaf == [Component(11) EXCEPT !.dots = 1]
Picture(ext) == [parts |-> 3, root |-> "images", folder |-> Folder, file |-> Leaf,
                 ext |-> ext, backslashes |-> FALSE]
Content(kind) == [kind |-> kind, bytes |-> 5000, whole |-> TRUE, decodes |-> TRUE,
                  megapixels |-> 1]

Look == [type |-> "none", value |-> None, fit |-> "contain", iconSize |-> 3200,
         imageScale |-> 100, alignmentX |-> 0, alignmentY |-> 0]
ImageLook(path) == [Look EXCEPT !.type = "customImage", !.value = path]

Act(type, v) == [type |-> type, keyCode |-> None, modifiers |-> << >>, value |-> v]
Nothing == Act("none", None)
Word(w) == [kind |-> "word", word |-> w]
Number(n) == [kind |-> "number", n |-> n, plain |-> TRUE]
Pair(x, y) == [kind |-> "pair", x |-> x, y |-> y]
Payload == [kind |-> "json", object |-> TRUE, entries |-> 1, bytes |-> 40, strict |-> TRUE]
Key == [Nothing EXCEPT !.type = "keyboard", !.keyCode = [len |-> 5, wellFormed |-> TRUE]]

Button(position, action) ==
    [id |-> 9, position |-> position, label |-> 4, subtitle |-> 0, textSize |-> 1400,
     visual |-> Look, action |-> action]
Wheel == [controlType |-> "jog", modeLabel |-> 8, actions |-> [i \in 1..7 |-> Nothing]]
Profile(name) ==
    [id |-> Id(name), name |-> 7, targetApplication |-> 0, profileIcon |-> Look,
     buttons |-> <<Button(0, Key), [Button(17, Nothing) EXCEPT
                     !.visual = ImageLook(Picture("png"))]>>,
     wheel |-> Wheel]
Preferences ==
    [orientationMode |-> "auto", shortcutPlatform |-> "automatic",
     controlSurfaceLayout |-> "phone", chargingBrightnessMode |-> "fixed",
     tabletKeysPerPage |-> 40, chargingBrightness |-> 80]
Draft ==
    [settings |-> TRUE, ids |-> <<Id(1)>>, images |-> TRUE, preferences |-> Preferences,
     profiles |-> <<Profile(1), Profile(2)>>,
     files |-> {[path |-> Picture("png"), file |-> Content("png")]}]

\* Drafts with one thing changed.
WithProfile(p) == [Draft EXCEPT !.profiles[1] = p]
WithAction(a) == WithProfile([Profile(1) EXCEPT !.buttons[1].action = a])
WithWheel(a) == WithProfile([Profile(1) EXCEPT !.wheel.actions[7] = a])
WithLook(v) == WithProfile([Profile(1) EXCEPT !.buttons[1].visual = v])
WithFile(path, f) ==
    [WithProfile([Profile(1) EXCEPT !.buttons[2].visual = ImageLook(path)])
        EXCEPT !.files = {[path |-> path, file |-> f]}]
WithButton(b) == WithProfile([Profile(1) EXCEPT !.buttons[1] = b])

Each(Op(_), s) == [i \in DOMAIN s |-> Op(s[i])]
Listed(S) == LET Extend(x, s) == Append(s, x) IN FoldSet(Extend, << >>, S)
AllWords ==
    Listed(UNION {{t} \X (ServerWords[t] \cup PhoneWords[t]) : t \in DOMAIN ServerWords})
Modifiers == Listed(ServerModifiers \cup PhoneModifiers)
WordAction(w) == Act(w[1], Word(w[2]))
KeyWith(m) == [Key EXCEPT !.modifiers = <<m>>]

Actions ==
    Each(WordAction, AllWords)
    \o Each(KeyWith, Modifiers)
    \o << Act("mouseButton", Word("UP")), Act("consumerControl", None), Act("other", None),
          Act("mouseWheel", Number(127)), Act("mouseWheel", Number(-127)),
          Act("mouseWheel", Number(128)), Act("mouseWheel", [Number(5) EXCEPT !.plain = FALSE]),
          Act("mouseMove", Pair(4, 1)), Act("mouseMove", Pair(5, 1)), Act("mouseMove", Pair(1, 0)),
          Act("companion", Payload), Act("companion", None),
          Act("companion", [Payload EXCEPT !.bytes = MaxCompanionBytes]),
          Act("companion", [Payload EXCEPT !.bytes = MaxCompanionBytes + 1]),
          Act("companion", [Payload EXCEPT !.entries = 0]),
          Act("companion", [Payload EXCEPT !.object = FALSE]),
          Act("companion", [Payload EXCEPT !.strict = FALSE]),
          [Key EXCEPT !.keyCode.len = 44], [Key EXCEPT !.keyCode.len = 45],
          [Key EXCEPT !.keyCode.len = 4], [Key EXCEPT !.keyCode.wellFormed = FALSE],
          [Key EXCEPT !.value = Word("UP")], [Key EXCEPT !.keyCode = None],
          [Key EXCEPT !.modifiers = [i \in 1..8 |-> "SHIFT"]],
          [Key EXCEPT !.modifiers = [i \in 1..9 |-> "SHIFT"]],
          [Key EXCEPT !.modifiers = <<"SUPER">>],
          [Act("mouseButton", Word("LEFT")) EXCEPT !.modifiers = <<"SHIFT">>],
          [Nothing EXCEPT !.value = Word("UP")] >>

Looks ==
    << [Look EXCEPT !.type = "builtinIcon", !.fit = "centerCrop"], [Look EXCEPT !.fit = "fill"],
       [Look EXCEPT !.iconSize = 1800], [Look EXCEPT !.iconSize = 6401],
       [Look EXCEPT !.imageScale = 200], [Look EXCEPT !.imageScale = 74],
       [Look EXCEPT !.alignmentX = -100], [Look EXCEPT !.alignmentX = -101],
       [Look EXCEPT !.alignmentY = 100], [Look EXCEPT !.alignmentY = 101],
       ImageLook(None), ImageLook(Picture("jpg")) >>

Paths ==
    << [Picture("png") EXCEPT !.backslashes = TRUE], [Picture("png") EXCEPT !.parts = 4],
       [Picture("png") EXCEPT !.root = "other"], Picture("gif"),
       [Picture("png") EXCEPT !.folder.len = 80], [Picture("png") EXCEPT !.folder.len = 81],
       [Picture("png") EXCEPT !.folder.dots = 2], [Picture("png") EXCEPT !.folder.plain = FALSE],
       [Picture("png") EXCEPT !.file.dots = 2, !.file.twin = TRUE, !.file.ragged = TRUE],
       [Picture("png") EXCEPT !.file.dots = 0],
       [Picture("png") EXCEPT !.folder.len = 0],
       [Picture("png") EXCEPT !.folder = [@ EXCEPT !.len = 1, !.dots = 1, !.ragged = TRUE]] >>

Files ==
    << <<Picture("jpg"), Content("jpeg")>>, <<Picture("jpeg"), Content("jpeg")>>,
       <<Picture("webp"), Content("webp")>>, <<Picture("webp"), Content("jpeg")>>,
       <<Picture("jpg"), [Content("jpeg") EXCEPT !.whole = FALSE]>>,
       <<Picture("webp"), [Content("webp") EXCEPT !.bytes = 29]>>,
       <<Picture("png"), [Content("png") EXCEPT !.bytes = MaxImageBytes]>>,
       <<Picture("png"), [Content("png") EXCEPT !.bytes = MaxImageBytes + 1]>>,
       <<Picture("png"), [Content("png") EXCEPT !.bytes = 32, !.decodes = FALSE]>>,
       <<Picture("png"), [Content("png") EXCEPT !.decodes = FALSE]>>,
       <<Picture("png"), [Content("png") EXCEPT !.megapixels = 17]>> >>

Buttons ==
    << [Button(0, Key) EXCEPT !.position = 59], [Button(0, Key) EXCEPT !.position = 60],
       [Button(0, Key) EXCEPT !.position = -1], [Button(0, Key) EXCEPT !.position = 17],
       [Button(0, Key) EXCEPT !.id = 128], [Button(0, Key) EXCEPT !.id = 129],
       [Button(0, Key) EXCEPT !.label = 1024], [Button(0, Key) EXCEPT !.label = 1025],
       [Button(0, Key) EXCEPT !.subtitle = 1025],
       [Button(0, Key) EXCEPT !.textSize = 1000], [Button(0, Key) EXCEPT !.textSize = 2401] >>

Profiles ==
    << [Profile(1) EXCEPT !.name = 512], [Profile(1) EXCEPT !.name = 513],
       [Profile(1) EXCEPT !.targetApplication = 513],
       [Profile(1) EXCEPT !.profileIcon = ImageLook(Picture("png"))],
       [Profile(1) EXCEPT !.profileIcon.iconSize = 1799],
       [Profile(1) EXCEPT !.buttons = [i \in 1..60 |-> Button(i - 1, Nothing)]],
       [Profile(1) EXCEPT !.buttons = [i \in 1..61 |-> Button(i - 1, Nothing)]],
       [Profile(1) EXCEPT !.wheel.controlType = "mousePad", !.wheel.modeLabel = 128],
       [Profile(1) EXCEPT !.wheel.controlType = "knob"],
       [Profile(1) EXCEPT !.wheel.modeLabel = 129] >>

\* Five images of 3 MiB make 20 MiB of base64, exactly.
Gallery(n, bytes) ==
    LET path(i) == [Picture("png") EXCEPT !.file.len = 10 + i]
    IN  [WithProfile([Profile(1) EXCEPT !.buttons = [i \in 1..n |->
             [Button(i, Nothing) EXCEPT !.visual = ImageLook(path(i))]]])
         EXCEPT !.files =
             {[path |-> path(i), file |-> [Content("png") EXCEPT !.bytes = bytes]] : i \in 1..n}]

Selections ==
    << [Draft EXCEPT !.settings = FALSE], [Draft EXCEPT !.ids = << >>],
       [Draft EXCEPT !.settings = FALSE, !.ids = << >>], [Draft EXCEPT !.images = FALSE],
       [Draft EXCEPT !.ids = <<Id(2), Id(1)>>], [Draft EXCEPT !.ids = <<Id(1), Id(1)>>],
       [Draft EXCEPT !.ids = <<Id(3)>>], [Draft EXCEPT !.files = {}],
       [Draft EXCEPT !.ids = [i \in 1..4 |-> Id(i)], !.profiles = [i \in 1..4 |-> Profile(i)]],
       [Draft EXCEPT !.ids = [i \in 1..5 |-> Id(i)], !.profiles = [i \in 1..5 |-> Profile(i)]],
       [Draft EXCEPT !.ids[1].len = 129, !.profiles[1].id.len = 129],
       [Draft EXCEPT !.ids[1].len = 0, !.profiles[1].id.len = 0],
       Gallery(5, 3 * 1024 * 1024), Gallery(5, 3 * 1024 * 1024 + 1),
       [Draft EXCEPT !.preferences.tabletKeysPerPage = 24],
       [Draft EXCEPT !.preferences.chargingBrightness = 100] >>

Drafts ==
    <<Draft, [Draft EXCEPT !.ids = <<Id(2)>>]>> \o Selections
    \o Each(WithAction, Actions) \o Each(WithWheel, Actions)
    \o Each(WithLook, Looks) \o Each(WithButton, Buttons) \o Each(WithProfile, Profiles)
    \o Each(LAMBDA p : WithFile(p, Content("png")), Paths)
    \o Each(LAMBDA f : WithFile(f[1], f[2]), Files)

\* What another client may send: the same without the phone's checks, bodies
\* whose parts do not fit together, and something that is not a backup.
Known(d) == Range(d.ids) \subseteq {p.id : p \in Range(d.profiles)}
Foreign ==
    LET e == Encode(Draft)
    IN  << [e EXCEPT !.version = 2], [e EXCEPT !.settings = FALSE],
           [e EXCEPT !.preferences = None], [e EXCEPT !.ids = <<Id(2)>>],
           [e EXCEPT !.profiles = << >>], [e EXCEPT !.images = FALSE],
           [e EXCEPT !.files = @ \o @], [e EXCEPT !.files[1].path = Picture("webp")],
           [e EXCEPT !.files[1].mime = "image/webp"], [e EXCEPT !.files[1].base64 = FALSE],
           [e EXCEPT !.preferences.orientationMode = "up"],
           [e EXCEPT !.preferences.shortcutPlatform = "other"],
           [e EXCEPT !.preferences.controlSurfaceLayout = "other"],
           [e EXCEPT !.preferences.chargingBrightnessMode = "other"],
           [e EXCEPT !.preferences.tabletKeysPerPage = 61],
           [e EXCEPT !.preferences.chargingBrightness = 9] >>

Body(draft, envelope) == [draft |-> draft, envelope |-> envelope, malformed |-> FALSE]
MCBodies ==
    LET encoded == SelectSeq(Drafts, Encodable)
        foreign == SelectSeq(Drafts, LAMBDA d : Known(d) /\ ~Encodable(d))
    IN  Each(LAMBDA d : Body(d, Encode(d)), encoded)
        \o Each(LAMBDA d : Body(None, Encode(d)), foreign)
        \o Each(LAMBDA e : Body(None, e), Foreign)
        \o << [Body(None, Encode(Draft)) EXCEPT !.malformed = TRUE] >>

MCSituations ==
    {[clients |-> Requests, offered |-> {1}]}
    \cup {[clients |-> Requests \ {r}, offered |-> {1, 2}] : r \in Requests}
    \cup {[clients |-> {r}, offered |-> {b}] : r \in Requests, b \in BodyIds}

Symmetry == Permutations(Requests) \cup Permutations(Accounts)
=============================================================================
