--------------------------- MODULE AccountBackups ---------------------------
(***************************************************************************)
(* The backup of an account on the community server, from the moment that   *)
(* the guard has verified the sender's token (AccountAccess): the permits,   *)
(* the upload, the validation off the event loop, the statement on           *)
(* account_backups and the answer (community_server/src/account_backup.rs).  *)
(* A client may go away at any moment, and the server then drops the         *)
(* request; a statement that was on its way may still run, later.            *)
(***************************************************************************)
EXTENDS BackupFormat, FiniteSets

CONSTANTS Accounts,    \* verified Google subjects
          Requests,    \* requests that may be in progress together
          Slots,       \* permits for backups in progress (8)
          Bodies,      \* sequence of what clients may upload
          Situations,  \* [clients, offered]: requests in use, indexes in Bodies
          MaxLate      \* bound: statements of dropped requests under way

BodyIds == DOMAIN Bodies
Replies == {"ok", "not_found", "busy", "too_large", "invalid", "server_error"}

ASSUME BackupsAssumption ==
    /\ Slots \in Nat \ {0} /\ MaxLate \in Nat
    /\ None \notin BodyIds \cup Accounts /\ None \notin Replies
    /\ \A s \in Situations : s.clients \subseteq Requests /\ s.offered \subseteq BodyIds

\* A body is an envelope, or else malformed; a phone has encoded it from its
\* draft, or it has none and comes from elsewhere.
ASSUME BodiesAssumption ==
    \A b \in BodyIds :
        LET body == Bodies[b]
        IN  /\ WellFormedEnvelope(body.envelope)
            /\ body.draft # None =>
                  /\ WellFormedDraft(body.draft) /\ Encodable(body.draft)
                  /\ body.envelope = Encode(body.draft) /\ ~body.malformed

VARIABLES situation,  \* which requests and bodies this behaviour has
          permits,    \* backup_slots: the permits that are left
          rows,       \* account_backups: account -> index in Bodies, or None
          pc,         \* request -> "idle", "upload", "decode", "query", "done"
          who,        \* request -> its account
          method,     \* request -> "GET", "PUT" or "DELETE"
          value,      \* request -> what it stores, or what it has read
          late,       \* statements that outlive their request
          reply,      \* the answer of the last step, or None
          maybe,      \* history: account -> the values that the answers so far
                      \* allow its row to have
          rivals      \* history: request -> the values that its account may
                      \* take besides, while it is in progress

requestVars == <<who, method, value>>
vars == <<situation, permits, rows, pc, requestVars, late, reply, maybe, rivals>>

Values == BodyIds \cup {None}

Init ==
    /\ situation \in Situations
    /\ permits = Slots
    /\ rows = [a \in Accounts |-> None]
    /\ pc = [r \in Requests |-> "idle"]
    /\ who = [r \in Requests |-> None]
    /\ method = [r \in Requests |-> "GET"]
    /\ value = [r \in Requests |-> None]
    /\ late = {} /\ reply = None
    /\ maybe = [a \in Accounts |-> {None}]
    /\ rivals = [r \in Requests |-> {}]

Writes(r) == method[r] # "GET"

\* Requests whose statement may still change the row of account a, or has.
WritersOf(a) ==
    {r \in Requests : pc[r] \in {"query", "done"} /\ Writes(r) /\ who[r] = a}
Unanswered(a) ==
    {value[r] : r \in WritersOf(a)} \cup {s.value : s \in {t \in late : t.account = a}}

\* The statement of request r, for value v, goes to the database: whoever is
\* in progress on the account may see v from here on.
Send(r, a, v, write) ==
    /\ maybe' = IF write THEN [maybe EXCEPT ![a] = @ \cup {v}] ELSE maybe
    /\ rivals' = [q \in Requests |->
           IF q = r THEN (IF write THEN Unanswered(a) ELSE maybe[a])
           ELSE IF write /\ who[q] = a /\ pc[q] \in {"query", "done"}
           THEN rivals[q] \cup {v} ELSE rivals[q]]

\* The request is over.
Forget(r) ==
    /\ pc' = [pc EXCEPT ![r] = "idle"]
    /\ who' = [who EXCEPT ![r] = None]
    /\ method' = [method EXCEPT ![r] = "GET"]
    /\ value' = [value EXCEPT ![r] = None]
    /\ rivals' = [rivals EXCEPT ![r] = {}]

\* It is over, and its permit is free again.
Release(r) == Forget(r) /\ permits' = permits + 1

Refuse(r, status) ==
    /\ Release(r)
    /\ reply' = status
    /\ UNCHANGED <<situation, rows, late, maybe>>

\* guard: all the permits are in use.
Busy(r) ==
    /\ pc[r] = "idle" /\ r \in situation.clients /\ permits = 0
    /\ reply' = "busy"
    /\ UNCHANGED <<situation, permits, rows, pc, requestVars, late, maybe, rivals>>

Enter(r, a, m) ==
    /\ pc[r] = "idle" /\ r \in situation.clients /\ permits > 0
    /\ permits' = permits - 1
    /\ who' = [who EXCEPT ![r] = a]
    /\ method' = [method EXCEPT ![r] = m]
    /\ reply' = None

\* guard, then get or delete, which send their statement at once.
BeginQuery(r, a, m) ==
    /\ Enter(r, a, m) /\ m \in {"GET", "DELETE"}
    /\ pc' = [pc EXCEPT ![r] = "query"]
    /\ value' = [value EXCEPT ![r] = None]
    /\ Send(r, a, None, m = "DELETE")
    /\ UNCHANGED <<situation, rows, late>>

\* guard, then the extraction of the body of a PUT.
BeginPut(r, a, b) ==
    /\ Enter(r, a, "PUT") /\ b \in situation.offered
    /\ pc' = [pc EXCEPT ![r] = "upload"]
    /\ value' = [value EXCEPT ![r] = b]
    /\ UNCHANGED <<situation, rows, late, maybe, rivals>>

\* Indexes of the bodies that are not too long, and that validate_backup takes.
BodiesWith(P(_)) == LET bodies == Bodies IN {b \in DOMAIN bodies : P(bodies[b])}
Small == BodiesWith(LAMBDA body : BodyBytes(body.envelope) <= MaxBackupBody)
Valid == BodiesWith(LAMBDA body : ~body.malformed /\ ValidateBackup(body.envelope))

Uploaded(r) ==
    /\ pc[r] = "upload"
    /\ \/ value[r] \notin Small /\ Refuse(r, "too_large")
       \/ /\ value[r] \in Small
          /\ pc' = [pc EXCEPT ![r] = "decode"]
          /\ reply' = None
          /\ UNCHANGED <<situation, permits, rows, requestVars, late, maybe, rivals>>

Validated(r) ==
    /\ pc[r] = "decode"
    /\ \/ value[r] \notin Valid /\ Refuse(r, "invalid")
       \/ /\ value[r] \in Valid
          /\ pc' = [pc EXCEPT ![r] = "query"]
          /\ reply' = None
          /\ Send(r, who[r], value[r], TRUE)
          /\ UNCHANGED <<situation, permits, rows, requestVars, late>>

\* Mutant: a second upload does not replace the first.
UpsertOnce(a, v) ==
    rows' = IF rows[a] # None /\ v # None THEN rows ELSE [rows EXCEPT ![a] = v]

\* INSERT .. ON CONFLICT DO UPDATE, or DELETE: one statement.
Upsert(a, v) == rows' = [rows EXCEPT ![a] = v]

\* The database runs the statement of request r.
Execute(r) ==
    /\ pc[r] = "query"
    /\ pc' = [pc EXCEPT ![r] = "done"]
    /\ IF Writes(r) THEN Upsert(who[r], value[r]) /\ UNCHANGED value
       ELSE value' = [value EXCEPT ![r] = rows[who[r]]] /\ UNCHANGED rows
    /\ reply' = None
    /\ UNCHANGED <<situation, permits, who, method, late, maybe, rivals>>

\* A statement that was sent may outlive its request.
Orphan(r) ==
    \/ UNCHANGED late
    \/ /\ pc[r] = "query" /\ Writes(r) /\ Cardinality(late) < MaxLate
       /\ late' = late \cup {[account |-> who[r], value |-> value[r]]}

\* The database does not answer: the statement was not run, is still on its
\* way, or was run and only its answer is lost.
Failed(r) ==
    /\ pc[r] \in {"query", "done"}
    /\ Orphan(r) /\ Release(r)
    /\ reply' = "server_error"
    /\ UNCHANGED <<situation, rows, maybe>>

\* After the answer the row has the value that was stored, or one of the
\* others that were in progress.
Settle(r) ==
    maybe' = IF Writes(r)
             THEN [maybe EXCEPT ![who[r]] = @ \cap ({value[r]} \cup rivals[r])]
             ELSE maybe

Answer(r) ==
    /\ pc[r] = "done"
    /\ Settle(r) /\ Release(r)
    /\ reply' = IF method[r] = "GET" /\ value[r] = None THEN "not_found" ELSE "ok"
    /\ UNCHANGED <<situation, rows, late>>

\* Mutant: the permit goes with the request.
DropKeepsPermit(r) ==
    /\ pc[r] # "idle"
    /\ Orphan(r) /\ Forget(r)
    /\ reply' = None
    /\ UNCHANGED <<situation, permits, rows, maybe>>

\* The connection of the client closes: the request and its permit are dropped,
\* and with them the answer, if there is one.
Drop(r) ==
    /\ pc[r] # "idle"
    /\ Orphan(r) /\ Release(r)
    /\ reply' = None
    /\ UNCHANGED <<situation, rows, maybe>>

\* The database runs a statement whose request is gone, or never does.
ExecuteLate(s) ==
    /\ s \in late
    /\ late' = late \ {s}
    /\ Upsert(s.account, s.value) \/ UNCHANGED rows
    /\ reply' = None
    /\ UNCHANGED <<situation, permits, pc, requestVars, maybe, rivals>>

Step(r) ==
    \/ Uploaded(r) \/ Validated(r) \/ Execute(r) \/ Failed(r) \/ Answer(r)
    \/ Drop(r)

Next ==
    \/ \E r \in Requests : Busy(r)
    \/ \E r \in Requests, a \in Accounts, m \in {"GET", "DELETE"} : BeginQuery(r, a, m)
    \/ \E r \in Requests, a \in Accounts, b \in BodyIds : BeginPut(r, a, b)
    \/ \E r \in Requests : Step(r)
    \/ \E s \in late : ExecuteLate(s)

Spec == Init /\ [][Next]_vars
-----------------------------------------------------------------------------
TypeOK ==
    /\ situation.clients \subseteq Requests /\ situation.offered \subseteq BodyIds
    /\ permits \in 0..Slots
    /\ rows \in [Accounts -> Values]
    /\ pc \in [Requests -> {"idle", "upload", "decode", "query", "done"}]
    /\ who \in [Requests -> Accounts \cup {None}]
    /\ \A r \in Requests : pc[r] # "idle" => who[r] \in Accounts
    /\ method \in [Requests -> {"GET", "PUT", "DELETE"}]
    /\ value \in [Requests -> Values]
    /\ late \subseteq [account : Accounts, value : Values]
    /\ maybe \in [Accounts -> SUBSET Values]
    /\ rivals \in [Requests -> SUBSET Values]

Holders == {r \in Requests : pc[r] # "idle"}

\* A permit is out for each request in progress and for no other, however a
\* request ends: answered, refused at any point, or dropped.  So the server
\* answers backup_busy only while Slots others are being served (guard).
PermitsMatch == permits + Cardinality(Holders) = Slots

\* What a GET returns is the last acknowledged PUT or DELETE of its own
\* account, or one that was in progress beside it or whose sender never got an
\* answer; in particular a refused body never comes back (put, get, delete).
ReadsLatest ==
    \A r \in Requests : pc[r] = "done" /\ ~Writes(r) => value[r] \in rivals[r]

FromPhone == BodiesWith(LAMBDA body : body.draft # None)

AllActions(p) ==
    {p.buttons[i].action : i \in DOMAIN p.buttons} \cup Range(p.wheel.actions)

TextTooLong(p) ==
    \/ p.id.len > 128 \/ p.name > 512 \/ p.targetApplication > 512
    \/ p.wheel.modeLabel > 128
    \/ \E b \in Range(p.buttons) : b.id > 128 \/ b.label > 1024 \/ b.subtitle > 1024

OutOfSliders(v) ==
    \/ v.iconSize \notin 1800..6400 \/ v.imageScale \notin 75..200
    \/ v.alignmentX \notin -100..100 \/ v.alignmentY \notin -100..100
    \/ v.type = "customImage" /\ v.value = None

OutOfRange(p) ==
    \/ \E b \in Range(p.buttons) : b.textSize \notin 1000..2400
    \/ \E v \in VisualsOf(p) : OutOfSliders(v)

\* What the phone does not check and the server does.
BeyondServer(e) ==
    \/ \E p \in Range(e.profiles) :
          \/ TextTooLong(p) \/ OutOfRange(p)
          \/ \E a \in AllActions(p) : a.value # None /\ a.value.kind = "json" /\ ~a.value.strict
    \/ \E i \in Range(e.files) :
          ~i.file.whole \/ i.file.bytes < Shortest[i.file.kind]

Beyond == BodiesWith(LAMBDA body : BeyondServer(body.envelope))

\* Whatever the phone manages to encode is short enough for the server, and the
\* server refuses it only for one of the known differences: a text that is too
\* long in bytes, an appearance out of the range of the editor's sliders, an
\* image that does not end as its format asks, JSON that only Dart reads
\* (validate_backup, AccountBackupCodec.encode).
PhoneBackupsAreTaken ==
    [][\A r \in Requests :
          /\ pc[r] = "upload" /\ pc'[r] # "upload" /\ value[r] \in FromPhone
                => reply' # "too_large"
          /\ pc[r] = "decode" /\ pc'[r] # "decode" /\ reply' # None /\ value[r] \in FromPhone
                => value[r] \in Beyond
          /\ pc[r] = "decode" /\ pc'[r] = "query" /\ value[r] \in FromPhone
                => value[r] \notin Beyond]_vars

\* The files that a draft shares, and its profiles as they are after a restore.
SharedFiles(d) ==
    {[path |-> f.path, file |-> f.file] : f \in
        {g \in NormalizedFiles(d) :
            d.images /\ g.path \in CollectImagePaths(SelectedProfiles(d))}}

SameProfile(p, q) ==
    /\ [p EXCEPT !.buttons = << >>] = [q EXCEPT !.buttons = << >>]
    /\ \A b \in Range(p.buttons) :
          b.position \in DOMAIN q.buttons /\ q.buttons[b.position] = b
    /\ Cardinality({i \in DOMAIN q.buttons : q.buttons[i] # None}) = Len(p.buttons)

ComesBack(body) ==
    LET d == body.draft
        e == body.envelope
        got == Decoded(e)
    IN  /\ Readable(e)
        /\ got.settings = d.settings /\ got.ids = d.ids /\ got.images = d.images
        /\ got.preferences = IF d.settings THEN d.preferences ELSE None
        /\ got.files = SharedFiles(d)
        /\ \A i \in DOMAIN d.ids : SameProfile(SelectedProfiles(d)[i], got.profiles[i])

Returning == BodiesWith(LAMBDA body : body.draft # None /\ ComesBack(body))

\* A backup that a phone made and the server keeps can be restored: the phone
\* reads it, and gets the same settings, profiles, buttons at their positions,
\* and images (AccountBackupCodec.decode, ProfileConfig.fromJson).
PhoneBackupsComeBack ==
    \A a \in Accounts : rows[a] # None /\ rows[a] \in FromPhone => rows[a] \in Returning

PathsOf(e) == {i.path : i \in Range(e.files)} \cup CollectImagePaths(e.profiles)

\* What the server keeps and the phone does not read.
Wider(e) ==
    \/ \E a \in UNION {AllActions(p) : p \in Range(e.profiles)} :
          a.value # None /\ a.value.kind = "number" /\ ~a.value.plain
    \/ \E p \in PathsOf(e) :
          \/ ~ReadableComponent(p.folder) \/ ~ReadableComponent(p.file)
          \/ p.file.dots # 1 \/ PathLength(p) > 200
    \/ \E i \in Range(e.files) : ~i.file.decodes \/ i.file.megapixels > 16

Restorable == BodiesWith(LAMBDA body : Readable(body.envelope) <=> ~Wider(body.envelope))

\* Whoever sent it, what the server keeps is what the phone can read, but for
\* numbers with a plus sign or leading zeros, longer or dotted image names, and
\* images that only look like images (validate_backup and decode).
StoredIsReadable ==
    \A a \in Accounts : rows[a] # None => rows[a] \in Restorable
=============================================================================
