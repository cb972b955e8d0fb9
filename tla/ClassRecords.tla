----------------------------- MODULE ClassRecords -----------------------------
(***************************************************************************)
(* What comes back from Zoom: the attendance ClassesService.sync-          *)
(* ParticipantsFromZoom copies, the recordings a webhook announces to      *)
(* RecordingsService, and the access token ZoomService keeps for every     *)
(* request it sends.                                                       *)
(*                                                                         *)
(* A class and its meeting go by one name here: linked says whether the    *)
(* class still names it, which ClassScheduling decides.  A request to Zoom *)
(* takes the token from the cache, or fetches one; answered 401, it clears *)
(* the cache and tries once more.  A page of a report holds one entry.     *)
(* Names ClassScheduling has, too, differ here: the two are proved about   *)
(* in one module.                                                          *)
(***************************************************************************)
EXTENDS Naturals, Sequences, FiniteSets

Lists == INSTANCE SequencesExt   \* whose Remove is not ClassScheduling's

CONSTANTS
  Meetings,
  People,         \* who may attend
  Guests,         \* those Zoom reports without an id, a user id or an e-mail
  Callers,        \* requests one server runs concurrently
  MaxTasks,       \* bound: requests begun, webhooks aside
  MaxEntries,     \* bound: entries in the report of a meeting
  MaxTokens,      \* bound: tokens Zoom issues
  MaxDeliveries   \* bound: deliveries of one webhook before Zoom gives up

ASSUME ClassRecordsAssumption ==
  /\ Guests \subseteq People
  /\ {MaxTasks, MaxEntries, MaxTokens, MaxDeliveries} \subseteq Nat

Files == {"MP4", "M4A", "CHAT"}   \* what a recording of a meeting consists of
Kept == {"MP4", "M4A"}

VARIABLES
  exists, linked,     \* classes with a row, and those that name their meeting
  invited,            \* classes that have the ClassParticipant rows create inserted
  attendance,         \* ClassParticipant rows of each class a report put there
  recordings,         \* ClassRecording rows of each class
  cache,              \* the server's token, or 0
  report,             \* attendance reports at Zoom
  issued, revoked,    \* the newest token, and the newest that is no longer good
  sent, answered,     \* deliveries of each class's webhook, and those answered 200
  stage, task, started,
  crossed,            \* history: classes with two synchronisations at a time
  synced,             \* history: the longest report stored of each class
  unlucky             \* history: requests refused a second time without a cause

tables == <<exists, linked, invited, attendance, recordings>>
atZoom == <<report, issued, revoked, sent, answered>>
recHistory == <<crossed, synced, unlucky>>
recVars == <<tables, cache, atZoom, stage, task, started, recHistory>>

NoTask == [op |-> "none"]   \* an idle client's

(* create inserts the participants it was given, if any, with the class. *)
RecInit ==
  /\ exists = Meetings /\ linked = Meetings /\ invited \in SUBSET Meetings
  /\ attendance = [x \in Meetings |-> <<>>]
  /\ recordings = [x \in Meetings |-> {}]
  /\ cache = 0 /\ report = [x \in Meetings |-> <<>>]
  /\ issued = 0 /\ revoked = 0
  /\ sent = [x \in Meetings |-> 0] /\ answered = {}
  /\ stage = [c \in Callers |-> "idle"] /\ task = [c \in Callers |-> NoTask]
  /\ started = 0
  /\ crossed = {} /\ synced = [x \in Meetings |-> 0] /\ unlucky = FALSE

Task(op, x) == [op |-> op, class |-> x,
                got |-> <<>>,      \* pages read so far
                token |-> 0,       \* the token in hand
                retry |-> TRUE,    \* executeRequest's second argument
                excuse |-> FALSE,  \* history: a token came or went since the first 401
                todo |-> Files]    \* files of the recording not looked at yet
Tasks == [op : {"sync", "call", "webhook"}, class : Meetings, got : Seq(People),
          token : Nat, retry : BOOLEAN, excuse : BOOLEAN, todo : SUBSET Files]

Start(c, r, step) ==
  /\ stage[c] = "idle"
  /\ stage' = [stage EXCEPT ![c] = step] /\ task' = [task EXCEPT ![c] = r]

Continue(c, r, step) ==
  /\ stage' = [stage EXCEPT ![c] = step]
  /\ task' = [task EXCEPT ![c] = IF step = "idle" THEN NoTask ELSE r]
  /\ UNCHANGED started

GoOn(c, step) == Continue(c, task[c], step)

Syncing(c, x) == task[c].op = "sync" /\ task[c].class = x

-----------------------------------------------------------------------------
(* The world: people attend, Zoom tires of its tokens; the classes that      *)
(* cancel and endClass unlink, and those remove deletes with their rows.     *)
Attend(x, who) ==
  /\ Len(report[x]) < MaxEntries
  /\ report' = [report EXCEPT ![x] = Append(@, who)]
  /\ UNCHANGED <<tables, cache, issued, revoked, sent, answered, stage, task, started, recHistory>>

Excuse(r) == [c \in Callers |-> IF r[c] = NoTask THEN NoTask
                                ELSE [r[c] EXCEPT !.excuse = ~ r[c].retry]]

Revoke ==
  /\ revoked < issued /\ revoked' = issued
  /\ task' = Excuse(task)
  /\ UNCHANGED <<tables, cache, report, issued, sent, answered, stage, started, recHistory>>

(* expiresAt has come: the token is not used again. *)
Outdate ==
  /\ cache # 0 /\ cache' = 0
  /\ UNCHANGED <<tables, atZoom, stage, task, started, recHistory>>

Unlink(x) ==
  /\ x \in linked /\ linked' = linked \ {x}
  /\ UNCHANGED <<exists, invited, attendance, recordings, cache, atZoom, stage, task, started, recHistory>>

RemoveClass(x) ==
  /\ x \in exists
  /\ exists' = exists \ {x} /\ linked' = linked \ {x} /\ invited' = invited \ {x}
  /\ attendance' = [attendance EXCEPT ![x] = <<>>]
  /\ recordings' = [recordings EXCEPT ![x] = {}]
  /\ UNCHANGED <<cache, atZoom, stage, task, started, recHistory>>

-----------------------------------------------------------------------------
(* syncParticipantsFromZoom reads the class; the other calls of ZoomService  *)
(* (createMeeting, updateMeeting, deleteMeeting, getMeeting) only need a     *)
(* token.                                                                   *)
SyncParticipants(c, x) ==
  /\ x \in linked /\ started < MaxTasks /\ started' = started + 1
  /\ Start(c, Task("sync", x), "token")
  /\ crossed' = IF \E d \in Callers : Syncing(d, x) THEN crossed \cup {x} ELSE crossed
  /\ UNCHANGED <<tables, cache, atZoom, synced, unlucky>>

CallZoom(c, x) ==
  /\ started < MaxTasks /\ started' = started + 1
  /\ Start(c, Task("call", x), "token")
  /\ UNCHANGED <<tables, cache, atZoom, recHistory>>

(* getAccessToken: the cached token, or a new one, which is cached when the  *)
(* answer arrives.                                                          *)
GetAccessToken(c) ==
  /\ stage[c] = "token"
  /\ IF cache # 0
     THEN Continue(c, [task[c] EXCEPT !.token = cache], "sending") /\ UNCHANGED issued
     ELSE /\ issued < MaxTokens /\ issued' = issued + 1
          /\ Continue(c, [task[c] EXCEPT !.token = issued + 1], "caching")
  /\ UNCHANGED <<tables, cache, report, revoked, sent, answered, recHistory>>

(* History: a token fetched before others were refused may now be theirs.    *)
CacheToken(c) ==
  /\ stage[c] = "caching"
  /\ cache' = task[c].token
  /\ stage' = [stage EXCEPT ![c] = "sending"]
  /\ task' = IF task[c].token <= revoked THEN Excuse(task) ELSE task
  /\ UNCHANGED <<tables, atZoom, started, recHistory>>

(* Mutation: the refused token stays in the cache. *)
Refused_cached(c) ==
  LET r == task[c] IN
  /\ stage[c] = "sending" /\ r.token <= revoked
  /\ IF r.retry
     THEN Continue(c, [r EXCEPT !.retry = FALSE], "token") /\ UNCHANGED unlucky
     ELSE GoOn(c, "idle") /\ unlucky' = (unlucky \/ ~ r.excuse)
  /\ UNCHANGED <<tables, cache, atZoom, crossed, synced>>
(* executeRequest, answered 401: once again with another token, or an error. *)
Refused(c) ==
  LET r == task[c] IN
  /\ stage[c] = "sending" /\ r.token <= revoked
  /\ IF r.retry
     THEN /\ cache' = 0
          /\ Continue(c, [r EXCEPT !.retry = FALSE], "token") /\ UNCHANGED unlucky
     ELSE GoOn(c, "idle") /\ UNCHANGED cache /\ unlucky' = (unlucky \/ ~ r.excuse)
  /\ UNCHANGED <<tables, atZoom, crossed, synced>>

Served(c) == stage[c] = "sending" /\ task[c].token > revoked

CallServed(c) ==
  /\ Served(c) /\ task[c].op = "call" /\ GoOn(c, "idle")
  /\ UNCHANGED <<tables, cache, atZoom, recHistory>>

(* Mutation: a page replaces the one before. *)
Collected_last(r, page) == page
Collected(r, page) == r.got \o page

(* getMeetingParticipants: the next page, and the token of the page after    *)
(* it if there is one; every page is a request of its own.                  *)
FetchPage(c) ==
  LET r == task[c]  x == r.class  n == Len(r.got)
      page == IF n < Len(report[x]) THEN <<report[x][n + 1]>> ELSE <<>> IN
  /\ Served(c) /\ r.op = "sync"
  /\ Continue(c, [r EXCEPT !.got = Collected(r, page), !.retry = TRUE, !.excuse = FALSE],
              IF n + 1 < Len(report[x]) THEN "token" ELSE "replacing")
  /\ UNCHANGED <<tables, cache, atZoom, recHistory>>

(* Nobody is in a report twice, save those the unique key cannot tell apart. *)
Distinct(s) == \A i, j \in DOMAIN s : s[i] = s[j] => i = j \/ s[i] \in Guests

(* One transaction: the class's rows are deleted, the invitations with them, *)
(* and what was read is inserted.  Who is in the report twice, having come   *)
(* back, breaks the unique key of class and participant: nothing is stored.  *)
(* The key of a guest is null, which the table holds any number of times.    *)
ReplaceParticipants(c) ==
  LET r == task[c]  x == r.class  n == Len(r.got) IN
  /\ stage[c] = "replacing"
  /\ IF Distinct(r.got) /\ (x \in exists \/ n = 0)
     THEN /\ invited' = invited \ {x} /\ attendance' = [attendance EXCEPT ![x] = r.got]
          /\ synced' = [synced EXCEPT ![x] = IF n > @ THEN n ELSE @]
     ELSE UNCHANGED <<invited, attendance, synced>>
  /\ GoOn(c, "idle")
  /\ UNCHANGED <<exists, linked, recordings, cache, atZoom, crossed, unlucky>>

-----------------------------------------------------------------------------
(* Zoom announces the recording of a meeting, again until it is answered 200. *)
(* handleZoomRecordingCompleted looks the class up by its meeting ...       *)
RecordingCompleted(c, x) ==
  /\ x \notin answered /\ sent[x] < MaxDeliveries
  /\ sent' = [sent EXCEPT ![x] = @ + 1]
  /\ IF x \in linked
     THEN Start(c, Task("webhook", x), "saving") /\ UNCHANGED answered
     ELSE stage[c] = "idle" /\ answered' = answered \cup {x} /\ UNCHANGED <<stage, task>>
  /\ UNCHANGED <<tables, cache, report, issued, revoked, started, recHistory>>

(* Mutation: a file that is not wanted ends the loop. *)
SaveRecording_break(c) ==
  LET r == task[c]  x == r.class IN
  /\ stage[c] = "saving"
  /\ \E f \in r.todo :
       /\ recordings' = IF f \in Kept THEN [recordings EXCEPT ![x] = @ \cup {f}] ELSE recordings
       /\ IF f \in Kept /\ r.todo # {f}
          THEN Continue(c, [r EXCEPT !.todo = @ \ {f}], "saving") /\ UNCHANGED answered
          ELSE GoOn(c, "idle") /\ answered' = answered \cup {x}
  /\ x \in exists
  /\ UNCHANGED <<exists, linked, invited, attendance, cache, report, issued, revoked, sent, recHistory>>
(* ... and upserts its audio and video, one by one.  An error - the class is *)
(* gone, or another delivery inserted the same recording between the upsert's *)
(* SELECT and INSERT - is Fail: it is answered 500.                         *)
SaveRecording(c) ==
  LET r == task[c]  x == r.class IN
  /\ stage[c] = "saving"
  /\ \E f \in r.todo :
       /\ f \in Kept => x \in exists
       /\ recordings' = IF f \in Kept THEN [recordings EXCEPT ![x] = @ \cup {f}] ELSE recordings
       /\ IF r.todo # {f}
          THEN Continue(c, [r EXCEPT !.todo = @ \ {f}], "saving") /\ UNCHANGED answered
          ELSE GoOn(c, "idle") /\ answered' = answered \cup {x}
  /\ UNCHANGED <<exists, linked, invited, attendance, cache, report, issued, revoked, sent, recHistory>>

(* create: a recording registered by hand has no id of Zoom's and meets      *)
(* nothing; it is left out.  Fail: an error or a crash; a restarted server   *)
(* has no token cached.                                                     *)
RecFail(c) ==
  /\ stage[c] # "idle" /\ GoOn(c, "idle")
  /\ UNCHANGED <<tables, cache, atZoom, recHistory>>

Restart ==
  /\ \E c \in Callers : stage[c] # "idle"
  /\ cache' = 0
  /\ stage' = [c \in Callers |-> "idle"] /\ task' = [c \in Callers |-> NoTask]
  /\ UNCHANGED <<tables, atZoom, started, recHistory>>

-----------------------------------------------------------------------------
World ==
  \/ Revoke \/ Outdate \/ Restart
  \/ \E x \in Meetings : Unlink(x) \/ RemoveClass(x) \/ \E who \in People : Attend(x, who)

Handle(c) ==
  \/ \E x \in Meetings : SyncParticipants(c, x) \/ CallZoom(c, x) \/ RecordingCompleted(c, x)
  \/ GetAccessToken(c) \/ CacheToken(c) \/ Refused(c) \/ CallServed(c)
  \/ FetchPage(c) \/ ReplaceParticipants(c) \/ SaveRecording(c) \/ RecFail(c)

RecNext == World \/ \E c \in Callers : Handle(c)

RecSpec == RecInit /\ [][RecNext]_recVars

-----------------------------------------------------------------------------
(* What the tables and the requests in progress hold. *)
RecTypeOK ==
  /\ exists \subseteq Meetings /\ linked \subseteq exists /\ invited \subseteq exists
  /\ attendance \in [Meetings -> Seq(People)] /\ report \in [Meetings -> Seq(People)]
  /\ recordings \in [Meetings -> SUBSET Kept]
  /\ issued \in Nat /\ revoked \in 0 .. issued /\ cache \in 0 .. issued
  /\ sent \in [Meetings -> Nat] /\ answered \subseteq Meetings /\ synced \in [Meetings -> Nat]
  /\ stage \in [Callers -> {"idle", "token", "caching", "sending", "replacing", "saving"}]
  /\ task \in [Callers -> Tasks \cup {NoTask}]
  /\ \A c \in Callers : stage[c] = "idle" <=> task[c] = NoTask

(* Until a synchronisation succeeds, the participants of a class are those it *)
(* was created with; from then on they are what Zoom's report said, never a   *)
(* mixture: all pages of it, nobody twice whom Zoom gave a name to know him   *)
(* by, and a later synchronisation never takes it back to an older report,    *)
(* unless it overlapped another.                                            *)
AttendanceIsAReport ==
  \A x \in exists :
    /\ x \in invited => attendance[x] = <<>> /\ synced[x] = 0
    /\ Lists!IsPrefix(attendance[x], report[x]) /\ Distinct(attendance[x])
    /\ Len(attendance[x]) = synced[x] \/ x \in crossed

(* Once Zoom's announcement is answered 200, the audio and the video of the   *)
(* meeting are recorded, however often it was delivered and wherever an      *)
(* earlier delivery failed, provided the class still names its meeting.      *)
(* (endClass makes it forget, before a recording is announced.)             *)
AnsweredIsRecorded == \A x \in answered \cap linked : recordings[x] = Kept

(* A request is refused for its token a second time only if Zoom withdrew     *)
(* its tokens again after the first, or another request had fetched one      *)
(* before Zoom withdrew them and cached it since.                            *)
RefusalsAreUnlucky == ~ unlucky
=============================================================================
