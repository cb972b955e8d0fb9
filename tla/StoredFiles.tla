----------------------------- MODULE StoredFiles -----------------------------
(***************************************************************************)
(* Uploaded files and the rows that name them: ResourcesService,           *)
(* UsersService.updateProfilePhoto and StorageService.                     *)
(*                                                                         *)
(* A file is saved under a fresh name before the row that names it is      *)
(* written, and deleted after the row is changed or gone; an error in      *)
(* between deletes the file that was saved, but an error of the save itself *)
(* leaves what was written of it.  A slot is what can name a     *)
(* file: a resource or the photo of a user.  A resource can also be given  *)
(* the name of a file by hand, without an upload.                          *)
(***************************************************************************)
EXTENDS Naturals, FiniteSets

CONSTANTS
  Users,        \* whose photos are slots
  Resources,    \* resources that may exist
  Uploader,     \* Uploader[r]: the user who creates the resource r
  Clients,      \* requests the servers run concurrently
  MaxRequests,  \* bound: requests begun in a behavior
  None          \* no row, no file, no request

ASSUME StoredFilesAssumption == Uploader \in [Resources -> Users] /\ MaxRequests \in Nat

Slots == Users \cup Resources
Causes == {"contested", "interrupted", "unsaved", "undeleted", "cascade", "typed", "doubted"}

(* A file's name: a random one, which the slot and a number stand for; 0 is  *)
(* a name nothing was ever saved under.                                     *)
Files == [slot : Slots, n : 0 .. MaxRequests]

Ops == {"create", "replace", "remove", "photo"}

(* A request in progress: its slot, the name it read and the one it saves.  *)
Requests == [op : Ops, slot : Slots, old : Files \cup {None}, new : Files]

ASSUME NoneAssumption == None \notin Files \cup Requests

VARIABLES
  users,   \* rows of User
  exists,  \* resources that have a row
  named,   \* the file each slot's row names, or None
  disk,    \* files in the storage directory
  pc, req, begun,
  typed,   \* history: names given by hand
  why      \* history: what may have put a slot's row and files out of step

tables == <<users, exists, named>>
history == <<typed, why>>
vars == <<tables, disk, pc, req, begun, history>>

Init ==
  /\ users = Users /\ exists = {}
  /\ named = [s \in Slots |-> None]
  /\ disk = {}
  /\ pc = [c \in Clients |-> "idle"] /\ req = [c \in Clients |-> None]
  /\ begun = 0
  /\ typed = {} /\ why = [s \in Slots |-> {}]

Blame(s, cause) == why' = [why EXCEPT ![s] = @ \cup {cause}]
Busy(c, s) == req[c] # None /\ req[c].slot = s

(* A request reads its slot's row, and keeps the name it found.             *)
Accept(c, op, s, step) ==
  /\ pc[c] = "idle" /\ begun < MaxRequests
  /\ begun' = begun + 1
  /\ pc' = [pc EXCEPT ![c] = step]
  /\ req' = [req EXCEPT ![c] = [op |-> op, slot |-> s, old |-> named[s],
                                new |-> [slot |-> s, n |-> begun + 1]]]
  /\ IF \E d \in Clients : Busy(d, s) THEN Blame(s, "contested") ELSE UNCHANGED why
  /\ UNCHANGED <<tables, disk, typed>>

Goto(c, step) ==
  /\ pc' = [pc EXCEPT ![c] = step]
  /\ req' = IF step = "idle" THEN [req EXCEPT ![c] = None] ELSE req
  /\ UNCHANGED begun

-----------------------------------------------------------------------------
(* A new resource has an id nobody knows yet. *)
New(r) == r \notin exists /\ \A d \in Clients : ~ Busy(d, r)

CreateFromUpload(c, r) == New(r) /\ Accept(c, "create", r, "saving")
UpdateWithUpload(c, r) == r \in exists /\ Accept(c, "replace", r, "saving")
RemoveResource(c, r) == r \in exists /\ Accept(c, "remove", r, "deleting")
UpdateProfilePhoto(c, u) == u \in users /\ Accept(c, "photo", u, "saving")

(* saveFile makes the directory and writes the file.  If it fails before the *)
(* file is created nothing is left; if the write fails after that, a        *)
(* truncated file is, and the caller has no name to delete it by.           *)
SaveFile(c) ==
  /\ pc[c] = "saving"
  /\ \/ disk' = disk \cup {req[c].new} /\ Goto(c, "writing") /\ UNCHANGED why
     \/ UNCHANGED <<disk, why>> /\ Goto(c, "idle")
     \/ disk' = disk \cup {req[c].new} /\ Goto(c, "idle") /\ Blame(req[c].slot, "unsaved")
  /\ UNCHANGED <<tables, typed>>

(* Whether the row can be written by now. *)
Writable(r) == CASE r.op = "create"  -> Uploader[r.slot] \in users
                 [] r.op = "replace" -> r.slot \in exists
                 [] r.op = "photo"   -> r.slot \in users

Name(s, f) ==
  /\ named' = [named EXCEPT ![s] = f]
  /\ exists' = exists \cup ({s} \cap Resources)
  /\ UNCHANGED users

(* Mutation: the old file goes before the row is written. *)
WriteRow_last(c) ==
  LET r == req[c] IN
  /\ pc[c] = "writing"
  /\ disk' = disk \ {r.old}
  /\ \/ /\ Writable(r) /\ Name(r.slot, r.new)
        /\ Goto(c, IF r.op = "photo" THEN "refetching" ELSE "idle")
     \/ UNCHANGED tables /\ Goto(c, "discarding")
  /\ UNCHANGED history
(* create, update and the update of a user: the checks and the write of the *)
(* row; an error may come before the write, or of one that was committed.   *)
WriteRow(c) ==
  LET r == req[c] IN
  /\ pc[c] = "writing"
  /\ \/ /\ Writable(r) /\ Name(r.slot, r.new)
        /\ \/ /\ Goto(c, CASE r.old # None /\ r.op # "create" -> "dropping"
                           [] r.op = "photo" /\ r.old = None -> "refetching"
                           [] OTHER -> "idle")
              /\ UNCHANGED why
           \/ Goto(c, "discarding") /\ Blame(r.slot, "doubted")
     \/ UNCHANGED <<tables, why>> /\ Goto(c, "discarding")
  /\ UNCHANGED <<disk, typed>>

(* remove: the row, and then the file it named when it was read.            *)
DeleteRow(c) ==
  LET r == req[c].slot IN
  /\ pc[c] = "deleting"
  /\ IF r \in exists
     THEN /\ exists' = exists \ {r} /\ named' = [named EXCEPT ![r] = None]
          /\ Goto(c, "dropping")
     ELSE UNCHANGED <<exists, named>> /\ Goto(c, "idle")
  /\ UNCHANGED <<users, disk, history>>

(* deleteFile: a file that is gone is as good as deleted; other errors are   *)
(* logged, and the file stays.                                             *)
DeleteFile(f, s) ==
  \/ disk' = disk \ {f} /\ UNCHANGED why
  \/ f \in disk /\ UNCHANGED disk /\ Blame(s, "undeleted")

DropOld(c) ==
  LET r == req[c] IN
  /\ pc[c] = "dropping"
  /\ DeleteFile(r.old, r.slot)
  /\ Goto(c, IF r.op = "photo" THEN "refetching" ELSE "idle")
  /\ UNCHANGED <<tables, typed>>

(* The photo's user is read back in the same try: if that fails the new      *)
(* file is deleted, though the row names it.                               *)
Refetch(c) ==
  LET r == req[c] IN
  /\ pc[c] = "refetching"
  /\ \/ Goto(c, "idle") /\ UNCHANGED why
     \/ Goto(c, "discarding") /\ Blame(r.slot, "doubted")
  /\ UNCHANGED <<tables, disk, typed>>

(* Mutation: an error leaves the file there. *)
Discard_kept(c) ==
  /\ pc[c] = "discarding"
  /\ Goto(c, "idle")
  /\ UNCHANGED <<tables, disk, history>>
(* The catch of the three uploads.                                          *)
Discard(c) ==
  /\ pc[c] = "discarding"
  /\ DeleteFile(req[c].new, req[c].slot)
  /\ Goto(c, "idle")
  /\ UNCHANGED <<tables, typed>>

-----------------------------------------------------------------------------
(* create and update of a resource with a name given by hand.               *)
TypeName(r, f) ==
  /\ begun < MaxRequests /\ begun' = begun + 1
  /\ r \in exists \/ (New(r) /\ Uploader[r] \in users)
  /\ f \in {named[s] : s \in Slots} \cup {[slot |-> r, n |-> 0]} /\ f # None
  /\ Name(r, f)
  /\ typed' = typed \cup {f} /\ Blame(r, "typed")
  /\ UNCHANGED <<disk, pc, req>>

(* Mutation: resources lose their row, but not their place. *)
RemoveUser_restrict(u) ==
  /\ u \in users /\ begun < MaxRequests /\ begun' = begun + 1
  /\ users' = users \ {u}
  /\ named' = [s \in Slots |-> IF s = u \/ (s \in Resources /\ Uploader[s] = u)
                               THEN None ELSE named[s]]
  /\ UNCHANGED <<exists, disk, pc, req, history>>
(* remove of a user: his resources go with him, the files stay.             *)
RemoveUser(u) ==
  LET gone == {u} \cup {r \in Resources : Uploader[r] = u} IN
  /\ u \in users /\ begun < MaxRequests /\ begun' = begun + 1
  /\ users' = users \ {u}
  /\ exists' = exists \ gone
  /\ named' = [s \in Slots |-> IF s \in gone THEN None ELSE named[s]]
  /\ why' = [s \in Slots |-> IF s \in gone THEN why[s] \cup {"cascade"} ELSE why[s]]
  /\ UNCHANGED <<disk, pc, req, typed>>

Crash(c) ==
  /\ pc[c] # "idle"
  /\ Blame(req[c].slot, "interrupted")
  /\ Goto(c, "idle")
  /\ UNCHANGED <<tables, disk, typed>>

-----------------------------------------------------------------------------
Next ==
  \/ \E c \in Clients :
       \/ \E r \in Resources : \/ CreateFromUpload(c, r) \/ UpdateWithUpload(c, r)
                               \/ RemoveResource(c, r)
       \/ \E u \in Users : UpdateProfilePhoto(c, u)
       \/ SaveFile(c) \/ WriteRow(c) \/ DeleteRow(c) \/ DropOld(c)
       \/ Refetch(c) \/ Discard(c) \/ Crash(c)
  \/ \E r \in Resources, f \in Files : TypeName(r, f)
  \/ \E u \in Users : RemoveUser(u)

Spec == Init /\ [][Next]_vars

-----------------------------------------------------------------------------
(* What the tables and the requests in progress hold. *)
TypeOK ==
  /\ users \subseteq Users /\ exists \subseteq Resources
  /\ named \in [Slots -> Files \cup {None}]
  /\ \A r \in Resources : r \in exists <=> named[r] # None
  /\ disk \subseteq Files /\ typed \subseteq Files
  /\ pc \in [Clients -> {"idle", "saving", "writing", "dropping", "refetching",
                         "discarding", "deleting"}]
  /\ req \in [Clients -> Requests \cup {None}]
  /\ \A c \in Clients : pc[c] = "idle" <=> req[c] = None
  /\ begun \in 0 .. MaxRequests
  /\ why \in [Slots -> SUBSET Causes]

(* However uploads and removals of a slot overlap, and wherever the server    *)
(* stops, a row names a file that is there: unless the name was given by     *)
(* hand, or an error came of a row that had been written.                   *)
RowsNameFiles ==
  \A s \in Slots : named[s] # None =>
    \/ named[s] \in disk
    \/ named[s] \in typed \/ "doubted" \in why[s]

(* No file is left that nothing names or is about to delete: unless requests *)
(* for its slot overlapped, one was interrupted or failed after it had       *)
(* written the row, the disk refused to delete or broke off a save           *)
(* (storage.service.ts, lines 58-63), the row went with its user or was      *)
(* given another name by hand.                                              *)
FilesAreOwned ==
  \A f \in disk :
    \/ \E s \in Slots : named[s] = f
    \/ \E c \in Clients : req[c] # None /\ f \in {req[c].old, req[c].new}
    \/ why[f.slot] # {}
=============================================================================
