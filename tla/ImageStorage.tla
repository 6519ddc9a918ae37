---------------------------- MODULE ImageStorage ----------------------------
(***************************************************************************)
(* The files of uploads: save_file, delete_file and discard_local of the   *)
(* storage service, called by the upload of photos to a chat session and   *)
(* by the uploads router, on the local disk alone or with an S3 bucket.    *)
(*                                                                         *)
(* Every file passes the local disk.  With S3 the copy there is temporary: *)
(* the vision service reads it, and the request discards it afterwards.    *)
(* A request saves its photos one by one and, when one cannot be saved,    *)
(* deletes those before it.                                                *)
(***************************************************************************)
EXTENDS Integers

CONSTANTS
  Workers,    \* request handlers
  Keys,       \* keys of files (a directory and a uuid)
  MaxImages,  \* how many photos one request may bring; 10 in the code
  None        \* no request, or no file

ASSUME MaxImagesAssumption == MaxImages \in Nat \ {0}

VARIABLES
  backend,  \* settings.storage_backend
  local,    \* files under LOCAL_UPLOAD_DIR
  bucket,   \* external: objects in the S3 bucket
  fate,     \* what became of the request that a key was made for
  refused,  \* keys of which S3 lost an answer or did not delete the object
  job       \* the upload each worker is handling, or None

vars == <<backend, local, bucket, fate, refused, job>>

-----------------------------------------------------------------------------
\* Not made yet; saved or being saved by an open request; given out as a URL in
\* a row or a response; taken back; saved by a request that failed afterwards,
\* or that ended with the process.
Fates == {"new", "open", "given", "rejected", "abandoned", "crashed"}

\* An upload of photos to a chat keeps the local copies, a single one does not.
\* left counts the files to come; key is the file being saved.
Job == [keepLocal : BOOLEAN, at : {"save", "rollback", "select", "persist"},
        left : 0..MaxImages, keys : SUBSET Keys, key : Keys \cup {None}]

ASSUME NoneAssumption == None \notin Keys \cup Job

S3 == backend = "s3"

Stored == IF S3 THEN bucket ELSE local

Busy(w, step) == job[w] # None /\ job[w].at = step

\* The files an open request still has to account for.
Held(w) == IF job[w] = None THEN {} ELSE job[w].keys \cup ({job[w].key} \ {None})

\* The keys K of a request end as f.
End(K, f) == fate' = [k \in Keys |-> IF k \in K THEN f ELSE fate[k]]

Finish(w) == job' = [job EXCEPT ![w] = None]

-----------------------------------------------------------------------------
(* save_file. *)

\* The check of the number of photos, off by one, and as it is.
AcceptsOneMore(n) == n \in 1..MaxImages + 1

Accepts(n) == n \in 1..MaxImages

UploadImages(w, n) ==
  /\ job[w] = None
  /\ Accepts(n)
  /\ job' = [job EXCEPT ![w] =
       [keepLocal |-> TRUE, at |-> "save", left |-> n, keys |-> {}, key |-> None]]
  /\ UNCHANGED <<backend, local, bucket, fate, refused>>

\* The uploads router.
UploadFile(w) ==
  /\ job[w] = None
  /\ job' = [job EXCEPT ![w] =
       [keepLocal |-> FALSE, at |-> "save", left |-> 1, keys |-> {}, key |-> None]]
  /\ UNCHANGED <<backend, local, bucket, fate, refused>>

\* The file is opened under a new key and the request streams into it.
StreamToDisk(w, k) ==
  /\ Busy(w, "save")
  /\ job[w].key = None
  /\ fate[k] = "new"
  /\ local' = local \cup {k}
  /\ End({k}, "open")
  /\ job' = [job EXCEPT ![w].key = k]
  /\ UNCHANGED <<backend, bucket, refused>>

\* The file could not be saved: the request takes back what it saved before.
GiveUp(w) ==
  /\ job' = [job EXCEPT ![w] = [@ EXCEPT !.at = "rollback", !.key = None]]
  /\ End({job[w].key}, "rejected")

\* The stream is longer than allowed, or the disk fails.
StreamFails(w) ==
  /\ Busy(w, "save")
  /\ job[w].key # None
  /\ local' = local \ {job[w].key}
  /\ GiveUp(w)
  /\ UNCHANGED <<backend, bucket, refused>>

\* S3 fails, and the object may be in the bucket although the answer was lost.
PutFails(w, arrived) ==
  /\ Busy(w, "save")
  /\ job[w].key # None
  /\ S3
  /\ local' = local \ {job[w].key}
  /\ IF arrived
       THEN bucket' = bucket \cup {job[w].key} /\ refused' = refused \cup {job[w].key}
       ELSE UNCHANGED <<bucket, refused>>
  /\ GiveUp(w)
  /\ UNCHANGED backend

\* A save_file that leaves every copy to its callers.
KeepCopy(w) == local

\* The copy on disk is the file itself without S3.
CopyAfterPut(w) == IF S3 /\ ~job[w].keepLocal THEN local \ {job[w].key} ELSE local

\* One photo is saved; after the last one the representative photo is chosen.
SavePhoto(j) ==
  [keepLocal |-> j.keepLocal, at |-> IF j.left = 1 THEN "select" ELSE "save",
   left |-> j.left - 1, keys |-> j.keys \cup {j.key}, key |-> None]

\* The file is saved; a single one is answered with its URL.
Save(w) ==
  /\ Busy(w, "save")
  /\ job[w].key # None
  /\ local' = CopyAfterPut(w)
  /\ bucket' = IF S3 THEN bucket \cup {job[w].key} ELSE bucket
  /\ IF job[w].keepLocal
       THEN job' = [job EXCEPT ![w] = SavePhoto(job[w])] /\ UNCHANGED fate
       ELSE Finish(w) /\ End({job[w].key}, "given")
  /\ UNCHANGED <<backend, refused>>

-----------------------------------------------------------------------------
(* The rollback of an upload of photos. *)

\* A delete_file from before there was S3.
KeepObject(k, deleted) == bucket

DeleteObject(k, deleted) == IF S3 /\ deleted THEN bucket \ {k} ELSE bucket

\* delete_file: an exception of S3 is logged, and the rollback goes on.
DeleteFile(w, k, deleted) ==
  /\ Busy(w, "rollback")
  /\ k \in job[w].keys
  /\ local' = local \ {k}
  /\ bucket' = DeleteObject(k, deleted)
  /\ refused' = IF S3 /\ ~deleted THEN refused \cup {k} ELSE refused
  /\ End({k}, "rejected")
  /\ job' = [job EXCEPT ![w].keys = @ \ {k}]
  /\ UNCHANGED backend

\* The client gets a 413 or a 500.
Reject(w) ==
  /\ Busy(w, "rollback")
  /\ job[w].keys = {}
  /\ Finish(w)
  /\ UNCHANGED <<backend, local, bucket, fate, refused>>

-----------------------------------------------------------------------------
(* The rest of an upload of photos. *)

\* A cleanup that does not ask for the backend.
DiscardAnyway(K) == local \ K

DiscardLocal(K) == IF S3 THEN local \ K ELSE local

\* The representative photo is chosen, by the service or as the fallback; or the
\* answer of the service has no index, and the request ends with a 500.  The
\* copies are discarded either way.
SelectRepresentative(w, chosen) ==
  /\ Busy(w, "select")
  /\ local' = DiscardLocal(job[w].keys)
  /\ IF chosen
       THEN job' = [job EXCEPT ![w].at = "persist"] /\ UNCHANGED fate
       ELSE Finish(w) /\ End(job[w].keys, "abandoned")
  /\ UNCHANGED <<backend, bucket, refused>>

\* The message and the photos of the announcement are committed with the URLs;
\* or the session was deleted meanwhile, and the request ends with a 500.
Persist(w, committed) ==
  /\ Busy(w, "persist")
  /\ End(job[w].keys, IF committed THEN "given" ELSE "abandoned")
  /\ Finish(w)
  /\ UNCHANGED <<backend, local, bucket, refused>>

\* The process dies and comes back.
Restart ==
  /\ \E w \in Workers : job[w] # None
  /\ job' = [w \in Workers |-> None]
  /\ End({k \in Keys : fate[k] = "open"}, "crashed")
  /\ UNCHANGED <<backend, local, bucket, refused>>

-----------------------------------------------------------------------------
Init ==
  /\ backend \in {"local", "s3"}
  /\ local = {}
  /\ bucket = {}
  /\ fate = [k \in Keys |-> "new"]
  /\ refused = {}
  /\ job = [w \in Workers |-> None]

Step(w) ==
  \/ \E n \in 0..MaxImages + 1 : UploadImages(w, n)
  \/ UploadFile(w)
  \/ \E k \in Keys : StreamToDisk(w, k)
  \/ StreamFails(w)
  \/ \E arrived \in BOOLEAN : PutFails(w, arrived)
  \/ Save(w)
  \/ \E k \in Keys, deleted \in BOOLEAN : DeleteFile(w, k, deleted)
  \/ Reject(w)
  \/ \E chosen \in BOOLEAN : SelectRepresentative(w, chosen)
  \/ \E committed \in BOOLEAN : Persist(w, committed)

Next == Restart \/ \E w \in Workers : Step(w)

Spec == Init /\ [][Next]_vars

-----------------------------------------------------------------------------
(* Properties. *)

\* The variables keep their types; no request holds more photos than upload_images
\* accepts.
TypeOK ==
  /\ backend \in {"local", "s3"}
  /\ local \in SUBSET Keys
  /\ bucket \in SUBSET Keys
  /\ fate \in [Keys -> Fates]
  /\ refused \in SUBSET Keys
  /\ job \in [Workers -> Job \cup {None}]

\* Every URL that a message, an announcement or a response holds leads to a file,
\* wherever the backend keeps it (save_file, discard_local: the local file is the
\* original when there is no S3).
GivenAreStored == \A k \in Keys : fate[k] = "given" => k \in Stored

\* With S3 a copy stays on the disk no longer than its request, however that ends
\* (save_file: "the caller must clean up with discard_local"); only the end of
\* the process leaves some.
CopiesAreTemporary == S3 =>
  \A k \in local : fate[k] = "crashed" \/ \E w \in Workers : k \in Held(w)

\* An upload that fails while it saves leaves no photo behind, except where S3
\* itself failed (upload_images: the rollback, delete_file).
RejectedLeaveNothing == \A k \in Keys :
  fate[k] = "rejected" => k \notin local /\ (k \in bucket => k \in refused)

=============================================================================
