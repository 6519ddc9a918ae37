------------------------ MODULE ImageStorage_proofs ------------------------
(***************************************************************************)
(* Theorems about ImageStorage, for any number of handlers, files and      *)
(* photos in a request.                                                    *)
(***************************************************************************)
EXTENDS ImageStorage, TLAPS

\* A request that is open holds its files alone.
HeldFiles ==
  /\ \A w \in Workers : \A k \in Held(w) : fate[k] = "open"
  /\ \A v, w \in Workers : v # w => Held(v) \cap Held(w) = {}

\* What a request has saved is stored; what it is saving is on the disk alone.
\* A single file ends its request; the photos have no copies left when they are
\* about to be committed.
JobConsistent(j) ==
  /\ j.keys \subseteq Stored
  /\ j.at = "save" => j.left > 0
  /\ j.at # "save" => j.key = None
  /\ j.key # None => j.key \in local /\ j.key \notin bucket /\ j.key \notin j.keys
  /\ ~j.keepLocal => j.keys = {} /\ j.at \in {"save", "rollback"}
  /\ S3 /\ j.at = "persist" => j.keys \cap local = {}

JobsConsistent == \A w \in Workers : job[w] # None => JobConsistent(job[w])

\* A key that is not made yet names no file, and without S3 there is no object.
Unmade ==
  /\ \A k \in Keys : fate[k] = "new" => k \notin local /\ k \notin bucket
  /\ ~S3 => bucket = {}

IInv ==
  /\ TypeOK
  /\ HeldFiles
  /\ JobsConsistent
  /\ Unmade
  /\ GivenAreStored
  /\ CopiesAreTemporary
  /\ RejectedLeaveNothing

-----------------------------------------------------------------------------
\* A request of which nobody else's files are touched: only its own job and the
\* files it holds or makes have to be looked at.
LEMMA OthersKeep ==
  ASSUME IInv, NEW w \in Workers, NEW K \in SUBSET Keys, TypeOK', backend' = backend,
         \A v \in Workers \ {w} : job'[v] = job[v],
         \A k \in K : k \in Held(w) \/ fate[k] = "new",
         \A k \in Keys \ K :
           /\ fate'[k] = fate[k]
           /\ k \in local' <=> k \in local
           /\ k \in bucket' <=> k \in bucket
           /\ k \in refused' <=> k \in refused,
         ~S3 => bucket' = bucket,
         \* The files of the request afterwards.
         Held(w)' \subseteq Held(w) \cup K,
         \A k \in Held(w) : k \in Held(w)' \/ k \in K,
         \A k \in Held(w)' : fate'[k] = "open",
         job'[w] # None => JobConsistent(job[w])',
         \A k \in K :
           /\ fate'[k] # "new"
           /\ fate'[k] = "given" => k \in Stored'
           /\ S3 /\ k \in local' => fate'[k] = "crashed" \/ k \in Held(w)'
           /\ fate'[k] = "rejected" => k \notin local' /\ (k \in bucket' => k \in refused')
  PROVE  IInv'
<1>1. ASSUME NEW v \in Workers \ {w}
      PROVE  /\ Held(v)' = Held(v)
             /\ Held(v) \cap K = {}
             /\ Held(v) \cap Held(w) = {}
             /\ Held(v) \subseteq Keys
  <2>1. Held(v)' = Held(v)
    BY DEF Held
  <2>2. \A k \in Held(v) : fate[k] = "open"
    BY DEF IInv, HeldFiles
  <2>3. Held(v) \cap Held(w) = {}
    BY DEF IInv, HeldFiles
  <2>4. Held(v) \subseteq Keys
    BY DEF Held, IInv, TypeOK, Job
  <2> QED BY <2>1, <2>2, <2>3, <2>4
<1>2. HeldFiles'
  <2>1. ASSUME NEW v \in Workers, NEW k \in Held(v)'
        PROVE  fate'[k] = "open"
    BY <1>1, <2>1 DEF IInv, HeldFiles
  <2>2. ASSUME NEW u \in Workers, NEW v \in Workers, u # v
        PROVE  Held(u)' \cap Held(v)' = {}
    BY <1>1, <2>2 DEF IInv, HeldFiles
  <2> QED BY <2>1, <2>2 DEF HeldFiles
<1>3. JobsConsistent'
  <2>1. ASSUME NEW v \in Workers \ {w}, job[v] # None
        PROVE  JobConsistent(job[v])'
    <3>1. JobConsistent(job[v]) /\ job'[v] = job[v] /\ job[v] \in Job
      BY <2>1 DEF IInv, JobsConsistent, TypeOK
    <3>2. \A k \in Held(v) : /\ k \in local' <=> k \in local
                             /\ k \in bucket' <=> k \in bucket
      BY <1>1, <2>1
    <3>3. \A k \in job[v].keys : k \in Held(v)
      BY <2>1 DEF Held
    <3>4. job[v].key # None => job[v].key \in Held(v)
      BY <2>1 DEF Held
    <3> QED BY <3>1, <3>2, <3>3, <3>4 DEF JobConsistent, Stored, S3
  <2> QED BY <2>1 DEF JobsConsistent
<1>4. Unmade'
  BY DEF IInv, Unmade, S3
<1>5. GivenAreStored'
  BY DEF IInv, GivenAreStored, Stored, S3
<1>6. CopiesAreTemporary'
  <2> SUFFICES ASSUME S3, NEW k \in local'
               PROVE  fate'[k] = "crashed" \/ \E v \in Workers : k \in Held(v)'
    BY DEF CopiesAreTemporary, S3
  <2>1. k \in Keys
    BY DEF TypeOK
  <2>2. CASE k \in K
    BY <2>2
  <2>3. CASE k \notin K
    <3>1. fate'[k] = fate[k] /\ k \in local
      BY <2>1, <2>3
    <3>2. fate[k] = "crashed" \/ \E v \in Workers : k \in Held(v)
      BY <3>1 DEF IInv, CopiesAreTemporary
    <3> QED BY <2>3, <3>1, <3>2, <1>1
  <2> QED BY <2>2, <2>3
<1>7. RejectedLeaveNothing'
  BY DEF IInv, RejectedLeaveNothing
<1> QED BY <1>2, <1>3, <1>4, <1>5, <1>6, <1>7 DEF IInv

\* The job of a worker, with what the invariant says of it.
LEMMA JobFacts ==
  ASSUME IInv, NEW w \in Workers, job[w] # None
  PROVE  /\ job[w] \in Job
         /\ JobConsistent(job[w])
         /\ Held(w) = job[w].keys \cup ({job[w].key} \ {None})
         /\ Held(w) \subseteq Keys
         /\ \A k \in Held(w) : fate[k] = "open"
BY DEF IInv, TypeOK, JobsConsistent, HeldFiles, Held, Job

-----------------------------------------------------------------------------
LEMMA UploadKeeps ==
  ASSUME IInv, NEW w \in Workers, NEW j \in Job, job[w] = None,
         j.at = "save", j.keys = {}, j.key = None, j.left > 0,
         job' = [job EXCEPT ![w] = j],
         UNCHANGED <<backend, local, bucket, fate, refused>>
  PROVE  IInv'
<1>1. TypeOK'
  BY DEF IInv, TypeOK
<1>2. Held(w)' = {} /\ Held(w) = {} /\ job'[w] = j
  BY DEF IInv, TypeOK, Held
<1>3. JobConsistent(job[w])'
  BY <1>2 DEF JobConsistent
<1>4. \A v \in Workers \ {w} : job'[v] = job[v]
  BY DEF IInv, TypeOK
<1> QED BY <1>1, <1>2, <1>3, <1>4, OthersKeep

LEMMA StreamKeeps ==
  ASSUME IInv, NEW w \in Workers, NEW k \in Keys, StreamToDisk(w, k)
  PROVE  IInv'
<1> DEFINE j == job[w]
           nj == [job[w] EXCEPT !.key = k]
<1>1. /\ job[w] # None /\ j.at = "save" /\ j.key = None /\ fate[k] = "new"
      /\ local' = local \cup {k} /\ fate' = [x \in Keys |-> IF x = k THEN "open" ELSE fate[x]]
      /\ job' = [job EXCEPT ![w] = nj]
      /\ UNCHANGED <<backend, bucket, refused>>
  BY DEF StreamToDisk, Busy, End
<1>2. /\ j \in Job /\ JobConsistent(j) /\ Held(w) = j.keys
      /\ Held(w) \subseteq Keys /\ \A x \in Held(w) : fate[x] = "open"
  BY <1>1, JobFacts
<1>3. k \notin local /\ k \notin bucket /\ k # None
  BY <1>1, NoneAssumption DEF IInv, Unmade
<1>4. /\ nj \in Job /\ nj.keys = j.keys /\ nj.key = k /\ nj.at = "save" /\ nj.left = j.left
      /\ nj.keepLocal = j.keepLocal
  BY <1>1, <1>2 DEF Job
<1>5. nj # None
  BY <1>4, NoneAssumption
<1>6. TypeOK' /\ job'[w] = nj /\ \A v \in Workers \ {w} : job'[v] = job[v]
  BY <1>1, <1>4 DEF IInv, TypeOK, Fates
<1>7. Held(w)' = j.keys \cup {k}
  BY <1>3, <1>4, <1>5, <1>6 DEF Held
<1>8. k \notin j.keys
  BY <1>1, <1>2
<1>9. JobConsistent(job[w])'
  BY <1>1, <1>2, <1>3, <1>4, <1>6, <1>8 DEF JobConsistent, Stored, S3
<1> HIDE DEF j, nj
<1> QED
  <2> DEFINE K == {k}
  <2>1. \A x \in Keys \ K : /\ fate'[x] = fate[x]
                            /\ x \in local' <=> x \in local
                            /\ x \in bucket' <=> x \in bucket
                            /\ x \in refused' <=> x \in refused
    BY <1>1
  <2>2. \A x \in K : fate'[x] = "open"
    BY <1>1
  <2>3. \A x \in Held(w)' : fate'[x] = "open"
    BY <1>1, <1>2, <1>7
  <2> QED BY <1>1, <1>2, <1>6, <1>7, <1>9, <2>1, <2>2, <2>3, OthersKeep

\* A file that cannot be saved: its copy is gone, and the object only when S3 failed.
LEMMA GiveUpKeeps ==
  ASSUME IInv, NEW w \in Workers, Busy(w, "save"), job[w].key # None, GiveUp(w),
         local' = local \ {job[w].key},
         \/ UNCHANGED <<bucket, refused>>
         \/ S3 /\ bucket' = bucket \cup {job[w].key} /\ refused' = refused \cup {job[w].key},
         backend' = backend
  PROVE  IInv'
<1> DEFINE j == job[w]
           k == job[w].key
           nj == [job[w] EXCEPT !.at = "rollback", !.key = None]
           K == {job[w].key}
<1>1. /\ job[w] # None /\ j.at = "save" /\ k # None
      /\ fate' = [x \in Keys |-> IF x \in K THEN "rejected" ELSE fate[x]]
      /\ job' = [job EXCEPT ![w] = nj]
  BY DEF GiveUp, Busy, End
<1>2. /\ j \in Job /\ JobConsistent(j) /\ Held(w) = j.keys \cup {k} /\ k \in Keys
      /\ \A x \in Held(w) : fate[x] = "open"
  BY <1>1, JobFacts DEF Job
<1>3. /\ nj \in Job /\ nj.keys = j.keys /\ nj.key = None /\ nj.at = "rollback"
      /\ nj.keepLocal = j.keepLocal
  BY <1>2 DEF Job
<1>4. TypeOK' /\ job'[w] = nj /\ \A v \in Workers \ {w} : job'[v] = job[v]
  BY <1>1, <1>2, <1>3 DEF IInv, TypeOK, Fates
<1>5. Held(w)' = j.keys /\ k \notin j.keys
  BY <1>2, <1>3, <1>4, NoneAssumption DEF Held, JobConsistent
<1>6. JobConsistent(job[w])'
  BY <1>1, <1>2, <1>3, <1>4, <1>5 DEF JobConsistent, Stored, S3
<1>8. \A x \in Keys \ K : /\ fate'[x] = fate[x]
                          /\ x \in local' <=> x \in local
                          /\ x \in bucket' <=> x \in bucket
                          /\ x \in refused' <=> x \in refused
  BY <1>1
<1>9. \A x \in K : fate'[x] = "rejected" /\ x \notin local' /\ (x \in bucket' => x \in refused')
  BY <1>1, <1>2 DEF JobConsistent
<1>10. \A x \in Held(w)' : fate'[x] = "open"
  BY <1>1, <1>2, <1>5 DEF Job
<1>11. K \in SUBSET Keys /\ \A x \in K : x \in Held(w)
  BY <1>2
<1> HIDE DEF j, k, nj, K
<1>12. Held(w)' \subseteq Held(w) \cup K /\ \A x \in Held(w) : x \in Held(w)' \/ x \in K
  BY <1>2, <1>5 DEF K, k
<1> QED BY <1>4, <1>6, <1>8, <1>9, <1>10, <1>11, <1>12, OthersKeep

\* The objects and copies after a file is saved.
LEMMA SaveKeeps ==
  ASSUME IInv, NEW w \in Workers, Save(w)
  PROVE  IInv'
<1> DEFINE j == job[w]
           k == job[w].key
           K == {job[w].key}
<1>1. /\ job[w] # None /\ j.at = "save" /\ k # None
      /\ local' = CopyAfterPut(w)
      /\ bucket' = IF S3 THEN bucket \cup {k} ELSE bucket
      /\ UNCHANGED <<backend, refused>>
  BY DEF Save, Busy
<1>2. /\ j \in Job /\ JobConsistent(j) /\ Held(w) = j.keys \cup {k} /\ k \in Keys
      /\ \A x \in Held(w) : fate[x] = "open"
  BY <1>1, JobFacts DEF Job
<1>3. K \in SUBSET Keys /\ \A x \in K : x \in Held(w)
  BY <1>2
<1>4. \A x \in Keys \ K : /\ x \in local' <=> x \in local
                          /\ x \in bucket' <=> x \in bucket
                          /\ x \in refused' <=> x \in refused
  BY <1>1 DEF CopyAfterPut
<1>5. k \in Stored'
  BY <1>1, <1>2 DEF CopyAfterPut, Stored, S3, JobConsistent
<1>6. local' \in SUBSET Keys /\ bucket' \in SUBSET Keys /\ backend' \in {"local", "s3"}
      /\ refused' \in SUBSET Keys
  BY <1>1, <1>2 DEF IInv, TypeOK, CopyAfterPut
<1>7. CASE j.keepLocal
  <2> DEFINE nj == SavePhoto(job[w])
  <2>1. job' = [job EXCEPT ![w] = nj] /\ fate' = fate /\ local' = local
    BY <1>7, <1>1 DEF Save, CopyAfterPut
  <2>2. j.left \in 1..MaxImages
    BY <1>1, <1>2, MaxImagesAssumption DEF JobConsistent, Job
  <2>3. /\ nj.keys = j.keys \cup {k} /\ nj.key = None /\ nj.left = j.left - 1
        /\ nj.at = (IF j.left = 1 THEN "select" ELSE "save") /\ nj.keepLocal
    BY <1>2, <1>7 DEF Job, SavePhoto
  <2>4. nj \in Job
    <3>1. nj.left \in 0..MaxImages
      BY <2>2, <2>3, MaxImagesAssumption
    <3>2. nj.keys \in SUBSET Keys /\ nj.at \in {"save", "select"} /\ nj.key = None
          /\ j.keepLocal \in BOOLEAN
      BY <1>2, <2>3 DEF Job
    <3> QED BY <3>1, <3>2 DEF Job, SavePhoto
  <2>5. TypeOK' /\ job'[w] = nj /\ \A v \in Workers \ {w} : job'[v] = job[v]
    BY <1>6, <2>1, <2>4 DEF IInv, TypeOK
  <2>6. Held(w)' = Held(w)
    BY <1>2, <2>3, <2>4, <2>5, NoneAssumption DEF Held
  <2>7. j.keys \subseteq Stored'
    BY <1>1, <1>2, <2>1 DEF JobConsistent, Stored, S3
  <2>8. JobConsistent(job[w])'
    <3>1. /\ job'[w].keys = j.keys \cup {k} /\ job'[w].key = None /\ job'[w].keepLocal
          /\ job'[w].left = j.left - 1 /\ job'[w].at \in {"save", "select"}
          /\ job'[w].at = "save" => j.left # 1
      BY <2>3, <2>5
    <3> HIDE DEF nj
    <3> QED BY <1>5, <2>2, <2>7, <3>1, MaxImagesAssumption DEF JobConsistent
  <2> HIDE DEF j, k, nj, K
  <2>9. \A x \in K : fate'[x] = "open" /\ x \in Held(w)'
    BY <1>2, <1>3, <2>1, <2>6
  <2>10. \A x \in Held(w)' : fate'[x] = "open"
    BY <1>2, <2>1, <2>6
  <2>11. ~S3 => bucket' = bucket
    BY <1>1
  <2> QED BY <1>1, <1>3, <1>4, <2>1, <2>5, <2>6, <2>8, <2>9, <2>10, <2>11, OthersKeep
<1>8. CASE ~j.keepLocal
  <2>1. /\ job' = [job EXCEPT ![w] = None]
        /\ fate' = [x \in Keys |-> IF x \in K THEN "given" ELSE fate[x]]
        /\ local' = IF S3 THEN local \ K ELSE local
    BY <1>8, <1>1 DEF Save, CopyAfterPut, Finish, End
  <2>2. TypeOK' /\ job'[w] = None /\ \A v \in Workers \ {w} : job'[v] = job[v]
    BY <1>6, <2>1 DEF IInv, TypeOK, Fates
  <2>3. Held(w)' = {} /\ Held(w) = K
    BY <1>2, <1>8, <2>2 DEF Held, JobConsistent
  <2>4. \A x \in K : fate'[x] = "given" /\ x \in Stored' /\ (S3 => x \notin local')
    BY <1>2, <1>5, <2>1
  <2> HIDE DEF j, k, K
  <2>5. \A x \in Keys \ K : fate'[x] = fate[x]
    BY <2>1
  <2>6. ~S3 => bucket' = bucket
    BY <1>1
  <2> QED BY <1>1, <1>3, <1>4, <2>2, <2>3, <2>4, <2>5, <2>6, OthersKeep
<1> QED BY <1>7, <1>8

-----------------------------------------------------------------------------
\* One file of a rejected upload goes.
LEMMA DeleteKeeps ==
  ASSUME IInv, NEW w \in Workers, NEW k \in Keys, NEW deleted \in BOOLEAN,
         DeleteFile(w, k, deleted)
  PROVE  IInv'
<1> DEFINE j == job[w]
           nj == [job[w] EXCEPT !.keys = @ \ {k}]
           K == {k}
<1>1. /\ job[w] # None /\ j.at = "rollback" /\ k \in j.keys
      /\ local' = local \ {k} /\ bucket' = DeleteObject(k, deleted)
      /\ refused' = IF S3 /\ ~deleted THEN refused \cup {k} ELSE refused
      /\ fate' = [x \in Keys |-> IF x \in K THEN "rejected" ELSE fate[x]]
      /\ job' = [job EXCEPT ![w] = nj] /\ backend' = backend
  BY DEF DeleteFile, Busy, End
<1>2. /\ j \in Job /\ JobConsistent(j) /\ j.key = None /\ Held(w) = j.keys
      /\ Held(w) \subseteq Keys /\ \A x \in Held(w) : fate[x] = "open"
  BY <1>1, JobFacts DEF JobConsistent
<1>3. /\ nj \in Job /\ nj.keys = j.keys \ {k} /\ nj.key = None /\ nj.at = "rollback"
      /\ nj.keepLocal = j.keepLocal
  BY <1>1, <1>2 DEF Job
<1>4. bucket' \in SUBSET Keys /\ \A x \in Keys \ K : x \in bucket' <=> x \in bucket
  BY <1>1 DEF DeleteObject, IInv, TypeOK
<1>5. TypeOK' /\ job'[w] = nj /\ \A v \in Workers \ {w} : job'[v] = job[v]
  BY <1>1, <1>3, <1>4 DEF IInv, TypeOK, Fates
<1>6. Held(w)' = j.keys \ {k}
  BY <1>3, <1>5, NoneAssumption DEF Held
<1>7. JobConsistent(job[w])'
  BY <1>1, <1>2, <1>3, <1>4, <1>5 DEF JobConsistent, Stored, S3, Job
<1>8. \A x \in Keys \ K : /\ fate'[x] = fate[x]
                          /\ x \in local' <=> x \in local
                          /\ x \in refused' <=> x \in refused
  BY <1>1
<1>9. ~S3 => bucket' = bucket /\ bucket = {}
  BY <1>1 DEF DeleteObject, IInv, Unmade
<1>10. \A x \in K : fate'[x] = "rejected" /\ x \notin local' /\ (x \in bucket' => x \in refused')
  BY <1>1, <1>9 DEF DeleteObject
<1>11. \A x \in Held(w)' : fate'[x] = "open"
  BY <1>1, <1>2, <1>6
<1>12. /\ K \in SUBSET Keys /\ \A x \in K : x \in Held(w)
       /\ Held(w)' \subseteq Held(w) \cup K /\ \A x \in Held(w) : x \in Held(w)' \/ x \in K
  BY <1>1, <1>2, <1>6
<1> HIDE DEF j, nj, K
<1> QED BY <1>1, <1>4, <1>5, <1>7, <1>8, <1>9, <1>10, <1>11, <1>12, OthersKeep

\* A request ends: its files are given out, with no copies left, or abandoned.
LEMMA EndKeeps ==
  ASSUME IInv, NEW w \in Workers, job[w] # None, job[w].key = None,
         NEW f \in {"given", "abandoned"}, End(job[w].keys, f), Finish(w),
         local' \in SUBSET local,
         ~S3 => local' = local,
         \A x \in local \ local' : x \in job[w].keys,
         S3 => job[w].keys \cap local' = {},
         UNCHANGED <<backend, bucket, refused>>
  PROVE  IInv'
<1> DEFINE j == job[w]
           K == job[w].keys
<1>1. /\ fate' = [x \in Keys |-> IF x \in K THEN f ELSE fate[x]]
      /\ job' = [job EXCEPT ![w] = None]
  BY DEF End, Finish
<1>2. /\ j \in Job /\ JobConsistent(j) /\ Held(w) = K /\ K \in SUBSET Keys
  BY JobFacts
<1>3. TypeOK' /\ job'[w] = None /\ \A v \in Workers \ {w} : job'[v] = job[v]
  BY <1>1 DEF IInv, TypeOK, Fates
<1>4. Held(w)' = {}
  BY <1>3 DEF Held
<1>5. \A x \in K : /\ fate'[x] = f /\ x \in Stored'
                   /\ S3 => x \notin local'
  BY <1>1, <1>2 DEF JobConsistent, Stored, S3
<1>6. \A x \in Keys \ K : /\ fate'[x] = fate[x]
                          /\ x \in local' <=> x \in local
  BY <1>1
<1> HIDE DEF j, K
<1>7. \A x \in K : fate'[x] # "new" /\ fate'[x] # "rejected"
  BY <1>5
<1>8. \A x \in K : x \in Held(w)
  BY <1>2
<1> QED BY <1>2, <1>3, <1>4, <1>5, <1>6, <1>7, <1>8, OthersKeep

LEMMA SelectKeeps ==
  ASSUME IInv, NEW w \in Workers, NEW chosen \in BOOLEAN, SelectRepresentative(w, chosen)
  PROVE  IInv'
<1> DEFINE j == job[w]
           K == job[w].keys
           nj == [job[w] EXCEPT !.at = "persist"]
<1>1. /\ job[w] # None /\ j.at = "select" /\ local' = DiscardLocal(K)
      /\ UNCHANGED <<backend, bucket, refused>>
  BY DEF SelectRepresentative, Busy
<1>2. /\ j \in Job /\ JobConsistent(j) /\ j.key = None /\ Held(w) = K /\ K \in SUBSET Keys
      /\ \A x \in Held(w) : fate[x] = "open"
  BY <1>1, JobFacts DEF JobConsistent
<1>3. /\ local' \in SUBSET local
      /\ ~S3 => local' = local
      /\ \A x \in local \ local' : x \in K
      /\ S3 => K \cap local' = {}
  BY <1>1 DEF DiscardLocal
<1>4. CASE ~chosen
  <2>1. End(K, "abandoned") /\ Finish(w)
    BY <1>4 DEF SelectRepresentative
  <2> QED BY <1>1, <1>2, <1>3, <2>1, EndKeeps
<1>5. CASE chosen
  <2>1. job' = [job EXCEPT ![w] = nj] /\ fate' = fate
    BY <1>5 DEF SelectRepresentative
  <2>2. /\ nj \in Job /\ nj.keys = K /\ nj.key = None /\ nj.at = "persist"
        /\ nj.keepLocal = j.keepLocal
    BY <1>2 DEF Job
  <2>3. TypeOK' /\ job'[w] = nj /\ \A v \in Workers \ {w} : job'[v] = job[v]
    BY <1>1, <1>3, <2>1, <2>2 DEF IInv, TypeOK
  <2>4. Held(w)' = Held(w)
    BY <1>2, <2>2, <2>3, NoneAssumption DEF Held
  <2>5. j.keys \subseteq Stored'
    BY <1>1, <1>2, <1>3 DEF JobConsistent, Stored, S3
  <2>6. j.keepLocal
    BY <1>1, <1>2 DEF JobConsistent
  <2>7. S3' <=> S3
    BY <1>1 DEF S3
  <2>8. JobConsistent(job[w])'
    BY <1>3, <2>2, <2>3, <2>5, <2>6, <2>7 DEF JobConsistent
  <2>9. \A x \in K : fate'[x] = "open" /\ x \in Held(w) /\ x \in Held(w)'
    BY <1>2, <2>1, <2>4
  <2>10. \A x \in Held(w)' : fate'[x] = "open"
    BY <1>2, <2>1, <2>4
  <2>11. \A x \in Keys \ K : x \in local' <=> x \in local
    BY <1>3
  <2> HIDE DEF j, K, nj
  <2> QED BY <1>1, <1>2, <2>1, <2>3, <2>4, <2>8, <2>9, <2>10, <2>11, OthersKeep
<1> QED BY <1>4, <1>5

LEMMA PersistKeeps ==
  ASSUME IInv, NEW w \in Workers, NEW committed \in BOOLEAN, Persist(w, committed)
  PROVE  IInv'
<1>1. /\ job[w] # None /\ job[w].at = "persist" /\ Finish(w)
      /\ End(job[w].keys, IF committed THEN "given" ELSE "abandoned")
      /\ UNCHANGED <<backend, local, bucket, refused>>
  BY DEF Persist, Busy
<1>2. job[w].key = None /\ (S3 => job[w].keys \cap local = {})
  BY <1>1, JobFacts DEF JobConsistent
<1>3. (IF committed THEN "given" ELSE "abandoned") \in {"given", "abandoned"}
  OBVIOUS
<1>4. local' \in SUBSET local /\ (S3 => job[w].keys \cap local' = {})
  BY <1>1, <1>2
<1> QED BY <1>1, <1>2, <1>3, <1>4, EndKeeps

\* A rejected upload that has deleted its files holds nothing any more.
LEMMA RejectKeeps ==
  ASSUME IInv, NEW w \in Workers, Reject(w)
  PROVE  IInv'
<1>1. /\ job[w] # None /\ job[w].keys = {} /\ job' = [job EXCEPT ![w] = None]
      /\ UNCHANGED <<backend, local, bucket, fate, refused>> /\ job[w].at = "rollback"
  BY DEF Reject, Busy, Finish
<1>2. Held(w) = {}
  BY <1>1, JobFacts DEF JobConsistent
<1>3. TypeOK' /\ job'[w] = None /\ \A v \in Workers \ {w} : job'[v] = job[v]
  BY <1>1 DEF IInv, TypeOK
<1>4. Held(w)' = {}
  BY <1>3 DEF Held
<1> QED BY <1>1, <1>2, <1>3, <1>4, OthersKeep

\* The files of every open request are those of requests that ended with the
\* process.
LEMMA RestartKeeps ==
  ASSUME IInv, Restart
  PROVE  IInv'
<1>1. /\ job' = [w \in Workers |-> None]
      /\ fate' = [k \in Keys |-> IF fate[k] = "open" THEN "crashed" ELSE fate[k]]
      /\ UNCHANGED <<backend, local, bucket, refused>>
  BY DEF Restart, End
<1>2. TypeOK'
  BY <1>1 DEF IInv, TypeOK, Fates
<1>3. \A w \in Workers : Held(w)' = {}
  BY <1>1 DEF Held
<1>4. HeldFiles' /\ JobsConsistent'
  BY <1>1, <1>3 DEF HeldFiles, JobsConsistent
<1>5. Unmade' /\ GivenAreStored' /\ RejectedLeaveNothing'
  BY <1>1 DEF IInv, Unmade, GivenAreStored, RejectedLeaveNothing, Stored, S3
<1>6. CopiesAreTemporary'
  <2> SUFFICES ASSUME S3, NEW k \in local
               PROVE  fate'[k] = "crashed"
    BY <1>1 DEF CopiesAreTemporary, S3
  <2>1. k \in Keys
    BY DEF IInv, TypeOK
  <2>2. fate[k] \in {"crashed", "open"}
    BY DEF IInv, CopiesAreTemporary, HeldFiles
  <2> QED BY <1>1, <2>1, <2>2
<1> QED BY <1>2, <1>4, <1>5, <1>6 DEF IInv

-----------------------------------------------------------------------------
LEMMA InitInv == Init => IInv
<1> SUFFICES ASSUME Init PROVE IInv
  OBVIOUS
<1>1. TypeOK
  BY DEF Init, TypeOK, Fates
<1>2. \A w \in Workers : Held(w) = {}
  BY DEF Init, Held
<1>3. HeldFiles /\ JobsConsistent
  BY <1>2 DEF Init, HeldFiles, JobsConsistent
<1>4. Unmade /\ GivenAreStored /\ CopiesAreTemporary /\ RejectedLeaveNothing
  BY DEF Init, Unmade, GivenAreStored, CopiesAreTemporary, RejectedLeaveNothing
<1> QED BY <1>1, <1>3, <1>4 DEF IInv

LEMMA NextInv == IInv /\ [Next]_vars => IInv'
<1> SUFFICES ASSUME IInv, [Next]_vars PROVE IInv'
  OBVIOUS
<1>1. CASE Restart
  BY <1>1, RestartKeeps
<1>2. ASSUME NEW w \in Workers, NEW n \in 0..MaxImages + 1, UploadImages(w, n)
      PROVE  IInv'
  <2> DEFINE j == [keepLocal |-> TRUE, at |-> "save", left |-> n, keys |-> {}, key |-> None]
  <2>1. n > 0 /\ j \in Job
    BY <1>2, MaxImagesAssumption DEF UploadImages, Accepts, Job
  <2> QED BY <1>2, <2>1, UploadKeeps DEF UploadImages
<1>3. ASSUME NEW w \in Workers, UploadFile(w)
      PROVE  IInv'
  <2> DEFINE j == [keepLocal |-> FALSE, at |-> "save", left |-> 1, keys |-> {}, key |-> None]
  <2>1. j \in Job
    BY MaxImagesAssumption DEF Job
  <2>2. /\ job[w] = None /\ job' = [job EXCEPT ![w] = j]
        /\ UNCHANGED <<backend, local, bucket, fate, refused>>
    BY <1>3 DEF UploadFile
  <2>3. j.at = "save" /\ j.keys = {} /\ j.key = None /\ j.left > 0
    OBVIOUS
  <2> HIDE DEF j
  <2> QED BY <2>1, <2>2, <2>3, UploadKeeps
<1>4. ASSUME NEW w \in Workers, StreamFails(w)
      PROVE  IInv'
  BY <1>4, GiveUpKeeps DEF StreamFails
<1>5. ASSUME NEW w \in Workers, NEW arrived \in BOOLEAN, PutFails(w, arrived)
      PROVE  IInv'
  BY <1>5, GiveUpKeeps DEF PutFails
<1>6. CASE UNCHANGED vars
  BY <1>6 DEF vars, IInv, TypeOK, HeldFiles, Held, JobsConsistent, JobConsistent, Unmade,
       GivenAreStored, CopiesAreTemporary, RejectedLeaveNothing, Stored, S3
<1> QED BY <1>1, <1>2, <1>3, <1>4, <1>5, <1>6, StreamKeeps, SaveKeeps, DeleteKeeps, RejectKeeps,
          SelectKeeps, PersistKeeps DEF Next, Step

\* The inductive invariant: an open request holds its files alone, and every other
\* file has the fate it should have.
THEOREM Invariance == Spec => []IInv
BY InitInv, NextInv, PTL DEF Spec

\* Type correctness of the storage, for any number of uploads and photos.
THEOREM TypeCorrect == Spec => []TypeOK
<1>1. IInv => TypeOK
  BY DEF IInv
<1> QED BY <1>1, Invariance, PTL

\* Every URL given out leads to a file, on either backend (save_file, discard_local).
THEOREM Given == Spec => []GivenAreStored
<1>1. IInv => GivenAreStored
  BY DEF IInv
<1> QED BY <1>1, Invariance, PTL

\* No copy outlives its request, except when the process ends (save_file,
\* upload_images).
THEOREM Copies == Spec => []CopiesAreTemporary
<1>1. IInv => CopiesAreTemporary
  BY DEF IInv
<1> QED BY <1>1, Invariance, PTL

\* A rejected upload leaves nothing behind that S3 did not refuse to delete
\* (upload_images, delete_file).
THEOREM Rejected == Spec => []RejectedLeaveNothing
<1>1. IInv => RejectedLeaveNothing
  BY DEF IInv
<1> QED BY <1>1, Invariance, PTL

=============================================================================
