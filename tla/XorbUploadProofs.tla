--------------------------- MODULE XorbUploadProofs ---------------------------
(***************************************************************************)
(* Proofs about uploading xorbs, for any set of uploads, hashes, layouts   *)
(* and chunks and any number of permits: what a disconnect cannot break,   *)
(* and that only a disconnect can make an object disagree with its record. *)
(***************************************************************************)
EXTENDS XorbUpload, FiniteSetTheorems, WellFoundedInduction, TLAPS

LEMMA InitIInv == Init => IInv
BY NoneAssumption, ForgedAssumption
   DEF Init, IInv, TypeOK, HandlerOK, StoreOK, UncutOK, AnswerOK, RecordHasObject,
       ObjectMatchesRecord, AckIsTrue, Indexed, Acknowledged, Critical, Verified,
       Jobs, Answers, Lock!MutexInit, Lock!MutexTypeOK

-------------------------------------------------------------------------------
\* With nobody cut, the upload that writes or inserts a xorb is the only one
\* between its lookup and its insert: the others do not hold the lock.
LEMMA OnlyWriter ==
    ASSUME IInv, NoneCut,
           NEW u \in Uploads, job[u] \in {"write", "insert"},
           NEW v \in Uploads, job[v] \in {"absent", "write", "written", "insert"},
           hash[u] = hash[v]
    PROVE  u = v
<1>1. ASSUME NEW w \in Uploads, job[w] \in {"absent", "write", "written", "insert"}
      PROVE  holder[hash[w]] = w
  <2>1. phase[w] = "running"
    BY <1>1 DEF IInv, TypeOK, HandlerOK, NoneCut, Jobs
  <2>2. QED
    BY <1>1, <2>1 DEF IInv, HandlerOK, Critical
<1>2. holder[hash[u]] = u /\ holder[hash[v]] = v
  BY <1>1
<1>3. QED
  BY <1>2

\* One lemma per action, one step per conjunct of the invariant.
LEMMA ArrivePreserves ==
    ASSUME IInv, NEW u \in Uploads, Arrive(u)
    PROVE  IInv'
<1>. USE NoneAssumption, ForgedAssumption
     DEF Arrive, reqVars, lockVars, indexVars, storeVars, jobFrame
<1>1. TypeOK'
  BY SizeAssumption, ChunksAssumption DEF IInv, TypeOK, Lock!MutexTypeOK, Jobs,
     Answers, HandlerOK, Verified
<1>2. HandlerOK'
  BY DEF IInv, TypeOK, Lock!MutexTypeOK, HandlerOK, Critical, Verified, Alive,
     Jobs, Answers
<1>3. StoreOK'
  BY DEF IInv, TypeOK, HandlerOK, StoreOK, RecordHasObject, Indexed, Verified,
     Jobs, Answers
<1>4. UncutOK'
  BY DEF IInv, TypeOK, HandlerOK, UncutOK, NoneCut, ObjectMatchesRecord, Indexed,
     Alive, Critical
<1>5. AnswerOK'
  BY DEF IInv, TypeOK, HandlerOK, AnswerOK, AckIsTrue, Indexed, Acknowledged,
     Alive
<1>6. QED
  BY <1>1, <1>2, <1>3, <1>4, <1>5 DEF IInv

LEMMA AcquirePermitPreserves ==
    ASSUME IInv, NEW u \in Uploads, AcquirePermit(u)
    PROVE  IInv'
<1>. USE NoneAssumption, ForgedAssumption
     DEF AcquirePermit, reqVars, lockVars, indexVars, storeVars, jobFrame
<1>1. TypeOK'
  BY SizeAssumption, ChunksAssumption DEF IInv, TypeOK, Lock!MutexTypeOK, Jobs,
     Answers, HandlerOK, Verified
<1>2. HandlerOK'
  BY DEF IInv, TypeOK, Lock!MutexTypeOK, HandlerOK, Critical, Verified, Alive,
     Jobs, Answers
<1>3. StoreOK'
  BY DEF IInv, TypeOK, HandlerOK, StoreOK, RecordHasObject, Indexed, Verified,
     Jobs, Answers
<1>4. UncutOK'
  BY DEF IInv, TypeOK, HandlerOK, UncutOK, NoneCut, ObjectMatchesRecord, Indexed,
     Alive, Critical
<1>5. AnswerOK'
  BY DEF IInv, TypeOK, HandlerOK, AnswerOK, AckIsTrue, Indexed, Acknowledged,
     Alive
<1>6. QED
  BY <1>1, <1>2, <1>3, <1>4, <1>5 DEF IInv

LEMMA ReadBodyPreserves ==
    ASSUME IInv, NEW u \in Uploads, ReadBody(u)
    PROVE  IInv'
<1>. USE NoneAssumption, ForgedAssumption
     DEF ReadBody, Start, reqVars, lockVars, indexVars, storeVars, jobFrame
<1>1. TypeOK'
  BY SizeAssumption, ChunksAssumption DEF IInv, TypeOK, Lock!MutexTypeOK, Jobs,
     Answers, HandlerOK, Verified
<1>2. HandlerOK'
  BY DEF IInv, TypeOK, Lock!MutexTypeOK, HandlerOK, Critical, Verified, Alive,
     Jobs, Answers
<1>3. StoreOK'
  BY DEF IInv, TypeOK, HandlerOK, StoreOK, RecordHasObject, Indexed, Verified,
     Jobs, Answers
<1>4. UncutOK'
  BY DEF IInv, TypeOK, HandlerOK, UncutOK, NoneCut, ObjectMatchesRecord, Indexed,
     Alive, Critical
<1>5. AnswerOK'
  BY DEF IInv, TypeOK, HandlerOK, AnswerOK, AckIsTrue, Indexed, Acknowledged,
     Alive
<1>6. QED
  BY <1>1, <1>2, <1>3, <1>4, <1>5 DEF IInv

LEMMA ReadFailsPreserves ==
    ASSUME IInv, NEW u \in Uploads, ReadFails(u)
    PROVE  IInv'
<1>. USE NoneAssumption, ForgedAssumption
     DEF ReadFails, Respond, End, reqVars, lockVars, indexVars, storeVars,
         jobFrame
<1>1. TypeOK'
  BY SizeAssumption, ChunksAssumption DEF IInv, TypeOK, Lock!MutexTypeOK, Jobs,
     Answers, HandlerOK, Verified
<1>2. HandlerOK'
  BY DEF IInv, TypeOK, Lock!MutexTypeOK, HandlerOK, Critical, Verified, Alive,
     Jobs, Answers
<1>3. StoreOK'
  BY DEF IInv, TypeOK, HandlerOK, StoreOK, RecordHasObject, Indexed, Verified,
     Jobs, Answers
<1>4. UncutOK'
  BY DEF IInv, TypeOK, HandlerOK, UncutOK, NoneCut, ObjectMatchesRecord, Indexed,
     Alive, Critical
<1>5. AnswerOK'
  BY DEF IInv, TypeOK, HandlerOK, AnswerOK, AckIsTrue, Indexed, Acknowledged,
     Alive
<1>6. QED
  BY <1>1, <1>2, <1>3, <1>4, <1>5 DEF IInv

LEMMA RequestLockPreserves ==
    ASSUME IInv, NEW u \in Uploads, RequestLock(u)
    PROVE  IInv'
<1>. USE NoneAssumption, ForgedAssumption
     DEF RequestLock, Lock!Request, reqVars, lockVars, indexVars, storeVars,
         jobFrame
<1>1. TypeOK'
  BY SizeAssumption, ChunksAssumption DEF IInv, TypeOK, Lock!MutexTypeOK, Jobs,
     Answers, HandlerOK, Verified
<1>2. HandlerOK'
  BY DEF IInv, TypeOK, Lock!MutexTypeOK, HandlerOK, Critical, Verified, Alive,
     Jobs, Answers
<1>3. StoreOK'
  BY DEF IInv, TypeOK, HandlerOK, StoreOK, RecordHasObject, Indexed, Verified,
     Jobs, Answers
<1>4. UncutOK'
  BY DEF IInv, TypeOK, HandlerOK, UncutOK, NoneCut, ObjectMatchesRecord, Indexed,
     Alive, Critical
<1>5. AnswerOK'
  BY DEF IInv, TypeOK, HandlerOK, AnswerOK, AckIsTrue, Indexed, Acknowledged,
     Alive
<1>6. QED
  BY <1>1, <1>2, <1>3, <1>4, <1>5 DEF IInv

LEMMA TakeLockPreserves ==
    ASSUME IInv, NEW u \in Uploads, TakeLock(u)
    PROVE  IInv'
<1>. USE NoneAssumption, ForgedAssumption
     DEF TakeLock, Lock!Grant, Start, reqVars, lockVars, indexVars, storeVars,
         jobFrame
<1>1. TypeOK'
  BY SizeAssumption, ChunksAssumption DEF IInv, TypeOK, Lock!MutexTypeOK, Jobs,
     Answers, HandlerOK, Verified
<1>2. HandlerOK'
  BY DEF IInv, TypeOK, Lock!MutexTypeOK, HandlerOK, Critical, Verified, Alive,
     Jobs, Answers
<1>3. StoreOK'
  BY DEF IInv, TypeOK, HandlerOK, StoreOK, RecordHasObject, Indexed, Verified,
     Jobs, Answers
<1>4. UncutOK'
  BY DEF IInv, TypeOK, HandlerOK, UncutOK, NoneCut, ObjectMatchesRecord, Indexed,
     Alive, Critical
<1>5. AnswerOK'
  BY DEF IInv, TypeOK, HandlerOK, AnswerOK, AckIsTrue, Indexed, Acknowledged,
     Alive
<1>6. QED
  BY <1>1, <1>2, <1>3, <1>4, <1>5 DEF IInv

LEMMA FoundExistingPreserves ==
    ASSUME IInv, NEW u \in Uploads, FoundExisting(u)
    PROVE  IInv'
<1>. USE NoneAssumption, ForgedAssumption
     DEF FoundExisting, Respond, End, reqVars, lockVars, indexVars, storeVars,
         jobFrame
<1>1. TypeOK'
  BY SizeAssumption, ChunksAssumption DEF IInv, TypeOK, Lock!MutexTypeOK, Jobs,
     Answers, HandlerOK, Verified
<1>2. HandlerOK'
  BY DEF IInv, TypeOK, Lock!MutexTypeOK, HandlerOK, Critical, Verified, Alive,
     Jobs, Answers
<1>3. StoreOK'
  BY DEF IInv, TypeOK, HandlerOK, StoreOK, RecordHasObject, Indexed, Verified,
     Jobs, Answers
<1>4. UncutOK'
  BY DEF IInv, TypeOK, HandlerOK, UncutOK, NoneCut, ObjectMatchesRecord, Indexed,
     Alive, Critical
<1>5. AnswerOK'
  BY DEF IInv, TypeOK, HandlerOK, AnswerOK, AckIsTrue, Indexed, Acknowledged,
     Alive
<1>6. QED
  BY <1>1, <1>2, <1>3, <1>4, <1>5 DEF IInv

LEMMA StartWritePreserves ==
    ASSUME IInv, NEW u \in Uploads, StartWrite(u)
    PROVE  IInv'
<1>. USE NoneAssumption, ForgedAssumption
     DEF StartWrite, Start, reqVars, lockVars, indexVars, storeVars, jobFrame
<1>1. TypeOK'
  BY SizeAssumption, ChunksAssumption DEF IInv, TypeOK, Lock!MutexTypeOK, Jobs,
     Answers, HandlerOK, Verified
<1>2. HandlerOK'
  BY DEF IInv, TypeOK, Lock!MutexTypeOK, HandlerOK, Critical, Verified, Alive,
     Jobs, Answers
<1>3. StoreOK'
  BY DEF IInv, TypeOK, HandlerOK, StoreOK, RecordHasObject, Indexed, Verified,
     Jobs, Answers
<1>4. UncutOK'
  BY DEF IInv, TypeOK, HandlerOK, UncutOK, NoneCut, ObjectMatchesRecord, Indexed,
     Alive, Critical
<1>5. AnswerOK'
  BY DEF IInv, TypeOK, HandlerOK, AnswerOK, AckIsTrue, Indexed, Acknowledged,
     Alive
<1>6. QED
  BY <1>1, <1>2, <1>3, <1>4, <1>5 DEF IInv

LEMMA StartInsertPreserves ==
    ASSUME IInv, NEW u \in Uploads, StartInsert(u)
    PROVE  IInv'
<1>. USE NoneAssumption, ForgedAssumption
     DEF StartInsert, Start, reqVars, lockVars, indexVars, storeVars, jobFrame
<1>1. TypeOK'
  BY SizeAssumption, ChunksAssumption DEF IInv, TypeOK, Lock!MutexTypeOK, Jobs,
     Answers, HandlerOK, Verified
<1>2. HandlerOK'
  BY DEF IInv, TypeOK, Lock!MutexTypeOK, HandlerOK, Critical, Verified, Alive,
     Jobs, Answers
<1>3. StoreOK'
  BY DEF IInv, TypeOK, HandlerOK, StoreOK, RecordHasObject, Indexed, Verified,
     Jobs, Answers
<1>4. UncutOK'
  BY DEF IInv, TypeOK, HandlerOK, UncutOK, NoneCut, ObjectMatchesRecord, Indexed,
     Alive, Critical
<1>5. AnswerOK'
  BY DEF IInv, TypeOK, HandlerOK, AnswerOK, AckIsTrue, Indexed, Acknowledged,
     Alive
<1>6. QED
  BY <1>1, <1>2, <1>3, <1>4, <1>5 DEF IInv

LEMMA RespondInsertedPreserves ==
    ASSUME IInv, NEW u \in Uploads, RespondInserted(u)
    PROVE  IInv'
<1>. USE NoneAssumption, ForgedAssumption
     DEF RespondInserted, Respond, End, reqVars, lockVars, indexVars, storeVars,
         jobFrame
<1>1. TypeOK'
  BY SizeAssumption, ChunksAssumption DEF IInv, TypeOK, Lock!MutexTypeOK, Jobs,
     Answers, HandlerOK, Verified
<1>2. HandlerOK'
  BY DEF IInv, TypeOK, Lock!MutexTypeOK, HandlerOK, Critical, Verified, Alive,
     Jobs, Answers
<1>3. StoreOK'
  BY DEF IInv, TypeOK, HandlerOK, StoreOK, RecordHasObject, Indexed, Verified,
     Jobs, Answers
<1>4. UncutOK'
  BY DEF IInv, TypeOK, HandlerOK, UncutOK, NoneCut, ObjectMatchesRecord, Indexed,
     Alive, Critical
<1>5. AnswerOK'
  BY DEF IInv, TypeOK, HandlerOK, AnswerOK, AckIsTrue, Indexed, Acknowledged,
     Alive
<1>6. QED
  BY <1>1, <1>2, <1>3, <1>4, <1>5 DEF IInv

LEMMA RespondErrorPreserves ==
    ASSUME IInv, NEW u \in Uploads, RespondError(u)
    PROVE  IInv'
<1>. USE NoneAssumption, ForgedAssumption
     DEF RespondError, Respond, End, reqVars, lockVars, indexVars, storeVars,
         jobFrame
<1>1. TypeOK'
  BY SizeAssumption, ChunksAssumption DEF IInv, TypeOK, Lock!MutexTypeOK, Jobs,
     Answers, HandlerOK, Verified
<1>2. HandlerOK'
  BY DEF IInv, TypeOK, Lock!MutexTypeOK, HandlerOK, Critical, Verified, Alive,
     Jobs, Answers
<1>3. StoreOK'
  BY DEF IInv, TypeOK, HandlerOK, StoreOK, RecordHasObject, Indexed, Verified,
     Jobs, Answers
<1>4. UncutOK'
  BY DEF IInv, TypeOK, HandlerOK, UncutOK, NoneCut, ObjectMatchesRecord, Indexed,
     Alive, Critical
<1>5. AnswerOK'
  BY DEF IInv, TypeOK, HandlerOK, AnswerOK, AckIsTrue, Indexed, Acknowledged,
     Alive
<1>6. QED
  BY <1>1, <1>2, <1>3, <1>4, <1>5 DEF IInv

LEMMA RunVerifyPreserves ==
    ASSUME IInv, NEW u \in Uploads, RunVerify(u)
    PROVE  IInv'
<1>. USE NoneAssumption, ForgedAssumption
     DEF RunVerify, Answer, Alive, reqVars, lockVars, indexVars, storeVars,
         jobFrame
<1>1. TypeOK'
  BY SizeAssumption, ChunksAssumption DEF IInv, TypeOK, Lock!MutexTypeOK, Jobs,
     Answers, HandlerOK, Verified
<1>2. HandlerOK'
  BY DEF IInv, TypeOK, Lock!MutexTypeOK, HandlerOK, Critical, Verified, Alive,
     Jobs, Answers
<1>3. StoreOK'
  BY DEF IInv, TypeOK, HandlerOK, StoreOK, RecordHasObject, Indexed, Verified,
     Jobs, Answers
<1>4. UncutOK'
  BY DEF IInv, TypeOK, HandlerOK, UncutOK, NoneCut, ObjectMatchesRecord, Indexed,
     Alive, Critical
<1>5. AnswerOK'
  BY DEF IInv, TypeOK, HandlerOK, AnswerOK, AckIsTrue, Indexed, Acknowledged,
     Alive
<1>6. QED
  BY <1>1, <1>2, <1>3, <1>4, <1>5 DEF IInv

LEMMA RunLookupPreserves ==
    ASSUME IInv, NEW u \in Uploads, RunLookup(u)
    PROVE  IInv'
<1>. USE NoneAssumption, ForgedAssumption
     DEF RunLookup, Answer, Alive, reqVars, lockVars, indexVars, storeVars,
         jobFrame
<1>1. TypeOK'
  BY SizeAssumption, ChunksAssumption DEF IInv, TypeOK, Lock!MutexTypeOK, Jobs,
     Answers, HandlerOK, Verified
<1>2. HandlerOK'
  BY DEF IInv, TypeOK, Lock!MutexTypeOK, HandlerOK, Critical, Verified, Alive,
     Jobs, Answers
<1>3. StoreOK'
  BY DEF IInv, TypeOK, HandlerOK, StoreOK, RecordHasObject, Indexed, Verified,
     Jobs, Answers
<1>4. UncutOK'
  BY DEF IInv, TypeOK, HandlerOK, UncutOK, NoneCut, ObjectMatchesRecord, Indexed,
     Alive, Critical
<1>5. AnswerOK'
  BY DEF IInv, TypeOK, HandlerOK, AnswerOK, AckIsTrue, Indexed, Acknowledged,
     Alive
<1>6. QED
  BY <1>1, <1>2, <1>3, <1>4, <1>5 DEF IInv

LEMMA RunWritePreserves ==
    ASSUME IInv, NEW u \in Uploads, RunWrite(u)
    PROVE  IInv'
<1>. USE NoneAssumption, ForgedAssumption
     DEF RunWrite, Answer, Alive, reqVars, lockVars, indexVars, storeVars,
         jobFrame
<1>1. TypeOK'
  BY SizeAssumption, ChunksAssumption DEF IInv, TypeOK, Lock!MutexTypeOK, Jobs,
     Answers, HandlerOK, Verified
<1>2. HandlerOK'
  BY DEF IInv, TypeOK, Lock!MutexTypeOK, HandlerOK, Critical, Verified, Alive,
     Jobs, Answers
<1>3. StoreOK'
  BY DEF IInv, TypeOK, HandlerOK, StoreOK, RecordHasObject, Indexed, Verified,
     Jobs, Answers
<1>4. UncutOK'
  <2>1. SUFFICES ASSUME NoneCut
               PROVE  /\ ObjectMatchesRecord'
                      /\ \A v \in Uploads :
                            /\ job'[v] \in {"absent", "write", "written", "insert"} =>
                                  ~ Indexed(hash[v])'
                            /\ job'[v] \in {"written", "insert"} =>
                                  object'[hash[v]] = body[v]
    BY DEF UncutOK, NoneCut
  <2>2. phase[u] = "running" /\ hash[u] \in Hashes /\ ~ Indexed(hash[u])
    BY <2>1 DEF IInv, TypeOK, HandlerOK, NoneCut, UncutOK
  <2>3. \A v \in Uploads \ {u} :
          job[v] \in {"absent", "write", "written", "insert"} => hash[v] # hash[u]
    BY <2>1, OnlyWriter
  <2>4. object' \in {object, [object EXCEPT ![hash[u]] = body[u]]}
    OBVIOUS
  <2>5. ObjectMatchesRecord'
    BY <2>1, <2>2, <2>4 DEF IInv, TypeOK, HandlerOK, UncutOK,
       ObjectMatchesRecord, Indexed
  <2>6. ASSUME NEW v \in Uploads,
               job'[v] \in {"absent", "write", "written", "insert"}
        PROVE  ~ Indexed(hash[v])'
    BY <2>1, <2>2, <2>6 DEF IInv, TypeOK, HandlerOK, UncutOK,
       ObjectMatchesRecord, Indexed
  <2>7. ASSUME NEW v \in Uploads, job'[v] \in {"written", "insert"}
        PROVE  object'[hash[v]] = body[v]
    BY <2>1, <2>2, <2>3, <2>4, <2>7 DEF IInv, TypeOK, HandlerOK, UncutOK,
       ObjectMatchesRecord, Indexed
  <2>8. QED
    BY <2>5, <2>6, <2>7
<1>5. AnswerOK'
  BY DEF IInv, TypeOK, HandlerOK, AnswerOK, AckIsTrue, Indexed, Acknowledged,
     Alive
<1>6. QED
  BY <1>1, <1>2, <1>3, <1>4, <1>5 DEF IInv

LEMMA WriteFailsPreserves ==
    ASSUME IInv, NEW u \in Uploads, WriteFails(u)
    PROVE  IInv'
<1>. USE NoneAssumption, ForgedAssumption
     DEF WriteFails, Answer, Alive, reqVars, lockVars, indexVars, storeVars,
         jobFrame
<1>1. TypeOK'
  BY SizeAssumption, ChunksAssumption DEF IInv, TypeOK, Lock!MutexTypeOK, Jobs,
     Answers, HandlerOK, Verified
<1>2. HandlerOK'
  BY DEF IInv, TypeOK, Lock!MutexTypeOK, HandlerOK, Critical, Verified, Alive,
     Jobs, Answers
<1>3. StoreOK'
  BY DEF IInv, TypeOK, HandlerOK, StoreOK, RecordHasObject, Indexed, Verified,
     Jobs, Answers
<1>4. UncutOK'
  <2>1. SUFFICES ASSUME NoneCut
               PROVE  /\ ObjectMatchesRecord'
                      /\ \A v \in Uploads :
                            /\ job'[v] \in {"absent", "write", "written", "insert"} =>
                                  ~ Indexed(hash[v])'
                            /\ job'[v] \in {"written", "insert"} =>
                                  object'[hash[v]] = body[v]
    BY DEF UncutOK, NoneCut
  <2>2. phase[u] = "running" /\ hash[u] \in Hashes /\ ~ Indexed(hash[u])
    BY <2>1 DEF IInv, TypeOK, HandlerOK, NoneCut, UncutOK
  <2>3. \A v \in Uploads \ {u} :
          job[v] \in {"absent", "write", "written", "insert"} => hash[v] # hash[u]
    BY <2>1, OnlyWriter
  <2>4. object' \in {object, [object EXCEPT ![hash[u]] = body[u]]}
    OBVIOUS
  <2>5. ObjectMatchesRecord'
    BY <2>1, <2>2, <2>4 DEF IInv, TypeOK, HandlerOK, UncutOK,
       ObjectMatchesRecord, Indexed
  <2>6. ASSUME NEW v \in Uploads,
               job'[v] \in {"absent", "write", "written", "insert"}
        PROVE  ~ Indexed(hash[v])'
    BY <2>1, <2>2, <2>6 DEF IInv, TypeOK, HandlerOK, UncutOK,
       ObjectMatchesRecord, Indexed
  <2>7. ASSUME NEW v \in Uploads, job'[v] \in {"written", "insert"}
        PROVE  object'[hash[v]] = body[v]
    BY <2>1, <2>2, <2>3, <2>4, <2>7 DEF IInv, TypeOK, HandlerOK, UncutOK,
       ObjectMatchesRecord, Indexed
  <2>8. QED
    BY <2>5, <2>6, <2>7
<1>5. AnswerOK'
  BY DEF IInv, TypeOK, HandlerOK, AnswerOK, AckIsTrue, Indexed, Acknowledged,
     Alive
<1>6. QED
  BY <1>1, <1>2, <1>3, <1>4, <1>5 DEF IInv

LEMMA RunInsertPreserves ==
    ASSUME IInv, NEW u \in Uploads, RunInsert(u)
    PROVE  IInv'
<1>. USE NoneAssumption, ForgedAssumption
     DEF RunInsert, AddRecord, Answer, Alive, reqVars, lockVars, indexVars,
         storeVars, jobFrame
<1>1. TypeOK'
  BY SizeAssumption, ChunksAssumption DEF IInv, TypeOK, Lock!MutexTypeOK, Jobs,
     Answers, HandlerOK, Verified
<1>2. HandlerOK'
  BY DEF IInv, TypeOK, Lock!MutexTypeOK, HandlerOK, Critical, Verified, Alive,
     Jobs, Answers
<1>3. StoreOK'
  BY DEF IInv, TypeOK, HandlerOK, StoreOK, RecordHasObject, Indexed, Verified,
     Jobs, Answers
<1>4. UncutOK'
  <2>1. SUFFICES ASSUME NoneCut
               PROVE  /\ ObjectMatchesRecord'
                      /\ \A v \in Uploads :
                            /\ job'[v] \in {"absent", "write", "written", "insert"} =>
                                  ~ Indexed(hash[v])'
                            /\ job'[v] \in {"written", "insert"} =>
                                  object'[hash[v]] = body[v]
    BY DEF UncutOK, NoneCut
  <2>2. phase[u] = "running" /\ hash[u] \in Hashes /\ ~ Indexed(hash[u])
    BY <2>1 DEF IInv, TypeOK, HandlerOK, NoneCut, UncutOK
  <2>3. \A v \in Uploads \ {u} :
          job[v] \in {"absent", "write", "written", "insert"} => hash[v] # hash[u]
    BY <2>1, OnlyWriter
  <2>4. object[hash[u]] = body[u]
    BY <2>1 DEF IInv, UncutOK
  <2>5. /\ record' = [record EXCEPT ![hash[u]] = body[u]]
        /\ job' = [job EXCEPT ![u] = "inserted"]
    BY <2>2 DEF Indexed
  <2>6. ObjectMatchesRecord'
    BY <2>1, <2>2, <2>4, <2>5 DEF IInv, TypeOK, HandlerOK, UncutOK,
       ObjectMatchesRecord, Indexed
  <2>7. ASSUME NEW v \in Uploads,
               job'[v] \in {"absent", "write", "written", "insert"}
        PROVE  /\ ~ Indexed(hash[v])'
               /\ job'[v] \in {"written", "insert"} => object'[hash[v]] = body[v]
    <3>1. v # u /\ job[v] = job'[v] /\ hash[v] # hash[u]
      BY <2>3, <2>5, <2>7 DEF IInv, TypeOK
    <3>2. QED
      BY <2>1, <2>5, <2>7, <3>1 DEF IInv, TypeOK, HandlerOK, UncutOK,
         ObjectMatchesRecord, Indexed
  <2>8. QED
    BY <2>6, <2>7
<1>5. AnswerOK'
  BY DEF IInv, TypeOK, HandlerOK, AnswerOK, AckIsTrue, Indexed, Acknowledged,
     Alive
<1>6. QED
  BY <1>1, <1>2, <1>3, <1>4, <1>5 DEF IInv

LEMMA IndexFailsPreserves ==
    ASSUME IInv, NEW u \in Uploads, IndexFails(u)
    PROVE  IInv'
<1>. USE NoneAssumption, ForgedAssumption
     DEF IndexFails, Answer, Alive, reqVars, lockVars, indexVars, storeVars,
         jobFrame
<1>1. TypeOK'
  BY SizeAssumption, ChunksAssumption DEF IInv, TypeOK, Lock!MutexTypeOK, Jobs,
     Answers, HandlerOK, Verified
<1>2. HandlerOK'
  BY DEF IInv, TypeOK, Lock!MutexTypeOK, HandlerOK, Critical, Verified, Alive,
     Jobs, Answers
<1>3. StoreOK'
  BY DEF IInv, TypeOK, HandlerOK, StoreOK, RecordHasObject, Indexed, Verified,
     Jobs, Answers
<1>4. UncutOK'
  BY DEF IInv, TypeOK, HandlerOK, UncutOK, NoneCut, ObjectMatchesRecord, Indexed,
     Alive, Critical
<1>5. AnswerOK'
  BY DEF IInv, TypeOK, HandlerOK, AnswerOK, AckIsTrue, Indexed, Acknowledged,
     Alive
<1>6. QED
  BY <1>1, <1>2, <1>3, <1>4, <1>5 DEF IInv

LEMMA DisconnectPreserves ==
    ASSUME IInv, NEW u \in Uploads, Disconnect(u)
    PROVE  IInv'
<1>. USE NoneAssumption, ForgedAssumption
     DEF Disconnect, End, Alive, reqVars, lockVars, indexVars, storeVars, jobFrame
<1>1. TypeOK'
  BY SizeAssumption, ChunksAssumption DEF IInv, TypeOK, Lock!MutexTypeOK, Jobs,
     Answers, HandlerOK, Verified
<1>2. HandlerOK'
  BY DEF IInv, TypeOK, Lock!MutexTypeOK, HandlerOK, Critical, Verified, Alive,
     Jobs, Answers
<1>3. StoreOK'
  BY DEF IInv, TypeOK, HandlerOK, StoreOK, RecordHasObject, Indexed, Verified,
     Jobs, Answers
<1>4. UncutOK'
  BY DEF IInv, TypeOK, HandlerOK, UncutOK, NoneCut, ObjectMatchesRecord, Indexed,
     Alive, Critical
<1>5. AnswerOK'
  BY DEF IInv, TypeOK, HandlerOK, AnswerOK, AckIsTrue, Indexed, Acknowledged,
     Alive
<1>6. QED
  BY <1>1, <1>2, <1>3, <1>4, <1>5 DEF IInv

LEMMA KillPreserves ==
    ASSUME IInv, Kill
    PROVE  IInv'
<1>. USE NoneAssumption, ForgedAssumption
     DEF Kill, reqVars, indexVars, storeVars
<1>1. TypeOK'
  BY DEF IInv, TypeOK, Lock!MutexTypeOK, Jobs, Answers
<1>2. HandlerOK'
  BY DEF IInv, TypeOK, HandlerOK, Critical, Verified, Alive, Jobs, Answers
<1>3. StoreOK'
  BY DEF IInv, TypeOK, StoreOK, RecordHasObject, Indexed
<1>4. UncutOK'
  BY DEF IInv, TypeOK, HandlerOK, UncutOK, NoneCut, ObjectMatchesRecord, Indexed,
     Alive
<1>5. AnswerOK'
  BY DEF IInv, TypeOK, AnswerOK, AckIsTrue, Indexed, Acknowledged, Alive
<1>6. QED
  BY <1>1, <1>2, <1>3, <1>4, <1>5 DEF IInv

LEMMA NextPreserves ==
    ASSUME IInv, [Next]_vars
    PROVE  IInv'
<1>1. CASE UNCHANGED vars
  BY <1>1
     DEF vars, reqVars, lockVars, indexVars, storeVars, IInv, TypeOK,
         Lock!MutexTypeOK, HandlerOK, StoreOK, UncutOK, AnswerOK, RecordHasObject,
         ObjectMatchesRecord, AckIsTrue, Indexed, Acknowledged, Critical,
         Verified,
         NoneCut
<1>2. CASE Kill
  BY <1>2, KillPreserves
<1>3. ASSUME NEW u \in Uploads,
             Arrive(u) \/ AcquirePermit(u) \/ TakeLock(u) \/ Disconnect(u)
      PROVE  IInv'
  BY <1>3, ArrivePreserves, AcquirePermitPreserves, TakeLockPreserves,
     DisconnectPreserves
<1>4. ASSUME NEW u \in Uploads, Client(u) PROVE IInv'
  BY <1>4, ReadBodyPreserves, ReadFailsPreserves DEF Client
<1>5. ASSUME NEW u \in Uploads, Handler(u) PROVE IInv'
  BY <1>5, RequestLockPreserves, FoundExistingPreserves, StartWritePreserves,
     StartInsertPreserves, RespondInsertedPreserves, RespondErrorPreserves
     DEF Handler
<1>6. ASSUME NEW u \in Uploads, Job(u) PROVE IInv'
  BY <1>6, RunVerifyPreserves, RunLookupPreserves, RunWritePreserves,
     WriteFailsPreserves, RunInsertPreserves, IndexFailsPreserves
     DEF Job
<1>7. QED
  BY <1>1, <1>2, <1>3, <1>4, <1>5, <1>6 DEF Next

\* The inductive invariant holds in every state.
THEOREM Invariance == Spec => []IInv
<1>1. Init => IInv
  BY InitIInv
<1>2. IInv /\ [Next]_vars => IInv'
  BY NextPreserves
<1>3. QED
  BY <1>1, <1>2, PTL DEF Spec

-------------------------------------------------------------------------------
\* An object and its record agree as long as no client goes away during the
\* write or the insert of its upload (xorbs.rs:80-101), whatever fails, restarts
\* or goes away at any other moment.
THEOREM Agreement == Spec => []UncutObjectMatchesRecord
<1>1. IInv => UncutObjectMatchesRecord
  BY DEF IInv, UncutOK, UncutObjectMatchesRecord
<1>2. QED
  BY <1>1, Invariance, PTL

\* A record never lacks its object (xorbs.rs:95-101), cut clients included.
THEOREM ObjectFirst == Spec => []RecordHasObject
<1>1. IInv => RecordHasObject
  BY DEF IInv, StoreOK
<1>2. QED
  BY <1>1, Invariance, PTL

\* A 200 is true: the xorb is indexed, with this upload's layout if it was told
\* that it inserted it (xorbs.rs:87-106).
THEOREM Acknowledgement == Spec => []AckIsTrue
<1>1. IInv => AckIsTrue
  BY DEF IInv, AnswerOK
<1>2. QED
  BY <1>1, Invariance, PTL

\* What each step does to a hash that is indexed.
LEMMA StepKeepsFirst ==
    ASSUME IInv, [Next]_vars, NEW h \in Hashes, Indexed(h)
    PROVE  record'[h] = record[h] /\ (NoneCut' => object'[h] = object[h])
<1>. USE DEF Indexed, storeVars, indexVars, jobFrame
<1>1. ASSUME NEW u \in Uploads, RunInsert(u)
      PROVE  record'[h] = record[h] /\ object' = object
  BY <1>1 DEF RunInsert, AddRecord, IInv, TypeOK
<1>2. ASSUME NEW u \in Uploads, RunWrite(u) \/ WriteFails(u)
      PROVE  record' = record /\ (NoneCut' => object'[h] = object[h])
  <2>1. record' = record /\ result' = result
    BY <1>2 DEF RunWrite, WriteFails
  <2>2. ASSUME NoneCut' PROVE object'[h] = object[h]
    <3>1. NoneCut
      BY <2>1, <2>2 DEF NoneCut
    <3>2. job[u] = "write"
      BY <1>2 DEF RunWrite, WriteFails
    <3>3. hash[u] # h
      BY <3>1, <3>2 DEF IInv, UncutOK
    <3>4. QED
      BY <1>2, <3>3 DEF RunWrite, WriteFails, IInv, TypeOK
  <2>3. QED
    BY <2>1, <2>2
<1>3. CASE UNCHANGED <<record, object>>
  BY <1>3
<1>4. CASE UNCHANGED vars \/ Kill
  BY <1>4 DEF vars, Kill
<1>5. ASSUME NEW u \in Uploads,
             \/ Arrive(u) \/ AcquirePermit(u) \/ TakeLock(u) \/ Disconnect(u)
             \/ Client(u) \/ Handler(u)
             \/ RunVerify(u) \/ RunLookup(u) \/ IndexFails(u)
      PROVE  UNCHANGED <<record, object>>
  BY <1>5 DEF Arrive, AcquirePermit, TakeLock, Disconnect, Client, ReadBody,
     ReadFails, Handler, RequestLock, FoundExisting, StartWrite, StartInsert,
     RespondInserted, RespondError, Respond, RunVerify, RunLookup, IndexFails
<1>6. QED
  BY <1>1, <1>2, <1>3, <1>4, <1>5 DEF Next, Job

\* The first writer wins (xorbs.rs:80-93): an indexed hash keeps its record, and
\* its object unless a client was cut.
THEOREM FirstWriter == Spec => FirstWriterWins
<1>1. IInv /\ [Next]_vars =>
        [\A h \in Hashes :
            Indexed(h) => /\ record'[h] = record[h]
                          /\ NoneCut' => object'[h] = object[h]]_vars
  BY StepKeepsFirst
<1>2. QED
  BY <1>1, Invariance, PTL DEF Spec, FirstWriterWins

-------------------------------------------------------------------------------
LEMMA InitPermits == Init => PermitsOK
<1>. SUFFICES ASSUME Init PROVE PermitsOK
  OBVIOUS
<1>1. Permitted = {}
  BY DEF Init, Permitted
<1>2. QED
  BY <1>1, FS_EmptySet, PermitsAssumption DEF PermitsOK

\* Only AcquirePermit adds an upload, one, and only below the bound.
LEMMA StepPermits ==
    ASSUME IInv, PermitsOK, [Next]_vars
    PROVE  PermitsOK'
<1>. USE DEF reqVars, lockVars, indexVars, storeVars, jobFrame
<1>1. Permitted' \subseteq Permitted => PermitsOK'
  <2>. SUFFICES ASSUME Permitted' \subseteq Permitted PROVE PermitsOK'
    OBVIOUS
  <2>1. /\ IsFiniteSet(Permitted')
        /\ Cardinality(Permitted') <= Cardinality(Permitted)
    BY FS_Subset DEF PermitsOK
  <2>2. Cardinality(Permitted) \in Nat /\ Cardinality(Permitted') \in Nat
    BY <2>1, FS_CardinalityType DEF PermitsOK
  <2>3. QED
    BY <2>1, <2>2, PermitsAssumption DEF PermitsOK
<1>2. ASSUME NEW u \in Uploads, AcquirePermit(u) PROVE PermitsOK'
  <2>1. Permitted' = Permitted \cup {u}
    BY <1>2 DEF AcquirePermit, Permitted, IInv, TypeOK
  <2>2. Cardinality(Permitted) \in Nat /\ Cardinality(Permitted) < Permits
    BY <1>2, FS_CardinalityType DEF AcquirePermit, PermitsOK
  <2>3. /\ IsFiniteSet(Permitted')
        /\ Cardinality(Permitted') <= Cardinality(Permitted) + 1
    BY <2>1, <2>2, FS_AddElement DEF PermitsOK
  <2>4. Cardinality(Permitted') \in Nat
    BY <2>3, FS_CardinalityType
  <2>5. QED
    BY <2>2, <2>3, <2>4, PermitsAssumption DEF PermitsOK
<1>3. ASSUME NEW u \in Uploads, Arrive(u) \/ TakeLock(u) \/ Disconnect(u)
      PROVE  Permitted' \subseteq Permitted
  BY <1>3 DEF Arrive, TakeLock, Start, Disconnect, End, Permitted, IInv, TypeOK
<1>4. ASSUME NEW u \in Uploads, Client(u) \/ Handler(u)
      PROVE  Permitted' \subseteq Permitted
  BY <1>4 DEF Client, ReadBody, ReadFails, Handler, RequestLock, FoundExisting,
     StartWrite, StartInsert, RespondInserted, RespondError, Respond, Start, End,
     Permitted, IInv, TypeOK
<1>5. ASSUME NEW u \in Uploads, Job(u) PROVE Permitted' \subseteq Permitted
  BY <1>5 DEF Job, RunVerify, RunLookup, RunWrite, WriteFails, RunInsert,
     IndexFails, Permitted
<1>6. CASE Kill \/ UNCHANGED vars
  <2>1. Permitted' \subseteq Permitted
    BY <1>6 DEF Kill, vars, Permitted, Alive
  <2>2. QED
    BY <1>1, <2>1
<1>7. QED
  BY <1>1, <1>2, <1>3, <1>4, <1>5, <1>6 DEF Next

\* Of the uploads somebody waits for no more are in memory than there are
\* permits (xorbs.rs:51-60): each of them holds one.
THEOREM Residency == Spec => []AttendedWithinPermits
<1>1. ASSUME IInv, PermitsOK PROVE AttendedWithinPermits
  <2>. DEFINE attended == {u \in Resident : Alive(u)}
  <2>1. attended \subseteq Permitted
    BY <1>1 DEF IInv, TypeOK, HandlerOK, Resident, Permitted, Alive
  <2>2. /\ IsFiniteSet(attended)
        /\ Cardinality(attended) <= Cardinality(Permitted)
    BY <1>1, <2>1, FS_Subset DEF PermitsOK
  <2>3. Cardinality(attended) \in Nat /\ Cardinality(Permitted) \in Nat
    BY <1>1, <2>2, FS_CardinalityType DEF PermitsOK
  <2>4. QED
    BY <1>1, <2>2, <2>3, PermitsAssumption DEF AttendedWithinPermits, PermitsOK
<1>2. IInv /\ PermitsOK /\ [Next]_vars => PermitsOK'
  BY StepPermits
<1>3. QED
  BY <1>1, <1>2, InitPermits, Invariance, PTL DEF Spec
-------------------------------------------------------------------------------
\* An insert writes a record and the rows of its chunks at once; nothing else
\* touches either.
LEMMA StepKeepsDedup ==
    ASSUME IInv, DedupMatchesIndex, [Next]_vars
    PROVE  DedupMatchesIndex'
<1>. USE DEF storeVars, indexVars, jobFrame
<1>1. ASSUME NEW u \in Uploads, RunInsert(u) PROVE DedupMatchesIndex'
  <2>. DEFINE h == hash[u]
  <2>1. CASE record[h] # None
    BY <1>1, <2>1 DEF RunInsert, DedupMatchesIndex, Indexed
  <2>2. CASE record[h] = None
    <3>1. h \in Hashes /\ body[u] # None
      BY <1>1, NoneAssumption, ForgedAssumption DEF RunInsert, IInv, TypeOK, HandlerOK, Verified
    <3>2. /\ record' = [record EXCEPT ![h] = body[u]]
          /\ chunkHome' = [c \in Chunks |->
                              IF c \in ChunksOf[h] /\ chunkHome[c] = None
                                THEN h ELSE chunkHome[c]]
      BY <1>1, <2>2 DEF RunInsert, AddRecord
    <3>3. \A g \in Hashes : record'[g] # None <=> Indexed(g) \/ g = h
      BY <2>2, <3>1, <3>2 DEF Indexed, IInv, TypeOK
    <3>4. h # None /\ \A c \in Chunks : chunkHome[c] \in Hashes \cup {None}
      BY <3>1, NoneAssumption DEF IInv, TypeOK
    <3>5. ASSUME NEW c \in Chunks
          PROVE  IF chunkHome'[c] = None
                   THEN \A g \in Hashes : record'[g] # None => c \notin ChunksOf[g]
                   ELSE record'[chunkHome'[c]] # None /\ c \in ChunksOf[chunkHome'[c]]
      BY <3>1, <3>2, <3>3, <3>4 DEF DedupMatchesIndex, Indexed
    <3>6. QED
      BY <3>5 DEF DedupMatchesIndex, Indexed
  <2>3. QED
    BY <2>1, <2>2
<1>2. CASE UNCHANGED <<record, chunkHome>>
  BY <1>2 DEF DedupMatchesIndex, Indexed
<1>3. CASE UNCHANGED vars \/ Kill
  BY <1>2, <1>3 DEF vars, Kill
<1>4. ASSUME NEW u \in Uploads,
             \/ Arrive(u) \/ AcquirePermit(u) \/ TakeLock(u) \/ Disconnect(u)
             \/ Client(u) \/ Handler(u)
             \/ RunVerify(u) \/ RunLookup(u) \/ RunWrite(u) \/ WriteFails(u)
             \/ IndexFails(u)
      PROVE  UNCHANGED <<record, chunkHome>>
  BY <1>4 DEF Arrive, AcquirePermit, TakeLock, Disconnect, Client, ReadBody,
     ReadFails, Handler, RequestLock, FoundExisting, StartWrite, StartInsert,
     RespondInserted, RespondError, Respond, RunVerify, RunLookup, RunWrite,
     WriteFails, IndexFails
<1>5. QED
  BY <1>1, <1>2, <1>3, <1>4 DEF Next, Job

\* A dedup probe is answered with an indexed xorb that has the chunk, and every
\* eligible chunk of an indexed xorb is answered (index.rs:152-183), whatever
\* fails, goes away or dies between the object and its record.
THEOREM DedupComplete == Spec => []DedupMatchesIndex
<1>1. Init => DedupMatchesIndex
  BY DEF Init, DedupMatchesIndex, Indexed
<1>2. IInv /\ DedupMatchesIndex /\ [Next]_vars => DedupMatchesIndex'
  BY StepKeepsDedup
<1>3. QED
  BY <1>1, <1>2, Invariance, PTL DEF Spec

-------------------------------------------------------------------------------
(* Sums over finite sets: FoldFunction takes the elements out in an order  *)
(* of its own, which does not matter.                                      *)

\* A family of finite sets that is not empty has a smallest one.
LEMMA SmallestSet ==
    ASSUME NEW S, NEW F, F # {}, \A A \in F : A \subseteq S /\ IsFiniteSet(A)
    PROVE  \E A \in F : \A B \in F : B \subseteq A => B = A
<1>1. F \subseteq FiniteSubsetsOf(S)
  BY DEF FiniteSubsetsOf
<1>2. \E A \in F : \A B \in F : ~ (<<B, A>> \in StrictSubsetOrdering(S))
  BY <1>1, FS_StrictSubsetOrderingWellFounded, WFMin
<1>3. PICK A \in F : \A B \in F : ~ (<<B, A>> \in StrictSubsetOrdering(S))
  BY <1>2
<1>4. ASSUME NEW B \in F, B \subseteq A PROVE B = A
  <2>1. <<B, A>> \in (SUBSET S) \X (SUBSET S)
    BY <1>3
  <2>2. ~ (<<B, A>> \in StrictSubsetOrdering(S))
    BY <1>3
  <2> QED
    BY <1>4, <2>1, <2>2 DEF StrictSubsetOrdering
<1> QED
  BY <1>3, <1>4

\* The element that a sum takes out of s first.
Pick(s) == CHOOSE x \in s : TRUE

LEMMA PickIn == ASSUME NEW s, s # {} PROVE Pick(s) \in s
BY DEF Pick

\* f has the sums of w over the subsets of A.
Sums(f, w, A) ==
    /\ f = [s \in SUBSET A |-> f[s]]
    /\ \A s \in SUBSET A : f[s] = IF s = {} THEN 0 ELSE w[Pick(s)] + f[s \ {Pick(s)}]

\* A sum depends on nothing but the weights of what is summed up.
LEMMA SumsAgree ==
    ASSUME NEW f, NEW g, NEW v, NEW w, NEW A, NEW B, Sums(f, v, A), Sums(g, w, B),
           NEW H, H \subseteq A, H \subseteq B, IsFiniteSet(H), \A x \in H : v[x] = w[x]
    PROVE  f[H] = g[H]
<1> DEFINE Bad == {s \in SUBSET H : f[s] # g[s]}
<1>1. CASE Bad = {}
  BY <1>1
<1>2. ASSUME Bad # {} PROVE FALSE
  <2>1. \A s \in Bad : s \subseteq H /\ IsFiniteSet(s)
    BY FS_Subset
  <2>2. \E s \in Bad : \A t \in Bad : t \subseteq s => t = s
    <3>1. Bad # {} /\ \A s \in Bad : s \subseteq H /\ IsFiniteSet(s)
      BY <1>2, <2>1
    <3> HIDE DEF Bad
    <3>2. \E D \in Bad : \A E \in Bad : E \subseteq D => E = D
      BY <3>1, SmallestSet
    <3> QED
      BY <3>2
  <2>3. PICK s \in Bad : \A t \in Bad : t \subseteq s => t = s
    BY <2>2
  <2>4. s \in SUBSET A /\ s \in SUBSET B /\ s \in SUBSET H
    BY <2>3
  <2>5. s # {}
    BY <2>3, <2>4 DEF Sums
  <2> DEFINE c == Pick(s)
             t == s \ {c}
  <2>6. c \in s
    BY <2>5, PickIn
  <2>7. t \notin Bad /\ t \in SUBSET H
    BY <2>3, <2>4, <2>6
  <2>8. f[s] = v[c] + f[t] /\ g[s] = w[c] + g[t]
    BY <2>4, <2>5 DEF Sums
  <2>9. v[c] = w[c] /\ f[t] = g[t]
    BY <2>4, <2>6, <2>7
  <2> QED
    BY <2>3, <2>8, <2>9
<1> QED
  BY <1>1, <1>2

\* The recursion has a solution.
LEMMA SumsExist ==
    ASSUME NEW w, NEW A, IsFiniteSet(A)
    PROVE  \E f : Sums(f, w, A)
<1> DEFINE Bad == {B \in SUBSET A : ~ \E f : Sums(f, w, B)}
           G(B) == CHOOSE f : Sums(f, w, B)
<1>1. CASE Bad = {}
  BY <1>1
<1>2. ASSUME Bad # {} PROVE FALSE
  <2>1. \A B \in Bad : B \subseteq A /\ IsFiniteSet(B)
    BY FS_Subset
  <2>2. \E B \in Bad : \A C \in Bad : C \subseteq B => C = B
    <3> HIDE DEF Bad
    <3> QED
      BY <1>2, <2>1, SmallestSet
  <2>3. PICK B \in Bad : \A C \in Bad : C \subseteq B => C = B
    BY <2>2
  <2>4. ASSUME NEW C \in SUBSET B, C # B PROVE Sums(G(C), w, C)
    <3>1. \E f : Sums(f, w, C)
      BY <2>3, <2>4
    <3> QED
      BY <3>1
  <2> DEFINE value(s) == IF s = {} THEN 0
                         ELSE IF s = B THEN w[Pick(B)] + G(B \ {Pick(B)})[B \ {Pick(B)}]
                         ELSE G(s)[s]
             h == [s \in SUBSET B |-> value(s)]
  <2> HIDE DEF G
  <2>5. ASSUME NEW s \in SUBSET B, s # {}
        PROVE  value(s) = w[Pick(s)] + value(s \ {Pick(s)})
    <3> DEFINE c == Pick(s)
               t == s \ {c}
    <3>1. c \in s /\ t \subseteq s /\ t # s /\ t # B /\ t \in SUBSET B
      BY <2>5, PickIn
    <3>2. value(t) = G(t)[t]
      <4>1. CASE t = {}
        <5>1. Sums(G(t), w, t) /\ t \in SUBSET t
          BY <2>4, <3>1
        <5>2. G(t)[t] = 0
          BY <4>1, <5>1 DEF Sums
        <5> QED
          BY <4>1, <5>2
      <4>2. CASE t # {}
        BY <3>1, <4>2
      <4> QED
        BY <4>1, <4>2
    <3>3. CASE s = B
      BY <2>5, <3>2, <3>3
    <3>4. CASE s # B
      <4>1. Sums(G(s), w, s) /\ Sums(G(t), w, t)
        BY <2>4, <3>1, <3>4
      <4>2. IsFiniteSet(t)
        BY <3>1, FS_Subset
      <4>3. G(s)[t] = G(t)[t]
        BY <3>1, <4>1, <4>2, SumsAgree
      <4>4. G(s)[s] = w[c] + G(s)[t]
        <5>1. s \in SUBSET s
          OBVIOUS
        <5> QED
          BY <2>5, <4>1, <5>1 DEF Sums
      <4> QED
        BY <2>5, <3>2, <3>4, <4>3, <4>4
    <3> QED
      BY <3>3, <3>4
  <2>6. Sums(h, w, B)
    <3>1. \A s \in SUBSET B : h[s] = value(s)
      OBVIOUS
    <3>2. value({}) = 0
      OBVIOUS
    <3>3. h = [s \in SUBSET B |-> h[s]]
      OBVIOUS
    <3> HIDE DEF value, h
    <3>4. ASSUME NEW s \in SUBSET B
          PROVE  h[s] = IF s = {} THEN 0 ELSE w[Pick(s)] + h[s \ {Pick(s)}]
      <4>1. s \ {Pick(s)} \in SUBSET B
        OBVIOUS
      <4> QED
        BY <2>5, <3>1, <3>2, <4>1
    <3> QED
      BY <3>3, <3>4 DEF Sums
  <2> HIDE DEF h
  <2> QED
    BY <2>3, <2>6
<1> QED
  BY <1>1, <1>2

\* The order does not matter: any element can be taken out first.
LEMMA SumsTakeOut ==
    ASSUME NEW f, NEW A, NEW w, \A x \in A : w[x] \in Nat, IsFiniteSet(A), Sums(f, w, A),
           NEW y \in A
    PROVE  f[A] = f[A \ {y}] + w[y]
<1> DEFINE Good(s) == f[s] \in Nat /\ \A x \in s : f[s] = f[s \ {x}] + w[x]
           Bad == {s \in SUBSET A : ~ Good(s)}
<1>1. CASE Bad = {}
  <2>1. A \in SUBSET A
    OBVIOUS
  <2>2. Good(A)
    BY <1>1, <2>1
  <2> QED
    BY <2>2
<1>2. ASSUME Bad # {} PROVE FALSE
  <2>1. \A s \in Bad : s \subseteq A /\ IsFiniteSet(s)
    BY FS_Subset
  <2>2. \E s \in Bad : \A t \in Bad : t \subseteq s => t = s
    <3>1. Bad # {} /\ \A s \in Bad : s \subseteq A /\ IsFiniteSet(s)
      BY <1>2, <2>1
    <3> HIDE DEF Bad
    <3>2. \E D \in Bad : \A E \in Bad : E \subseteq D => E = D
      BY <3>1, SmallestSet
    <3> QED
      BY <3>2
  <2>3. PICK s \in Bad : \A t \in Bad : t \subseteq s => t = s
    BY <2>2
  <2>4. s # {}
    <3>1. {} \in SUBSET A
      OBVIOUS
    <3>2. f[{}] = 0
      BY <3>1 DEF Sums
    <3>3. Good({})
      BY <3>2
    <3> QED
      BY <2>3, <3>3
  <2> DEFINE c == Pick(s)
  <2>5. c \in s /\ w[c] \in Nat
    BY <2>3, <2>4, PickIn
  <2>6. \A t \in SUBSET s : t # s => Good(t)
    BY <2>3
  <2>7. f[s] = w[c] + f[s \ {c}]
    BY <2>3, <2>4 DEF Sums
  <2> HIDE DEF c
  <2>8. f[s \ {c}] \in Nat /\ f[s] \in Nat
    BY <2>5, <2>6, <2>7
  <2>9. ASSUME NEW x \in s PROVE f[s] = f[s \ {x}] + w[x]
    <3>1. CASE x = c
      BY <2>5, <2>7, <2>8, <3>1
    <3>2. CASE x # c
      <4> DEFINE rest == (s \ {c}) \ {x}
      <4>1. /\ s \ {c} \in SUBSET s /\ s \ {c} # s /\ s \ {x} \in SUBSET s /\ s \ {x} # s
            /\ rest \in SUBSET s /\ rest # s /\ x \in s \ {c} /\ c \in s \ {x}
            /\ (s \ {x}) \ {c} = rest /\ w[x] \in Nat
        BY <2>3, <2>5, <3>2
      <4>2. f[s \ {c}] = f[rest] + w[x]
        BY <2>6, <4>1
      <4>3. f[s \ {x}] = f[rest] + w[c]
        BY <2>6, <4>1
      <4>4. f[rest] \in Nat
        BY <2>6, <4>1
      <4> HIDE DEF rest
      <4> QED
        BY <2>5, <2>7, <4>1, <4>2, <4>3, <4>4
    <3> QED
      BY <3>1, <3>2
  <2> QED
    BY <2>3, <2>8, <2>9
<1> QED
  BY <1>1, <1>2

LEMMA TotalIsSum ==
    ASSUME NEW w, IsFiniteSet(DOMAIN w)
    PROVE  \E f : Sums(f, w, DOMAIN w) /\ Total(w) = f[DOMAIN w]
<1> DEFINE A == DOMAIN w
           P(f) == f = [s \in SUBSET A |-> IF s = {} THEN 0
                                           ELSE w[CHOOSE x \in s : TRUE]
                                                  + f[s \ {CHOOSE x \in s : TRUE}]]
           iter == CHOOSE f : P(f)
<1>1. PICK g : Sums(g, w, A)
  BY SumsExist
<1>2. P(g)
  BY <1>1 DEF Sums, Pick
<1>3. P(iter)
  BY <1>2, Zenon
<1>4. Total(w) = iter[A]
  BY Zenon DEF Total, FoldFunction, FoldFunctionOnSet, MapThenFoldSet
<1> HIDE DEF iter
<1>5. Sums(iter, w, A)
  BY <1>3 DEF Sums, Pick
<1> QED
  BY <1>4, <1>5

\* One more weight is added.
LEMMA TotalAddsUp ==
    ASSUME NEW v, NEW w, NEW h, h \notin DOMAIN w, IsFiniteSet(DOMAIN w),
           DOMAIN v = DOMAIN w \cup {h}, \A x \in DOMAIN w : v[x] = w[x],
           \A x \in DOMAIN v : v[x] \in Nat
    PROVE  Total(v) = Total(w) + v[h]
<1>1. IsFiniteSet(DOMAIN v)
  BY FS_AddElement
<1>2. PICK f : Sums(f, w, DOMAIN w) /\ Total(w) = f[DOMAIN w]
  BY TotalIsSum
<1>3. PICK g : Sums(g, v, DOMAIN v) /\ Total(v) = g[DOMAIN v]
  BY <1>1, TotalIsSum
<1>4. f[DOMAIN w] = g[DOMAIN w]
  <2>1. DOMAIN w \subseteq DOMAIN v /\ \A x \in DOMAIN w : w[x] = v[x]
    OBVIOUS
  <2> DEFINE A == DOMAIN w
             B == DOMAIN v
  <2>2. Sums(f, w, A) /\ Sums(g, v, B) /\ A \subseteq B /\ IsFiniteSet(A)
        /\ \A x \in A : w[x] = v[x]
    BY <1>2, <1>3, <2>1
  <2> HIDE DEF A, B
  <2>3. f[A] = g[A]
    BY <2>2, SumsAgree
  <2> QED
    BY <2>3 DEF A
<1>5. g[DOMAIN v] = g[DOMAIN v \ {h}] + v[h]
  <2>1. h \in DOMAIN v
    OBVIOUS
  <2>2. Sums(g, v, DOMAIN v)
    BY <1>3
  <2> QED
    BY <1>1, <2>1, <2>2, SumsTakeOut
<1>6. DOMAIN v \ {h} = DOMAIN w
  OBVIOUS
<1> QED
  BY <1>2, <1>3, <1>4, <1>5, <1>6

LEMMA TotalOfNothing == ASSUME NEW w, DOMAIN w = {} PROVE Total(w) = 0
<1>1. IsFiniteSet(DOMAIN w)
  BY FS_EmptySet
<1>2. PICK f : Sums(f, w, DOMAIN w) /\ Total(w) = f[DOMAIN w]
  BY <1>1, TotalIsSum
<1> QED
  BY <1>2 DEF Sums

\* What the index knows is finite, and the size that was inserted with each xorb
\* is counted once, whatever has become of its object.
RecordedSizes == [h \in {g \in Hashes : Indexed(g)} |-> Size[record[h]]]
BytesOK ==
    /\ IsFiniteSet({h \in Hashes : Indexed(h)})
    /\ diskBytes = Total(RecordedSizes)

LEMMA StepKeepsBytes == ASSUME IInv, BytesOK, [Next]_vars PROVE BytesOK'
<1>. USE DEF storeVars, indexVars, jobFrame
<1>1. ASSUME NEW u \in Uploads, RunInsert(u), record[hash[u]] = None PROVE BytesOK'
  <2>. DEFINE h == hash[u]
              known == {g \in Hashes : Indexed(g)}
  <2>1. h \in Hashes /\ body[u] \in Layouts /\ body[u] # None
    BY <1>1, NoneAssumption, ForgedAssumption DEF RunInsert, IInv, TypeOK, HandlerOK, Verified, Jobs
  <2>2. /\ record' = [record EXCEPT ![h] = body[u]]
        /\ diskBytes' = diskBytes + Size[body[u]]
    BY <1>1 DEF RunInsert, AddRecord
  <2>3. /\ record'[h] = body[u] /\ \A g \in Hashes : g # h => record'[g] = record[g]
        /\ record \in [Hashes -> Layouts \cup {None}]
    BY <2>1, <2>2 DEF IInv, TypeOK
  <2>4. known' = known \cup {h} /\ h \notin known
    BY <1>1, <2>1, <2>3 DEF Indexed
  <2>5. /\ DOMAIN RecordedSizes = known /\ DOMAIN RecordedSizes' = known'
        /\ \A g \in known : RecordedSizes[g] = Size[record[g]]
        /\ \A g \in known' : RecordedSizes'[g] = Size[record'[g]]
    BY DEF RecordedSizes
  <2>6. /\ \A g \in known : RecordedSizes'[g] = RecordedSizes[g]
        /\ RecordedSizes'[h] = Size[body[u]]
    BY <2>1, <2>3, <2>4, <2>5
  <2>7. \A g \in known' : RecordedSizes'[g] \in Nat
    BY <2>1, <2>3, <2>4, <2>5, SizeAssumption DEF Indexed
  <2>8. IsFiniteSet(known)
    BY DEF BytesOK
  <2>. HIDE DEF known, h
  <2>9. Total(RecordedSizes') = Total(RecordedSizes) + RecordedSizes'[h]
    <3>. DEFINE w == RecordedSizes
                v == RecordedSizes'
    <3>1. /\ h \notin DOMAIN w /\ IsFiniteSet(DOMAIN w) /\ DOMAIN v = DOMAIN w \cup {h}
          /\ \A x \in DOMAIN w : v[x] = w[x]
          /\ \A x \in DOMAIN v : v[x] \in Nat
      BY <2>4, <2>5, <2>6, <2>7, <2>8
    <3>. HIDE DEF v, w
    <3>2. Total(v) = Total(w) + v[h]
      BY <3>1, TotalAddsUp
    <3> QED
      BY <3>2 DEF v, w
  <2>10. IsFiniteSet(known')
    BY <2>4, <2>8, FS_AddElement
  <2>11. diskBytes' = Total(RecordedSizes')
    BY <2>2, <2>6, <2>9 DEF BytesOK
  <2>12. QED
    BY <2>10, <2>11 DEF BytesOK, known
<1>2. CASE UNCHANGED <<record, diskBytes>>
  BY <1>2 DEF BytesOK, RecordedSizes, Indexed
<1>3. CASE UNCHANGED vars \/ Kill
  BY <1>2, <1>3 DEF vars, Kill
<1>4. ASSUME NEW u \in Uploads,
             \/ Arrive(u) \/ AcquirePermit(u) \/ TakeLock(u) \/ Disconnect(u)
             \/ Client(u) \/ Handler(u)
             \/ RunVerify(u) \/ RunLookup(u) \/ RunWrite(u) \/ WriteFails(u)
             \/ IndexFails(u)
             \/ RunInsert(u) /\ record[hash[u]] # None
      PROVE  UNCHANGED <<record, diskBytes>>
  BY <1>4 DEF Arrive, AcquirePermit, TakeLock, Disconnect, Client, ReadBody,
     ReadFails, Handler, RequestLock, FoundExisting, StartWrite, StartInsert,
     RespondInserted, RespondError, Respond, RunVerify, RunLookup, RunWrite,
     WriteFails, IndexFails, RunInsert
<1>5. QED
  BY <1>1, <1>2, <1>3, <1>4 DEF Next, Job

LEMMA BytesStayCounted == Spec => []BytesOK
<1>1. Init => BytesOK
  <2>. SUFFICES ASSUME Init PROVE BytesOK
    OBVIOUS
  <2>1. {h \in Hashes : Indexed(h)} = {}
    BY DEF Init, Indexed
  <2>2. Total(RecordedSizes) = 0
    BY <2>1, TotalOfNothing DEF RecordedSizes
  <2>3. QED
    BY <2>1, <2>2, FS_EmptySet DEF BytesOK, Init
<1>2. IInv /\ BytesOK /\ [Next]_vars => BytesOK'
  BY StepKeepsBytes
<1>3. QED
  BY <1>1, <1>2, Invariance, PTL DEF Spec

\* StoredBytesAgree: the stored bytes that /health reports (index.rs:330-334) are
\* the sizes of the stored objects that the index knows, while nobody was cut, and
\* after cuts that overwrote no recorded object.
THEOREM BytesCounted == Spec => []StoredBytesAgree
<1>1. IInv /\ BytesOK => StoredBytesAgree
  <2>. SUFFICES ASSUME IInv, BytesOK, NoneCut \/ ObjectMatchesRecord
                PROVE  diskBytes = Total(StoredSizes)
    BY DEF StoredBytesAgree
  <2>1. \A h \in Hashes : Indexed(h) => object[h] = record[h]
    BY DEF IInv, UncutOK, ObjectMatchesRecord
  <2>2. StoredSizes = RecordedSizes
    BY <2>1 DEF StoredSizes, RecordedSizes
  <2>3. QED
    BY <2>2 DEF BytesOK
<1>2. QED
  BY <1>1, Invariance, BytesStayCounted, PTL

-------------------------------------------------------------------------------
(* The lock: what this module takes for granted of its use.                *)

LEMMA InitLocks == Init => LockUse
BY NoneAssumption DEF Init, LockUse, Lock!MutexInit

\* A handler that ends wants nothing any more and holds nothing.
LEMMA EndLocks ==
    ASSUME IInv, LockUse, NEW u \in Uploads, NEW r, End(u, r),
           \A v \in Uploads \ {u} : job'[v] = job[v], hash' = hash
    PROVE  LockUse'
BY NoneAssumption DEF IInv, TypeOK, Lock!MutexTypeOK, LockUse, End

\* A verified upload asks for the lock of its hash, keeps it through its jobs,
\* and lets go of it only by ending.
LEMMA StepLocks ==
    ASSUME IInv, LockUse, [Next]_vars
    PROVE  LockUse'
<1>. USE NoneAssumption DEF reqVars, lockVars, indexVars, storeVars, jobFrame
<1>1. ASSUME NEW u \in Uploads, Arrive(u) \/ AcquirePermit(u) \/ ReadBody(u)
      PROVE  LockUse'
  BY <1>1 DEF Arrive, AcquirePermit, ReadBody, Start, LockUse, IInv, TypeOK,
     Lock!MutexTypeOK
<1>2. ASSUME NEW u \in Uploads,
             \/ ReadFails(u) \/ FoundExisting(u) \/ RespondInserted(u)
             \/ RespondError(u) \/ Disconnect(u)
      PROVE  LockUse'
  <2>1. /\ \E r : End(u, r)
        /\ \A v \in Uploads \ {u} : job'[v] = job[v]
        /\ hash' = hash
    BY <1>2 DEF ReadFails, FoundExisting, RespondInserted, RespondError, Disconnect,
       Respond, IInv, TypeOK
  <2>2. QED
    BY <2>1, EndLocks
<1>3. ASSUME NEW u \in Uploads, RequestLock(u) PROVE LockUse'
  BY <1>3 DEF RequestLock, Lock!Request, Lock!Holds, LockUse, IInv, TypeOK,
     Lock!MutexTypeOK
<1>4. ASSUME NEW u \in Uploads, TakeLock(u) PROVE LockUse'
  BY <1>4 DEF TakeLock, Start, Lock!Grant, LockUse, IInv, TypeOK, HandlerOK,
     Lock!MutexTypeOK
<1>5. ASSUME NEW u \in Uploads, StartWrite(u) \/ StartInsert(u) PROVE LockUse'
  BY <1>5 DEF StartWrite, StartInsert, Start, LockUse, IInv, TypeOK, Lock!MutexTypeOK
<1>6. ASSUME NEW u \in Uploads, Job(u) PROVE LockUse'
  <2>1. /\ UNCHANGED <<phase, hash, want, holder>>
        /\ \A v \in Uploads \ {u} : job'[v] = job[v]
        /\ job[u] \in Jobs
        /\ job[u] # "verify" => job'[u] \notin {"verify", "verified"}
    BY <1>6 DEF Job, RunVerify, RunLookup, RunWrite, WriteFails, RunInsert, IndexFails,
       Answer, Jobs, IInv, TypeOK
  <2>2. QED
    BY <2>1 DEF LockUse
<1>7. CASE Kill
  BY <1>7 DEF Kill, LockUse, Alive, IInv, TypeOK, Lock!MutexTypeOK
<1>8. CASE UNCHANGED vars
  BY <1>8 DEF vars, LockUse
<1>9. QED
  BY <1>1, <1>2, <1>3, <1>4, <1>5, <1>6, <1>7, <1>8 DEF Next, Client, Handler

\* To end is to drop the one lock held, to stop waiting for it, or neither.
LEMMA FreeOrAbandon ==
    ASSUME IInv, LockUse, NEW u \in Uploads, NEW r, End(u, r)
    PROVE  [Lock!MutexNext]_lockVars
<1>. USE NoneAssumption DEF lockVars
<1>1. CASE phase[u] = "locking"
  <2>1. want[u] # None /\ \A h \in Hashes : holder[h] # u
    BY <1>1 DEF LockUse, IInv, TypeOK, HandlerOK
  <2>2. Lock!Abandon(u)
    BY <2>1 DEF Lock!Abandon, End, IInv, TypeOK, Lock!MutexTypeOK
  <2>3. QED
    BY <2>2 DEF Lock!MutexNext
<1>2. CASE phase[u] # "locking" /\ \E h \in Hashes : holder[h] = u
  <2>1. PICK h \in Hashes : holder[h] = u
    BY <1>2
  <2>2. want[u] = None /\ \A g \in Hashes : holder[g] = u => g = h
    BY <1>2, <2>1 DEF LockUse
  <2>3. Lock!Free(u, h)
    BY <2>1, <2>2 DEF Lock!Free, End, IInv, TypeOK, Lock!MutexTypeOK
  <2>4. QED
    BY <2>3 DEF Lock!MutexNext
<1>3. CASE phase[u] # "locking" /\ ~ \E h \in Hashes : holder[h] = u
  <2>1. want[u] = None
    BY <1>3 DEF LockUse
  <2>2. UNCHANGED lockVars
    BY <1>3, <2>1 DEF End, IInv, TypeOK, Lock!MutexTypeOK
  <2>3. QED
    BY <2>2
<1>4. QED
  BY <1>1, <1>2, <1>3

\* Handlers that request, take and end are the only ones to touch a lock.
LEMMA StepUsesMutex ==
    ASSUME IInv, LockUse, [Next]_vars
    PROVE  [Lock!MutexNext \/ Lock!MutexInit']_lockVars
<1>. USE DEF reqVars, lockVars, indexVars, storeVars, jobFrame
<1>1. ASSUME NEW u \in Uploads,
             \/ ReadFails(u) \/ FoundExisting(u) \/ RespondInserted(u)
             \/ RespondError(u) \/ Disconnect(u)
      PROVE  [Lock!MutexNext]_lockVars
  <2>1. \E r : End(u, r)
    BY <1>1 DEF ReadFails, FoundExisting, RespondInserted, RespondError, Disconnect, Respond
  <2>2. QED
    BY <2>1, FreeOrAbandon
<1>2. ASSUME NEW u \in Uploads, RequestLock(u) PROVE Lock!MutexNext
  <2>1. hash[u] \in Hashes
    BY <1>2 DEF RequestLock, IInv, HandlerOK
  <2>2. QED
    BY <1>2, <2>1 DEF RequestLock, Lock!MutexNext
<1>3. ASSUME NEW u \in Uploads, TakeLock(u) PROVE Lock!MutexNext
  <2>1. hash[u] \in Hashes
    BY <1>3 DEF TakeLock, IInv, HandlerOK
  <2>2. QED
    BY <1>3, <2>1 DEF TakeLock, Lock!MutexNext
<1>4. CASE Kill
  BY <1>4 DEF Kill, Lock!MutexInit
<1>5. ASSUME NEW u \in Uploads,
             \/ Arrive(u) \/ AcquirePermit(u) \/ ReadBody(u)
             \/ StartWrite(u) \/ StartInsert(u) \/ Job(u)
      PROVE  UNCHANGED lockVars
  BY <1>5 DEF Arrive, AcquirePermit, ReadBody, StartWrite, StartInsert, Job, RunVerify,
     RunLookup, RunWrite, WriteFails, RunInsert, IndexFails
<1>6. CASE UNCHANGED vars
  BY <1>6 DEF vars
<1>7. QED
  BY <1>1, <1>2, <1>3, <1>4, <1>5, <1>6 DEF Next, Client, Handler

\* An upload waits for and holds no lock but that of its hash (xorbs.rs:86).
THEOREM LocksFollowed == Spec => []LockUse
<1>1. IInv /\ LockUse /\ [Next]_vars => LockUse'
  BY StepLocks
<1>2. QED
  BY <1>1, InitLocks, Invariance, PTL DEF Spec

\* Whoever asks for a lock has none and waits for none, so Request's guard, which
\* lock() does not have (state.rs:120-133), keeps no upload from asking.
THEOREM AsksFreely == Spec => []AsksWithNoLock
<1>1. IInv /\ LockUse => AsksWithNoLock
  BY DEF LockUse, AsksWithNoLock, Lock!Holds
<1>2. QED
  BY <1>1, LocksFollowed, Invariance, PTL

\* Uploads use their locks as KeyedMutex has it, until a restart (xorbs.rs:86): a
\* disconnect or an error frees one lock or leaves one queue, never anything else.
THEOREM UsesLocks == Spec => UsesKeyedMutex
<1>1. Init => Lock!MutexInit
  BY DEF Init
<1>2. IInv /\ LockUse /\ [Next]_vars => [Lock!MutexNext \/ Lock!MutexInit']_lockVars
  BY StepUsesMutex
<1>3. QED
  BY <1>1, <1>2, LocksFollowed, Invariance, PTL DEF Spec, UsesKeyedMutex

-------------------------------------------------------------------------------
(* The refinement of Registry.                                             *)

\* An insert of a new record is Registry's upload: the rows it adds for the
\* chunks of its xorb are the only ones InsertRows can choose.
LEMMA InsertCommits ==
    ASSUME IInv, NEW u \in Uploads, RunInsert(u), ~ Indexed(hash[u])
    PROVE  IndexView!UploadXorb(hash[u])
<1>. DEFINE h == hash[u]
            new == ChunksOf[h] \X {h}
<1>1. h \in Hashes /\ body[u] # None
  BY NoneAssumption, ForgedAssumption
     DEF RunInsert, IInv, TypeOK, HandlerOK, Verified, Jobs
<1>2. /\ record' = [record EXCEPT ![h] = body[u]]
      /\ chunkHome' = [c \in Chunks |->
                          IF c \in ChunksOf[h] /\ chunkHome[c] = None
                            THEN h ELSE chunkHome[c]]
  BY DEF RunInsert, AddRecord, Indexed
<1>3. {g \in Hashes : Indexed(g)}' = {g \in Hashes : Indexed(g)} \cup {h}
  BY <1>1, <1>2 DEF Indexed, IInv, TypeOK
<1>4. IndexView!InsertRows(new)
  <2>. DEFINE first == [c \in {row[1] : row \in new} |-> <<c, h>>]
  <2>1. {row[1] : row \in new} = ChunksOf[h]
    <3>1. \A c \in ChunksOf[h] : <<c, h>> \in new /\ <<c, h>>[1] = c
      OBVIOUS
    <3>2. \A row \in new : row[1] \in ChunksOf[h]
      OBVIOUS
    <3>3. QED
      BY <3>1, <3>2
  <2>2. first \in [{row[1] : row \in new} -> new]
    OBVIOUS
  <2>3. DOMAIN first = ChunksOf[h] /\ \A c \in ChunksOf[h] : first[c] = <<c, h>>
    BY <2>1
  <2>4. chunkHome' = [c \in Chunks |->
                         IF chunkHome[c] = None /\ c \in DOMAIN first
                           THEN first[c][2] ELSE chunkHome[c]]
    BY <1>2, <2>3
  <2>5. \A c \in DOMAIN first : first[c][1] = c
    BY <2>3
  <2>6. QED
    BY <2>2, <2>4, <2>5 DEF IndexView!InsertRows
<1>5. QED
  BY <1>1, <1>3, <1>4 DEF IndexView!UploadXorb, IndexView!handlerVars

\* Nothing else touches the index.
LEMMA StepCommits ==
    ASSUME IInv, [Next]_vars
    PROVE  [IndexView!Next]_IndexView!vars
<1>. USE DEF reqVars, lockVars, indexVars, storeVars, jobFrame
<1>1. ASSUME NEW u \in Uploads, RunInsert(u), ~ Indexed(hash[u])
      PROVE  IndexView!Next
  <2>1. hash[u] \in Hashes
    BY <1>1, NoneAssumption, ForgedAssumption
       DEF RunInsert, IInv, TypeOK, HandlerOK, Verified, Jobs
  <2>2. QED
    BY <1>1, <2>1, InsertCommits DEF IndexView!Next, IndexView!Step
<1>2. CASE UNCHANGED <<record, chunkHome>>
  BY <1>2 DEF IndexView!vars, IndexView!handlerVars, IndexView!indexVars, Indexed
<1>3. CASE UNCHANGED vars \/ Kill
  BY <1>2, <1>3 DEF vars, Kill
<1>4. ASSUME NEW u \in Uploads, RunInsert(u), Indexed(hash[u])
      PROVE  UNCHANGED <<record, chunkHome>>
  BY <1>4 DEF RunInsert, Indexed
<1>5. ASSUME NEW u \in Uploads,
             \/ Arrive(u) \/ AcquirePermit(u) \/ TakeLock(u) \/ Disconnect(u)
             \/ Client(u) \/ Handler(u)
             \/ RunVerify(u) \/ RunLookup(u) \/ RunWrite(u) \/ WriteFails(u)
             \/ IndexFails(u)
      PROVE  UNCHANGED <<record, chunkHome>>
  BY <1>5 DEF Arrive, AcquirePermit, TakeLock, Disconnect, Client, ReadBody,
     ReadFails, Handler, RequestLock, FoundExisting, StartWrite, StartInsert,
     RespondInserted, RespondError, Respond, RunVerify, RunLookup, RunWrite,
     WriteFails, IndexFails
<1>6. QED
  BY <1>1, <1>2, <1>3, <1>4, <1>5 DEF Next, Job

\* index.rs:152-183: to the index an upload happens at once or not at all, and
\* once, whatever else the handler, its jobs and its client do.
THEOREM Refinement == Spec => ImplementsRegistry
<1>1. Init => IndexView!Init
  BY DEF Init, IndexView!Init, Indexed
<1>2. IInv /\ [Next]_vars => [IndexView!Next]_IndexView!vars
  BY StepCommits
<1>3. QED
  BY <1>1, <1>2, Invariance, PTL DEF Spec, ImplementsRegistry, IndexView!Spec

-------------------------------------------------------------------------------
(* The refinement of StoredXorbs.                                          *)

\* What the steps of an upload, alone or cut, do to objects and records.
LEMMA StepStores ==
    ASSUME IInv, [Next]_vars
    PROVE  [Store!StoredNext]_Store!storedVars
<1>. USE DEF reqVars, lockVars, indexVars, storeVars, jobFrame
<1>1. CASE UNCHANGED <<object, record>>
  BY <1>1 DEF Store!storedVars, Indexed
<1>2. ASSUME NEW u \in Uploads, job[u] \in {"write", "insert"}
      PROVE  hash[u] \in Hashes /\ body[u] # None
  BY <1>2, ForgedAssumption, NoneAssumption
     DEF IInv, TypeOK, HandlerOK, Verified, Jobs
<1>3. ASSUME NEW u \in Uploads, RunWrite(u) \/ WriteFails(u)
      PROVE  [Store!StoredNext]_Store!storedVars
  <2>1. /\ record' = record /\ job[u] = "write"
        /\ object' \in {object, [object EXCEPT ![hash[u]] = body[u]]}
    BY <1>3 DEF RunWrite, WriteFails
  <2>2. hash[u] \in Hashes /\ body[u] # None
    BY <1>2, <2>1
  <2>3. CASE object' = [object EXCEPT ![hash[u]] = body[u]]
    <3>1. {h \in Hashes : object'[h] # None} = {h \in Hashes : object[h] # None} \cup {hash[u]}
      BY <2>2, <2>3 DEF IInv, TypeOK
    <3>2. \E h \in Hashes : Store!Write(h)
      BY <2>1, <2>2, <3>1 DEF Store!Write, Indexed
    <3>3. QED
      BY <3>2 DEF Store!StoredNext
  <2>4. QED
    BY <1>1, <2>1, <2>3
<1>4. ASSUME NEW u \in Uploads, RunInsert(u), ~ Indexed(hash[u])
      PROVE  Store!StoredNext
  <2>1. hash[u] \in Hashes /\ body[u] # None
    BY <1>2, <1>4 DEF RunInsert
  <2>2. object' = object /\ record' = [record EXCEPT ![hash[u]] = body[u]]
    BY <1>4 DEF RunInsert, AddRecord, Indexed
  <2>3. object[hash[u]] # None
    BY <1>4 DEF RunInsert, IInv, StoreOK
  <2>4. {h \in Hashes : Indexed(h)}' = {h \in Hashes : Indexed(h)} \cup {hash[u]}
    BY <2>1, <2>2 DEF Indexed, IInv, TypeOK
  <2>5. Store!Index(hash[u])
    BY <2>1, <2>2, <2>3, <2>4 DEF Store!Index
  <2>6. QED
    BY <2>1, <2>5 DEF Store!StoredNext
<1>5. ASSUME NEW u \in Uploads, RunInsert(u), Indexed(hash[u])
      PROVE  UNCHANGED <<object, record>>
  BY <1>5 DEF RunInsert, Indexed
<1>6. CASE UNCHANGED vars \/ Kill
  BY <1>1, <1>6 DEF vars, Kill
<1>7. ASSUME NEW u \in Uploads,
             \/ Arrive(u) \/ AcquirePermit(u) \/ TakeLock(u) \/ Disconnect(u)
             \/ Client(u) \/ Handler(u)
             \/ RunVerify(u) \/ RunLookup(u) \/ IndexFails(u)
      PROVE  UNCHANGED <<object, record>>
  BY <1>7 DEF Arrive, AcquirePermit, TakeLock, Disconnect, Client, ReadBody,
     ReadFails, Handler, RequestLock, FoundExisting, StartWrite, StartInsert,
     RespondInserted, RespondError, Respond, RunVerify, RunLookup, IndexFails
<1>8. QED
  BY <1>1, <1>3, <1>4, <1>5, <1>6, <1>7 DEF Next, Job

\* xorbs.rs:95-101: objects only come, whole, and a record after its object,
\* whichever client is cut, call fails or kill interrupts an upload.
THEOREM StoresXorbs == Spec => ImplementsStoredXorbs
<1>1. Init => Store!StoredInit
  BY DEF Init, Store!StoredInit, Indexed
<1>2. IInv /\ [Next]_vars => [Store!StoredNext]_Store!storedVars
  BY StepStores
<1>3. QED
  BY <1>1, <1>2, Invariance, PTL DEF Spec, ImplementsStoredXorbs, Store!StoredSpec
===============================================================================
