------------------------- MODULE DoubleBufferProofs -------------------------
(***************************************************************************)
(* Proofs about aspl::DoubleBuffer<T>, for any number of threads, any set  *)
(* of values and any width of the index: the inductive invariant IInv, the *)
(* safety properties that follow from it, and the refinement of            *)
(* SnapshotRegister.                                                       *)
(*                                                                         *)
(* One lemma per action shows that the action preserves IInv.  A conjunct  *)
(* that an action can disturb has a step of its own; the others share one. *)
(***************************************************************************)
EXTENDS DoubleBuffer, TLAPS

-----------------------------------------------------------------------------
(* Indices.                                                                *)

(* The index after i is another index, of the other copy, and not the -1   *)
(* of an invalidated copy.                                                 *)
LEMMA IndexFacts ==
  ASSUME NEW i \in Indices
  PROVE  /\ BufferAt(i) \in Buffers
         /\ 1 - BufferAt(i) \in Buffers
         /\ 1 - BufferAt(i) # BufferAt(i)
         /\ NextIndex(i) \in Indices
         /\ NextIndex(i) # i
         /\ NextIndex(i) # -1
         /\ BufferAt(NextIndex(i)) = 1 - BufferAt(i)
  BY IndexAssumption DEF Indices, Buffers, BufferAt, NextIndex

(* 0 is an index, and -1, the mark of an invalidated copy, is none.        *)
LEMMA IndexRange == 0 \in Indices /\ -1 \notin Indices
  BY IndexAssumption DEF Indices

-----------------------------------------------------------------------------
(* Getters.                                                                *)

(* What a getter does is invisible to the part of the invariant that is    *)
(* about setters and the two copies.                                       *)
LEMMA GettersLeaveSetters ==
  ASSUME SetterInv, CopiesInv, UNCHANGED <<writerVars, bufferVars>>
  PROVE  SetterInv' /\ CopiesInv'
  BY DEF SetterInv, CopiesInv, writerVars, bufferVars, NewIndex, BeforeSwitch,
     AfterSwitch, SetterIn, OtherBuffer

(* A getter that enters its loop has loaded nothing yet.                   *)
LEMMA ReadCallInv ==
  ASSUME IInv, NEW r \in Readers, ReadCall(r)
  PROVE  IInv'
<1>1. TypeOK'
  BY DEF IInv, TypeOK, ReadCall, ReadGoto, writerVars, bufferVars, lockVars,
     Buffers, ReaderPC, WriterPC
<1>2. SetterInv' /\ CopiesInv'
  BY GettersLeaveSetters DEF IInv, ReadCall
<1>3. LockInv' /\ AnnounceInv' /\ AttemptInv' /\ HolderInv'
  BY DEF IInv, LockInv, ReadCall, ReadGoto, writerVars, bufferVars, lockVars,
     SetterIn, OtherBuffer, Buffers, AnnounceInv, NewIndex, NotLapped,
     AttemptInv, IndexMatches, HolderInv
<1>q. QED  BY <1>1, <1>2, <1>3 DEF IInv

(* A getter that loads the current index sees the current value; the index *)
(* being prepared, if any, is another one.                                 *)
LEMMA ReadLoadInv ==
  ASSUME IInv, NEW r \in Readers, ReadLoad(r)
  PROVE  IInv'
<1>1. TypeOK'
  BY IndexFacts DEF IInv, TypeOK, ReadLoad, ReadGoto, writerVars, bufferVars,
     lockVars, Buffers, ReaderPC, WriterPC
<1>2. AnnounceInv'
  BY IndexFacts DEF IInv, TypeOK, SetterInv, AnnounceInv, ReadLoad, ReadGoto,
     writerVars, bufferVars, Buffers, ReaderPC, WriterPC, NewIndex,
     BeforeSwitch, AfterSwitch, NotLapped, OtherBuffer
<1>3. AttemptInv'
  BY DEF IInv, TypeOK, CopiesInv, AttemptInv, ReadLoad, ReadGoto, bufferVars,
     Buffers, ReaderPC, WriterPC, AfterSwitch, IndexMatches
<1>4. SetterInv' /\ CopiesInv'
  BY GettersLeaveSetters DEF IInv, ReadLoad
<1>5. LockInv' /\ HolderInv'
  BY DEF IInv, LockInv, ReadLoad, ReadGoto, writerVars, bufferVars, lockVars,
     SetterIn, OtherBuffer, Buffers, HolderInv
<1>q. QED  BY <1>1, <1>2, <1>3, <1>4, <1>5 DEF IInv

(* Entering a shared mutex is possible only if no setter has announced     *)
(* itself there, so not while one assigns.                                 *)
LEMMA ReadLockSharedInv ==
  ASSUME IInv, NEW r \in Readers, ReadLockShared(r)
  PROVE  IInv'
<1>1. TypeOK'
  BY IndexFacts DEF IInv, TypeOK, ReadLockShared, ReadGoto, writerVars,
     bufferVars, Buffers, ReaderPC, WriterPC
<1>2. LockInv'
  BY DEF IInv, TypeOK, LockInv, ReadLockShared, ReadGoto, CanLockShared,
     writerVars, bufferVars, Buffers, ReaderPC, WriterPC, SetterIn,
     OtherBuffer
<1>3. SetterInv' /\ CopiesInv'
  BY GettersLeaveSetters DEF IInv, ReadLockShared
<1>4. AnnounceInv' /\ AttemptInv' /\ HolderInv'
  BY DEF IInv, AnnounceInv, ReadLockShared, ReadGoto, writerVars, bufferVars,
     NewIndex, NotLapped, OtherBuffer, AttemptInv, IndexMatches, HolderInv,
     SetterIn
<1>q. QED  BY <1>1, <1>2, <1>3, <1>4 DEF IInv

(* A getter that is refused forgets its attempt.                           *)
LEMMA ReadLockFailedInv ==
  ASSUME IInv, NEW r \in Readers, ReadLockFailed(r)
  PROVE  IInv'
<1>1. TypeOK'
  BY IndexRange DEF IInv, TypeOK, ReadLockFailed, ReadGoto, ForgetAttempt,
     writerVars, bufferVars, lockVars, Buffers, ReaderPC, WriterPC
<1>2. AnnounceInv'
  BY DEF IInv, TypeOK, AnnounceInv, ReadLockFailed, ReadGoto, ForgetAttempt,
     writerVars, bufferVars, Buffers, ReaderPC, WriterPC, NewIndex, NotLapped,
     OtherBuffer
<1>3. AttemptInv'
  BY DEF IInv, TypeOK, AttemptInv, ReadLockFailed, ReadGoto, ForgetAttempt,
     bufferVars, Buffers, ReaderPC, WriterPC, IndexMatches
<1>4. SetterInv' /\ CopiesInv'
  BY GettersLeaveSetters DEF IInv, ReadLockFailed
<1>5. LockInv' /\ HolderInv'
  BY DEF IInv, LockInv, ReadLockFailed, ReadGoto, ForgetAttempt, writerVars,
     bufferVars, lockVars, SetterIn, OtherBuffer, Buffers, HolderInv
<1>q. QED  BY <1>1, <1>2, <1>3, <1>4, <1>5 DEF IInv

(* A copy that still carries the loaded index has the value seen at the    *)
(* load; no copy being replaced carries an index that a getter can have    *)
(* loaded.                                                                 *)
LEMMA ReadReturnInv ==
  ASSUME IInv, NEW r \in Readers, ReadReturn(r)
  PROVE  IInv'
<1>1. TypeOK'
  BY DEF IInv, TypeOK, ReadReturn, ReadGoto, writerVars, bufferVars, lockVars,
     Buffers, ReaderPC, WriterPC
<1>2. HolderInv'
  BY IndexFacts, IndexRange DEF IInv, TypeOK, CopiesInv, AnnounceInv,
     HolderInv, ReadReturn, ReadGoto, writerVars, bufferVars, IndexMatches,
     Buffers, ReaderPC, WriterPC, SetterIn, OtherBuffer, AfterSwitch,
     NotLapped
<1>3. SetterInv' /\ CopiesInv'
  BY GettersLeaveSetters DEF IInv, ReadReturn
<1>4. LockInv' /\ AnnounceInv' /\ AttemptInv'
  BY DEF IInv, LockInv, ReadReturn, ReadGoto, writerVars, bufferVars,
     lockVars, SetterIn, OtherBuffer, Buffers, AnnounceInv, IndexMatches,
     NewIndex, NotLapped, AttemptInv
<1>q. QED  BY <1>1, <1>2, <1>3, <1>4 DEF IInv

(* A getter that finds another index in the copy leaves its mutex.         *)
LEMMA ReadIndexChangedInv ==
  ASSUME IInv, NEW r \in Readers, ReadIndexChanged(r)
  PROVE  IInv'
<1>1. TypeOK'
  BY IndexFacts, IndexRange DEF IInv, TypeOK, ReadIndexChanged, ReadGoto,
     ForgetAttempt, UnlockShared, writerVars, bufferVars, Buffers, ReaderPC,
     WriterPC
<1>2. LockInv'
  BY DEF IInv, TypeOK, LockInv, ReadIndexChanged, ReadGoto, ForgetAttempt,
     UnlockShared, writerVars, bufferVars, Buffers, ReaderPC, WriterPC,
     SetterIn, OtherBuffer
<1>3. AnnounceInv'
  BY DEF IInv, TypeOK, AnnounceInv, ReadIndexChanged, ReadGoto, ForgetAttempt,
     writerVars, bufferVars, Buffers, ReaderPC, WriterPC, NewIndex, NotLapped,
     OtherBuffer
<1>4. AttemptInv'
  BY DEF IInv, TypeOK, AttemptInv, ReadIndexChanged, ReadGoto, ForgetAttempt,
     bufferVars, IndexMatches, Buffers, ReaderPC, WriterPC
<1>5. SetterInv' /\ CopiesInv'
  BY GettersLeaveSetters DEF IInv, ReadIndexChanged
<1>6. HolderInv'
  BY DEF IInv, HolderInv, ReadIndexChanged, ReadGoto, ForgetAttempt,
     writerVars, bufferVars, SetterIn
<1>q. QED  BY <1>1, <1>2, <1>3, <1>4, <1>5, <1>6 DEF IInv

(* A getter that lets go leaves the mutex of the copy it had entered.      *)
LEMMA ReadReleaseInv ==
  ASSUME IInv, NEW r \in Readers, ReadRelease(r)
  PROVE  IInv'
<1>1. TypeOK'
  BY IndexFacts, IndexRange DEF IInv, TypeOK, ReadRelease, ReadGoto,
     ForgetAttempt, UnlockShared, writerVars, bufferVars, Buffers, ReaderPC,
     WriterPC
<1>2. LockInv'
  BY DEF IInv, TypeOK, LockInv, ReadRelease, ReadGoto, ForgetAttempt,
     UnlockShared, writerVars, bufferVars, Buffers, ReaderPC, WriterPC,
     SetterIn, OtherBuffer
<1>3. AnnounceInv'
  BY DEF IInv, TypeOK, AnnounceInv, ReadRelease, ReadGoto, ForgetAttempt,
     writerVars, bufferVars, Buffers, ReaderPC, WriterPC, NewIndex, NotLapped,
     OtherBuffer
<1>4. AttemptInv'
  BY DEF IInv, TypeOK, AttemptInv, ReadRelease, ReadGoto, ForgetAttempt,
     bufferVars, Buffers, ReaderPC, WriterPC, IndexMatches
<1>5. HolderInv'
  BY DEF IInv, TypeOK, HolderInv, ReadRelease, ReadGoto, ForgetAttempt,
     writerVars, bufferVars, Buffers, ReaderPC, WriterPC, SetterIn
<1>6. SetterInv' /\ CopiesInv'
  BY GettersLeaveSetters DEF IInv, ReadRelease
<1>q. QED  BY <1>1, <1>2, <1>3, <1>4, <1>5, <1>6 DEF IInv

-----------------------------------------------------------------------------
(* Setters.                                                                *)

(* writeMutex_ is free only if every setter is idle, so the index the      *)
(* setter loads stays current.                                             *)
LEMMA SetLockInv ==
  ASSUME IInv, NEW w \in Writers, SetLock(w)
  PROVE  IInv'
<1>1. TypeOK'
  BY DEF IInv, TypeOK, SetLock, WriteGoto, readerVars, bufferVars, lockVars,
     Buffers, ReaderPC, WriterPC
<1>2. SetterInv'
  BY WriterAssumption DEF IInv, TypeOK, SetterInv, SetLock, WriteGoto,
     bufferVars, Buffers, ReaderPC, WriterPC, AfterSwitch
<1>3. LockInv'
  BY IndexFacts, IndexRange, WriterAssumption DEF IInv, TypeOK, SetterInv,
     CopiesInv, LockInv, AnnounceInv, HolderInv, SetLock, WriteGoto,
     readerVars, bufferVars, lockVars, Buffers, ReaderPC, WriterPC, NewIndex,
     BeforeSwitch, AfterSwitch, SetterIn, OtherBuffer, NotLapped
<1>4. CopiesInv' /\ AnnounceInv' /\ AttemptInv' /\ HolderInv'
  BY DEF IInv, CopiesInv, SetLock, WriteGoto, bufferVars, SetterIn,
     OtherBuffer, AfterSwitch, AnnounceInv, readerVars, NewIndex, NotLapped,
     AttemptInv, IndexMatches, HolderInv
<1>q. QED  BY <1>1, <1>2, <1>3, <1>4 DEF IInv

(* The index that the setter writes into the other copy is one that no     *)
(* attempt has loaded.                                                     *)
LEMMA SetAnnounceInv ==
  ASSUME IInv, NEW w \in Writers, SetAnnounce(w)
  PROVE  IInv'
<1>1. TypeOK'
  BY IndexFacts DEF IInv, TypeOK, SetAnnounce, WriteGoto, readerVars,
     lockVars, NewIndex, Buffers, ReaderPC, WriterPC
<1>2. CopiesInv'
  BY IndexFacts DEF IInv, TypeOK, SetterInv, CopiesInv, SetAnnounce,
     WriteGoto, NewIndex, Buffers, ReaderPC, WriterPC, BeforeSwitch,
     AfterSwitch, SetterIn, OtherBuffer
<1>3. AnnounceInv'
  BY IndexFacts DEF IInv, TypeOK, SetterInv, AnnounceInv, SetAnnounce,
     WriteGoto, readerVars, NewIndex, NotLapped, Buffers, ReaderPC, WriterPC,
     BeforeSwitch, AfterSwitch, OtherBuffer
<1>4. SetterInv' /\ LockInv' /\ AttemptInv' /\ HolderInv'
  BY DEF IInv, SetterInv, SetAnnounce, WriteGoto, BeforeSwitch, AfterSwitch,
     LockInv, readerVars, lockVars, SetterIn, OtherBuffer, Buffers,
     AttemptInv, NotLapped, IndexMatches, HolderInv
<1>q. QED  BY <1>1, <1>2, <1>3, <1>4 DEF IInv

(* The setter announces itself at the mutex of the other copy.             *)
LEMMA SetEnterNewInv ==
  ASSUME IInv, NEW w \in Writers, SetEnterNew(w)
  PROVE  IInv'
<1>1. TypeOK'
  BY IndexFacts DEF IInv, TypeOK, SetEnterNew, WriteGoto, EnterExclusive,
     readerVars, bufferVars, NewIndex, Buffers, ReaderPC, WriterPC
<1>2. SetterInv' /\ CopiesInv' /\ LockInv' /\ AnnounceInv' /\ AttemptInv' /\ HolderInv'
  BY DEF IInv, SetterInv, SetEnterNew, WriteGoto, bufferVars, BeforeSwitch,
     AfterSwitch, CopiesInv, SetterIn, OtherBuffer, LockInv, EnterExclusive,
     readerVars, Buffers, AnnounceInv, NewIndex, NotLapped, AttemptInv,
     IndexMatches, HolderInv
<1>q. QED  BY <1>1, <1>2 DEF IInv

(* When the last reader has left the other copy, the setter has it for     *)
(* itself.                                                                 *)
LEMMA SetLockNewInv ==
  ASSUME IInv, NEW w \in Writers, SetLockNew(w)
  PROVE  IInv'
<1>1. TypeOK'
  BY DEF IInv, TypeOK, SetLockNew, WriteGoto, readerVars, bufferVars,
     lockVars, Buffers, ReaderPC, WriterPC
<1>2. LockInv'
  BY IndexFacts DEF IInv, TypeOK, SetterInv, LockInv, SetLockNew, WriteGoto,
     HasExclusive, readerVars, bufferVars, lockVars, NewIndex, Buffers,
     ReaderPC, WriterPC, BeforeSwitch, AfterSwitch, OtherBuffer
<1>3. SetterInv' /\ CopiesInv' /\ AnnounceInv' /\ AttemptInv' /\ HolderInv'
  BY DEF IInv, SetterInv, SetLockNew, WriteGoto, bufferVars, BeforeSwitch,
     AfterSwitch, CopiesInv, SetterIn, OtherBuffer, AnnounceInv, readerVars,
     NewIndex, NotLapped, AttemptInv, IndexMatches, HolderInv
<1>q. QED  BY <1>1, <1>2, <1>3 DEF IInv

(* The setter assigns the value of the copy it holds exclusively, and no   *)
(* reader is in there.                                                     *)
LEMMA SetStoreInv ==
  ASSUME IInv, NEW w \in Writers, SetStore(w)
  PROVE  IInv'
<1>1. TypeOK'
  BY IndexFacts DEF IInv, TypeOK, SetStore, WriteGoto, LeaveExclusive,
     readerVars, NewIndex, Buffers, ReaderPC, WriterPC
<1>2. CopiesInv'
  BY IndexFacts DEF IInv, TypeOK, SetterInv, CopiesInv, SetStore, WriteGoto,
     NewIndex, Buffers, ReaderPC, WriterPC, BeforeSwitch, AfterSwitch,
     SetterIn, OtherBuffer
<1>3. LockInv'
  BY DEF IInv, TypeOK, SetterInv, LockInv, SetStore, WriteGoto, readerVars,
     Buffers, ReaderPC, WriterPC, AfterSwitch, SetterIn
<1>4. AnnounceInv'
  BY IndexFacts DEF IInv, TypeOK, LockInv, AnnounceInv, SetStore, WriteGoto,
     readerVars, NewIndex, Buffers, ReaderPC, WriterPC, SetterIn, OtherBuffer,
     NotLapped
<1>5. AttemptInv'
  BY IndexFacts DEF IInv, TypeOK, SetterInv, LockInv, AnnounceInv, AttemptInv,
     SetStore, WriteGoto, readerVars, NewIndex, Buffers, ReaderPC, WriterPC,
     BeforeSwitch, AfterSwitch, SetterIn, OtherBuffer, NotLapped, IndexMatches
<1>6. SetterInv' /\ HolderInv'
  BY DEF IInv, SetterInv, SetStore, WriteGoto, BeforeSwitch, AfterSwitch,
     HolderInv, readerVars, SetterIn
<1>q. QED  BY <1>1, <1>2, <1>3, <1>4, <1>5, <1>6 DEF IInv

(* The stored copy becomes the current one; whoever reads now reads the    *)
(* old one.                                                                *)
LEMMA SetSwitchInv ==
  ASSUME IInv, NEW w \in Writers, SetSwitch(w)
  PROVE  IInv'
<1>1. TypeOK'
  BY IndexFacts DEF IInv, TypeOK, SetSwitch, WriteGoto, readerVars, lockVars,
     NewIndex, Buffers, ReaderPC, WriterPC
<1>2. SetterInv'
  BY DEF IInv, TypeOK, SetterInv, SetSwitch, WriteGoto, NewIndex, Buffers,
     ReaderPC, WriterPC, BeforeSwitch, AfterSwitch
<1>3. CopiesInv'
  BY IndexFacts DEF IInv, TypeOK, SetterInv, CopiesInv, AnnounceInv,
     SetSwitch, WriteGoto, NewIndex, Buffers, ReaderPC, WriterPC,
     BeforeSwitch, AfterSwitch, SetterIn, OtherBuffer
<1>4. LockInv'
  BY DEF IInv, SetterInv, LockInv, SetSwitch, WriteGoto, readerVars, lockVars,
     AfterSwitch, SetterIn, Buffers
<1>5. AnnounceInv'
  BY DEF IInv, TypeOK, SetterInv, AnnounceInv, SetSwitch, WriteGoto, Buffers,
     ReaderPC, WriterPC, AfterSwitch
<1>6. HolderInv'
  BY IndexFacts DEF IInv, TypeOK, SetterInv, AnnounceInv, HolderInv,
     SetSwitch, WriteGoto, readerVars, NewIndex, Buffers, ReaderPC, WriterPC,
     BeforeSwitch, AfterSwitch, OtherBuffer, SetterIn
<1>7. AttemptInv'
  BY DEF IInv, AttemptInv, SetSwitch, WriteGoto, readerVars, IndexMatches
<1>q. QED  BY <1>1, <1>2, <1>3, <1>4, <1>5, <1>6, <1>7 DEF IInv

(* From here on no getter can return with the old copy.                    *)
LEMMA SetInvalidateInv ==
  ASSUME IInv, NEW w \in Writers, SetInvalidate(w)
  PROVE  IInv'
<1>1. TypeOK'
  BY IndexFacts DEF IInv, TypeOK, SetInvalidate, WriteGoto, readerVars,
     lockVars, Buffers, ReaderPC, WriterPC
<1>2. CopiesInv'
  BY IndexFacts DEF IInv, TypeOK, SetterInv, CopiesInv, SetInvalidate,
     WriteGoto, Buffers, ReaderPC, WriterPC, NewIndex, AfterSwitch, SetterIn,
     OtherBuffer
<1>3. AnnounceInv'
  BY DEF IInv, SetterInv, AnnounceInv, SetInvalidate, WriteGoto, AfterSwitch
<1>4. AttemptInv'
  BY IndexRange DEF IInv, TypeOK, AttemptInv, SetInvalidate, WriteGoto,
     readerVars, Buffers, ReaderPC, WriterPC, IndexMatches
<1>5. SetterInv' /\ LockInv' /\ HolderInv'
  BY DEF IInv, SetterInv, SetInvalidate, WriteGoto, NewIndex, BeforeSwitch,
     AfterSwitch, LockInv, readerVars, lockVars, SetterIn, OtherBuffer,
     Buffers, HolderInv
<1>q. QED  BY <1>1, <1>2, <1>3, <1>4, <1>5 DEF IInv

(* The setter announces itself at the mutex of the old copy.               *)
LEMMA SetEnterOldInv ==
  ASSUME IInv, NEW w \in Writers, SetEnterOld(w)
  PROVE  IInv'
<1>1. TypeOK'
  BY IndexFacts DEF IInv, TypeOK, SetEnterOld, WriteGoto, EnterExclusive,
     readerVars, bufferVars, Buffers, ReaderPC, WriterPC
<1>2. SetterInv' /\ CopiesInv' /\ LockInv' /\ AnnounceInv' /\ AttemptInv' /\ HolderInv'
  BY DEF IInv, SetterInv, SetEnterOld, WriteGoto, bufferVars, NewIndex,
     BeforeSwitch, AfterSwitch, CopiesInv, SetterIn, OtherBuffer, LockInv,
     EnterExclusive, readerVars, Buffers, AnnounceInv, NotLapped, AttemptInv,
     IndexMatches, HolderInv
<1>q. QED  BY <1>1, <1>2 DEF IInv

(* When the last reader has left the old copy, nobody has a reference to   *)
(* the old value.                                                          *)
LEMMA SetLockOldInv ==
  ASSUME IInv, NEW w \in Writers, SetLockOld(w)
  PROVE  IInv'
<1>1. TypeOK'
  BY DEF IInv, TypeOK, SetLockOld, WriteGoto, readerVars, bufferVars,
     lockVars, Buffers, ReaderPC, WriterPC
<1>2. LockInv'
  BY IndexFacts DEF IInv, TypeOK, SetterInv, LockInv, SetLockOld, WriteGoto,
     HasExclusive, readerVars, bufferVars, lockVars, Buffers, ReaderPC,
     WriterPC, NewIndex, AfterSwitch, OtherBuffer
<1>3. HolderInv'
  BY IndexFacts DEF IInv, TypeOK, SetterInv, LockInv, HolderInv, SetLockOld,
     WriteGoto, HasExclusive, readerVars, bufferVars, Buffers, ReaderPC,
     WriterPC, NewIndex, AfterSwitch
<1>4. SetterInv' /\ CopiesInv' /\ AnnounceInv' /\ AttemptInv'
  BY DEF IInv, SetterInv, SetLockOld, WriteGoto, bufferVars, NewIndex,
     BeforeSwitch, AfterSwitch, CopiesInv, SetterIn, OtherBuffer, AnnounceInv,
     readerVars, NotLapped, AttemptInv, IndexMatches
<1>q. QED  BY <1>1, <1>2, <1>3, <1>4 DEF IInv

(* The setter destroys the old value; nobody reads it.                     *)
LEMMA SetDestroyOldInv ==
  ASSUME IInv, NEW w \in Writers, SetDestroyOld(w)
  PROVE  IInv'
<1>1. TypeOK'
  BY IndexFacts DEF IInv, TypeOK, SetDestroyOld, WriteGoto, LeaveExclusive,
     readerVars, Buffers, ReaderPC, WriterPC
<1>2. CopiesInv'
  BY IndexFacts DEF IInv, TypeOK, SetterInv, CopiesInv, SetDestroyOld,
     WriteGoto, Buffers, ReaderPC, WriterPC, NewIndex, AfterSwitch, SetterIn,
     OtherBuffer
<1>3. LockInv'
  BY DEF IInv, TypeOK, SetterInv, LockInv, SetDestroyOld, WriteGoto,
     readerVars, Buffers, ReaderPC, WriterPC, AfterSwitch, SetterIn
<1>4. AttemptInv'
  BY IndexFacts, IndexRange DEF IInv, TypeOK, SetterInv, CopiesInv,
     AttemptInv, HolderInv, SetDestroyOld, WriteGoto, readerVars, Buffers,
     ReaderPC, WriterPC, NewIndex, AfterSwitch, SetterIn, OtherBuffer,
     IndexMatches
<1>5. SetterInv' /\ AnnounceInv' /\ HolderInv'
  BY DEF IInv, SetterInv, SetDestroyOld, WriteGoto, NewIndex, BeforeSwitch,
     AfterSwitch, AnnounceInv, readerVars, NotLapped, OtherBuffer, HolderInv,
     SetterIn
<1>q. QED  BY <1>1, <1>2, <1>3, <1>4, <1>5 DEF IInv

(* The setter returns and leaves the copies as they are.                   *)
LEMMA SetReturnInv ==
  ASSUME IInv, NEW w \in Writers, SetReturn(w)
  PROVE  IInv'
<1>1. TypeOK'
  BY IndexRange DEF IInv, TypeOK, SetReturn, WriteGoto, readerVars,
     bufferVars, lockVars, Buffers, ReaderPC, WriterPC
<1>2. SetterInv'
  BY IndexFacts, IndexRange, WriterAssumption DEF IInv, TypeOK, SetterInv,
     CopiesInv, LockInv, AnnounceInv, HolderInv, SetReturn, WriteGoto,
     readerVars, bufferVars, lockVars, Buffers, ReaderPC, WriterPC, NewIndex,
     BeforeSwitch, AfterSwitch, SetterIn, OtherBuffer, NotLapped
<1>3. CopiesInv' /\ LockInv' /\ AnnounceInv' /\ AttemptInv' /\ HolderInv'
  BY DEF IInv, CopiesInv, SetReturn, WriteGoto, bufferVars, SetterIn,
     OtherBuffer, AfterSwitch, LockInv, readerVars, lockVars, Buffers,
     AnnounceInv, NewIndex, NotLapped, AttemptInv, IndexMatches, HolderInv
<1>q. QED  BY <1>1, <1>2, <1>3 DEF IInv
-----------------------------------------------------------------------------
(* The invariant.                                                          *)

(* The constructor establishes the invariant.                              *)
LEMMA InitInv == Init => IInv
<1> SUFFICES ASSUME Init PROVE IInv
  OBVIOUS
<1>0. 1 \in Indices /\ BufferAt(1) = 1 /\ BufferAt(0) = 0
  BY IndexAssumption DEF Indices, BufferAt
<1>1. TypeOK
  BY <1>0, IndexRange DEF Init, TypeOK, Buffers, ReaderPC, WriterPC
<1>2. SetterInv
  BY WriterAssumption DEF Init, SetterInv, BeforeSwitch, AfterSwitch
<1>3. CopiesInv
  BY <1>0 DEF Init, CopiesInv, SetterIn, OtherBuffer, Buffers
<1>4. LockInv /\ AnnounceInv /\ AttemptInv /\ HolderInv
  BY <1>0 DEF Init, LockInv, AnnounceInv, AttemptInv, HolderInv, SetterIn, Buffers
<1>q. QED  BY <1>1, <1>2, <1>3, <1>4 DEF IInv

(* Every step of a getter or a setter preserves it.                        *)
LEMMA NextInv == IInv /\ [Next]_vars => IInv'
<1> SUFFICES ASSUME IInv, [Next]_vars PROVE IInv'
  OBVIOUS
<1>1. ASSUME NEW r \in Readers, ReadCall(r) \/ ReadStep(r) \/ ReadRelease(r)
      PROVE  IInv'
  BY <1>1, ReadCallInv, ReadLoadInv, ReadLockSharedInv, ReadLockFailedInv,
     ReadReturnInv, ReadIndexChangedInv, ReadReleaseInv DEF ReadStep
<1>2. ASSUME NEW w \in Writers, SetLock(w) \/ SetStep(w)
      PROVE  IInv'
  BY <1>2, SetLockInv, SetAnnounceInv, SetEnterNewInv, SetLockNewInv,
     SetStoreInv, SetSwitchInv, SetInvalidateInv, SetEnterOldInv,
     SetLockOldInv, SetDestroyOldInv, SetReturnInv DEF SetStep
<1>3. ASSUME UNCHANGED vars
      PROVE  IInv'
  BY <1>3 DEF vars, readerVars, writerVars, bufferVars, lockVars, IInv, TypeOK,
     SetterInv, CopiesInv, LockInv, AnnounceInv, AttemptInv, HolderInv,
     NewIndex, NotLapped, IndexMatches, OtherBuffer, SetterIn
<1>q. QED  BY <1>1, <1>2, <1>3 DEF Next

(* The invariant holds in every state of every behaviour.                  *)
THEOREM Invariance == Spec => []IInv
  BY InitInv, NextInv, PTL DEF Spec

(* The variables always have the types of the members they stand for: in   *)
(* particular the index never leaves the range of BufferIndex.             *)
THEOREM TypeCorrect == Spec => []TypeOK
<1>1. IInv => TypeOK
  BY DEF IInv
<1>q. QED  BY <1>1, Invariance, PTL

(* A setter assigns or destroys the value of a copy only while no getter   *)
(* has a reference into it and no other setter touches a copy.             *)
THEOREM CopiesAreNotRaced == Spec => []NoDataRace
<1>1. IInv => NoDataRace
  <2> SUFFICES ASSUME IInv, NEW w \in Writers, wpc[w] \in {"storing", "destroying"}
               PROVE  LET b == BufferAt(IF wpc[w] = "storing" THEN NewIndex(w) ELSE oldIndex[w])
                      IN  /\ \A r \in Readers : rpc[r] = "reading" => BufferAt(loaded[r]) # b
                          /\ \A x \in Writers \ {w} : wpc[x] \notin {"storing", "destroying"}
    BY DEF NoDataRace
  <2>1. readers[OtherBuffer] = {}
    BY DEF IInv, LockInv, SetterIn
  <2>2. BufferAt(IF wpc[w] = "storing" THEN NewIndex(w) ELSE oldIndex[w]) = OtherBuffer
    <3>1. CASE wpc[w] = "storing"
      BY <3>1, IndexFacts DEF IInv, TypeOK, SetterInv, BeforeSwitch, NewIndex, OtherBuffer
    <3>2. CASE wpc[w] = "destroying"
      BY <3>2, IndexFacts DEF IInv, TypeOK, SetterInv, AfterSwitch, NewIndex, OtherBuffer, Buffers
    <3>q. QED  BY <3>1, <3>2
  <2>3. \A r \in Readers : rpc[r] = "reading" => BufferAt(loaded[r]) # OtherBuffer
    BY <2>1, IndexFacts DEF IInv, TypeOK, LockInv
  <2>4. \A x \in Writers \ {w} : wpc[x] \notin {"storing", "destroying"}
    BY DEF IInv, SetterInv
  <2>q. QED  BY <2>2, <2>3, <2>4
<1>q. QED  BY <1>1, Invariance, PTL

(* What a getter refers to is, as long as its lock lives, the value that   *)
(* was current when it looked.                                             *)
THEOREM SnapshotsAreStable == Spec => []HeldValueIsStable
<1>1. IInv => HeldValueIsStable
  BY DEF IInv, AttemptInv, HeldValueIsStable
<1>q. QED  BY <1>1, Invariance, PTL

(* Between two calls of Set nobody has a reference to a replaced value, and*)
(* the replaced value is destroyed.                                        *)
THEOREM ReplacedValuesAreGone == Spec => []OldValueIsGone
<1>1. IInv => OldValueIsGone
  <2> SUFFICES ASSUME IInv, NonTrivial, writeMutex = NoWriter
               PROVE  /\ value[1 - BufferAt(currentIndex)] = NoValue
                      /\ \A r \in Readers : rpc[r] = "reading" => loaded[r] = currentIndex
    BY DEF OldValueIsGone
  <2>1. \A w \in Writers : wpc[w] = "idle"
    BY WriterAssumption DEF IInv, SetterInv
  <2>q. QED
    BY <2>1 DEF IInv, CopiesInv, HolderInv, SetterIn, OtherBuffer, AfterSwitch
<1>q. QED  BY <1>1, Invariance, PTL

-----------------------------------------------------------------------------
(* The refinement of SnapshotRegister: every step of a getter or a setter  *)
(* is, under the mapping of DoubleBuffer, a step of the register or leaves *)
(* the register unchanged.  A setter takes effect at                       *)
(* `currentIndex_ = newIndex`, a getter looks at its load of currentIndex_.*)

(* Getters.                                                                *)

(* The index that a setter has replaced is not the current one: a getter   *)
(* that loads the current index is not outdated.                           *)
LEMMA CurrentIsFresh ==
  ASSUME IInv, NEW w \in Writers, wpc[w] \in AfterSwitch
  PROVE  oldIndex[w] # currentIndex
  BY IndexFacts DEF IInv, TypeOK, SetterInv, NewIndex

(* The call of a getter is the call of the register's getter.              *)
LEMMA ReadCallRefines ==
  ASSUME IInv, NEW r \in Readers, ReadCall(r)
  PROVE  Register!Call(r)
<1>1. AbstractGetter[r] = "idle" /\ AbstractGetter' = [AbstractGetter EXCEPT ![r] = "calling"]
  BY DEF IInv, TypeOK, ReadCall, ReadGoto, AbstractGetter
<1>2. Snapshots' = Snapshots
  BY DEF IInv, TypeOK, ReadCall, ReadGoto, Snapshots, bufferVars
<1>3. Outdated' = Outdated /\ Expired' = Expired
  BY DEF IInv, TypeOK, ReadCall, ReadGoto, Outdated, Expired, Attempting, writerVars, bufferVars
<1>4. AbstractSetter' = AbstractSetter /\ value[BufferAt(currentIndex)]' = value[BufferAt(currentIndex)]
  BY DEF ReadCall, AbstractSetter, writerVars, bufferVars
<1>q. QED  BY <1>1, <1>2, <1>3, <1>4 DEF Register!Call

(* A load of currentIndex_ is a look at the register.                      *)
LEMMA ReadLoadRefines ==
  ASSUME IInv, NEW r \in Readers, ReadLoad(r)
  PROVE  Register!Look(r)
<1>1. AbstractGetter[r] = "calling" /\ AbstractGetter' = AbstractGetter
  BY DEF IInv, TypeOK, ReadLoad, ReadGoto, AbstractGetter
<1>2. Snapshots' = [Snapshots EXCEPT ![r] = value[BufferAt(currentIndex)]]
  BY DEF IInv, TypeOK, ReadLoad, ReadGoto, Snapshots, bufferVars
<1>3. Outdated' = Outdated \ {r}
  BY CurrentIsFresh DEF IInv, TypeOK, ReadLoad, ReadGoto, Outdated, Attempting, writerVars
<1>4. Expired' = Expired \ {r}
  BY <1>3 DEF IInv, TypeOK, ReadLoad, ReadGoto, Expired, Attempting, bufferVars
<1>5. AbstractSetter' = AbstractSetter /\ value[BufferAt(currentIndex)]' = value[BufferAt(currentIndex)]
  BY DEF ReadLoad, AbstractSetter, writerVars, bufferVars
<1>q. QED  BY <1>1, <1>2, <1>3, <1>4, <1>5 DEF Register!Look

(* Entering the shared mutex changes nothing that the register shows.      *)
LEMMA ReadLockSharedRefines ==
  ASSUME IInv, NEW r \in Readers, ReadLockShared(r)
  PROVE  UNCHANGED Register!vars
<1>1. AbstractGetter' = AbstractGetter /\ Snapshots' = Snapshots
  BY DEF IInv, TypeOK, ReadLockShared, ReadGoto, AbstractGetter, Snapshots, bufferVars
<1>2. Outdated' = Outdated /\ Expired' = Expired
  BY DEF IInv, TypeOK, ReadLockShared, ReadGoto, Outdated, Expired, Attempting, writerVars, bufferVars
<1>3. AbstractSetter' = AbstractSetter /\ value[BufferAt(currentIndex)]' = value[BufferAt(currentIndex)]
  BY DEF ReadLockShared, AbstractSetter, writerVars, bufferVars
<1>q. QED  BY <1>1, <1>2, <1>3 DEF Register!vars

(* An attempt that is given up, or a lock that is let go: the getter drops *)
(* its snapshot.                                                           *)
LEMMA ForgettingRefines ==
  ASSUME IInv, NEW r \in Readers, NEW from, NEW to \in {"idle", "start"},
         ReadGoto(r, from, to), ForgetAttempt(r),
         UNCHANGED <<writerVars, bufferVars>>
  PROVE  /\ Snapshots' = [Snapshots EXCEPT ![r] = NoValue]
         /\ Outdated' = Outdated \ {r}
         /\ Expired' = Expired \ {r}
         /\ AbstractSetter' = AbstractSetter
         /\ value[BufferAt(currentIndex)]' = value[BufferAt(currentIndex)]
<1>1. Snapshots' = [Snapshots EXCEPT ![r] = NoValue]
  BY DEF IInv, TypeOK, ReadGoto, ForgetAttempt, Snapshots, bufferVars
<1>2. Outdated' = Outdated \ {r}
  BY DEF IInv, TypeOK, ReadGoto, ForgetAttempt, Outdated, Attempting, writerVars
<1>3. Expired' = Expired \ {r}
  BY <1>2 DEF IInv, TypeOK, ReadGoto, ForgetAttempt, Expired, Attempting, bufferVars
<1>4. AbstractSetter' = AbstractSetter /\ value[BufferAt(currentIndex)]' = value[BufferAt(currentIndex)]
  BY DEF AbstractSetter, writerVars, bufferVars
<1>q. QED  BY <1>1, <1>2, <1>3, <1>4

(* A retry, for either reason, discards the look.                          *)
LEMMA RetryRefines ==
  ASSUME IInv, NEW r \in Readers, ReadLockFailed(r) \/ ReadIndexChanged(r)
  PROVE  Register!Discard(r)
<1>1. AbstractGetter[r] = "calling" /\ AbstractGetter' = AbstractGetter
  BY DEF IInv, TypeOK, ReadLockFailed, ReadIndexChanged, ReadGoto, AbstractGetter
<1>2. CASE ReadLockFailed(r)
  BY <1>1, <1>2, ForgettingRefines DEF ReadLockFailed, Register!Discard
<1>3. CASE ReadIndexChanged(r)
  BY <1>1, <1>3, ForgettingRefines DEF ReadIndexChanged, Register!Discard
<1>q. QED  BY <1>2, <1>3

(* The end of a ReadLock releases the snapshot.                            *)
LEMMA ReadReleaseRefines ==
  ASSUME IInv, NEW r \in Readers, ReadRelease(r)
  PROVE  Register!Release(r)
<1>1. AbstractGetter[r] = "holding" /\ AbstractGetter' = [AbstractGetter EXCEPT ![r] = "idle"]
  BY DEF IInv, TypeOK, ReadRelease, ReadGoto, AbstractGetter
<1>q. QED
  BY <1>1, ForgettingRefines DEF ReadRelease, Register!Release

(* The getter returns: its copy still carries the index it loaded, which   *)
(* the copy loses before the setter that replaced it returns.              *)
LEMMA ReadReturnRefines ==
  ASSUME IInv, NEW r \in Readers, ReadReturn(r)
  PROVE  Register!Return(r)
<1>1. AbstractGetter[r] = "calling" /\ AbstractGetter' = [AbstractGetter EXCEPT ![r] = "holding"]
  BY DEF IInv, TypeOK, ReadReturn, ReadGoto, AbstractGetter
<1>2. sample[r] \in Values /\ value[BufferAt(loaded[r])] = sample[r]
  BY DEF IInv, AttemptInv, ReadReturn, ReadGoto
<1>3. Snapshots' = Snapshots /\ Snapshots[r] # NoValue
  BY <1>2, ValueAssumption DEF IInv, TypeOK, ReadReturn, ReadGoto, Snapshots, bufferVars
<1>4. Outdated' = Outdated /\ Expired' = Expired
  BY DEF IInv, TypeOK, ReadReturn, ReadGoto, Outdated, Expired, Attempting, writerVars, bufferVars
<1>5. AbstractSetter' = AbstractSetter /\ value[BufferAt(currentIndex)]' = value[BufferAt(currentIndex)]
  BY DEF ReadReturn, AbstractSetter, writerVars, bufferVars
<1>6. ASSUME NonTrivial, r \in Expired PROVE FALSE
  <2>1. BufferAt(loaded[r]) = OtherBuffer /\ index[OtherBuffer] = loaded[r] /\ loaded[r] # -1
    <3>1. loaded[r] # currentIndex /\ index[BufferAt(loaded[r])] = loaded[r]
      BY <1>6 DEF Expired, ReadReturn, IndexMatches
    <3>2. BufferAt(loaded[r]) # BufferAt(currentIndex)
      BY <3>1 DEF IInv, CopiesInv
    <3>q. QED
      BY <3>1, <3>2, IndexFacts, IndexRange DEF IInv, TypeOK, OtherBuffer, Buffers
  <2>2. PICK w \in Writers : wpc[w] \in {"announced", "waiting", "storing", "stored", "switched"}
    BY <1>6, <2>1 DEF IInv, CopiesInv, SetterIn
  <2>3. CASE wpc[w] = "switched"
    BY <1>6, <2>1, <2>3 DEF IInv, CopiesInv, Expired, Outdated, AfterSwitch
  <2>4. CASE wpc[w] # "switched"
    BY <2>1, <2>2, <2>4 DEF IInv, AnnounceInv, NotLapped, ReadReturn, ReadGoto
  <2>q. QED  BY <2>3, <2>4
<1>q. QED  BY <1>1, <1>3, <1>4, <1>5, <1>6 DEF Register!Return

-----------------------------------------------------------------------------
(* Setters.                                                                *)

(* A setter begins when it has writeMutex_.                                *)
LEMMA SetLockRefines ==
  ASSUME IInv, NEW w \in Writers, SetLock(w)
  PROVE  Register!BeginSet(w)
<1>1. \A x \in Writers : wpc[x] = "idle"
  BY WriterAssumption DEF IInv, SetterInv, SetLock
<1>2. AbstractSetter' = [AbstractSetter EXCEPT ![w] = "setting"]
  BY DEF IInv, TypeOK, SetLock, WriteGoto, AbstractSetter, BeforeSwitch
<1>3. Outdated' = Outdated
  BY <1>1 DEF IInv, TypeOK, SetLock, WriteGoto, Outdated, AfterSwitch
<1>4. Expired' = Expired
  BY <1>3 DEF SetLock, Expired, Attempting, readerVars, bufferVars
<1>5. /\ AbstractGetter' = AbstractGetter /\ Snapshots' = Snapshots
      /\ value[BufferAt(currentIndex)]' = value[BufferAt(currentIndex)]
  BY DEF SetLock, AbstractGetter, Snapshots, readerVars, bufferVars
<1>q. QED
  BY <1>1, <1>2, <1>3, <1>4, <1>5 DEF Register!BeginSet, AbstractSetter

(* Between SetLock and SetSwitch, and between SetSwitch and SetReturn, a   *)
(* setter changes at most the copy that is not current, and its value only *)
(* when nobody has a reference to it.                                      *)
LEMMA SilentSetterStep ==
  ASSUME IInv, NEW w \in Writers,
         NEW Side \in {BeforeSwitch, AfterSwitch},
         NEW from \in Side, NEW to \in Side, WriteGoto(w, from, to),
         UNCHANGED <<readerVars, oldIndex, currentIndex>>,
         value'[BufferAt(currentIndex)] = value[BufferAt(currentIndex)],
         \A r \in Readers : rpc[r] = "reading" =>
           value'[BufferAt(loaded[r])] = value[BufferAt(loaded[r])]
  PROVE  UNCHANGED Register!vars
<1>1. AbstractGetter' = AbstractGetter /\ Snapshots' = Snapshots
  BY DEF AbstractGetter, Snapshots, readerVars
<1>2. Outdated' = Outdated
  BY DEF IInv, TypeOK, WriteGoto, Outdated, Attempting, BeforeSwitch, AfterSwitch, readerVars
<1>3. Expired' = Expired
  BY <1>2 DEF Expired, Attempting, readerVars
<1>4. AbstractSetter' = AbstractSetter
  BY DEF IInv, TypeOK, WriteGoto, AbstractSetter, BeforeSwitch, AfterSwitch
<1>q. QED  BY <1>1, <1>2, <1>3, <1>4 DEF Register!vars

(* The setter's steps that leave the values alone.                         *)
LEMMA PreparationRefines ==
  ASSUME IInv, NEW w \in Writers,
         \/ SetAnnounce(w) \/ SetEnterNew(w) \/ SetLockNew(w)
         \/ SetInvalidate(w) \/ SetEnterOld(w) \/ SetLockOld(w)
  PROVE  UNCHANGED Register!vars
<1>1. UNCHANGED <<readerVars, oldIndex, currentIndex, value>>
  BY DEF SetAnnounce, SetEnterNew, SetLockNew, SetInvalidate, SetEnterOld,
     SetLockOld, bufferVars
<1>2. CASE SetAnnounce(w) \/ SetEnterNew(w) \/ SetLockNew(w)
  <2>1. \/ WriteGoto(w, "locked", "announced")
        \/ WriteGoto(w, "announced", "waiting")
        \/ WriteGoto(w, "waiting", "storing")
    BY <1>2 DEF SetAnnounce, SetEnterNew, SetLockNew
  <2>2. {"locked", "announced", "waiting", "storing"} \subseteq BeforeSwitch
    BY DEF BeforeSwitch
  <2>q. QED  BY <1>1, <2>1, <2>2, SilentSetterStep
<1>3. CASE SetInvalidate(w) \/ SetEnterOld(w) \/ SetLockOld(w)
  BY <1>1, <1>3, SilentSetterStep DEF SetInvalidate, SetEnterOld, SetLockOld, AfterSwitch
<1>q. QED  BY <1>2, <1>3

(* The assignment and the destruction of a value: of the other copy, which *)
(* nobody reads.                                                           *)
LEMMA AssignmentRefines ==
  ASSUME IInv, NEW w \in Writers, SetStore(w) \/ SetDestroyOld(w)
  PROVE  UNCHANGED Register!vars
<1>1. \A r \in Readers : rpc[r] = "reading" => BufferAt(loaded[r]) # OtherBuffer
  BY IndexFacts DEF IInv, TypeOK, LockInv, SetterIn, SetStore, SetDestroyOld, WriteGoto
<1>2. OtherBuffer # BufferAt(currentIndex)
  BY IndexFacts DEF IInv, TypeOK, OtherBuffer
<1>3. CASE SetStore(w)
  <2>1. BufferAt(NewIndex(w)) = OtherBuffer
    BY <1>3, IndexFacts DEF IInv, TypeOK, SetterInv, SetStore, WriteGoto, NewIndex,
       OtherBuffer, BeforeSwitch
  <2>2. \A b \in Buffers : b # OtherBuffer => value'[b] = value[b]
    BY <1>3, <2>1 DEF IInv, TypeOK, SetStore
  <2>3. /\ WriteGoto(w, "storing", "stored")
        /\ UNCHANGED <<readerVars, oldIndex, currentIndex>>
    BY <1>3 DEF SetStore
  <2>4. /\ value'[BufferAt(currentIndex)] = value[BufferAt(currentIndex)]
        /\ \A r \in Readers : rpc[r] = "reading" =>
             value'[BufferAt(loaded[r])] = value[BufferAt(loaded[r])]
    BY <2>2, <1>1, <1>2, IndexFacts DEF IInv, TypeOK
  <2>5. "storing" \in BeforeSwitch /\ "stored" \in BeforeSwitch
    BY DEF BeforeSwitch
  <2>q. QED  BY <2>3, <2>4, <2>5, SilentSetterStep
<1>4. CASE SetDestroyOld(w)
  <2>1. BufferAt(oldIndex[w]) = OtherBuffer
    BY <1>4, IndexFacts DEF IInv, TypeOK, SetterInv, SetDestroyOld, WriteGoto, NewIndex,
       OtherBuffer, AfterSwitch, Buffers
  <2>2. \A b \in Buffers : b # OtherBuffer => value'[b] = value[b]
    BY <1>4, <2>1 DEF IInv, TypeOK, SetDestroyOld
  <2>3. /\ WriteGoto(w, "destroying", "done")
        /\ UNCHANGED <<readerVars, oldIndex, currentIndex>>
    BY <1>4 DEF SetDestroyOld
  <2>4. /\ value'[BufferAt(currentIndex)] = value[BufferAt(currentIndex)]
        /\ \A r \in Readers : rpc[r] = "reading" =>
             value'[BufferAt(loaded[r])] = value[BufferAt(loaded[r])]
    BY <2>2, <1>1, <1>2, IndexFacts DEF IInv, TypeOK
  <2>q. QED  BY <2>3, <2>4, SilentSetterStep DEF AfterSwitch
<1>q. QED  BY <1>3, <1>4

(* The switch of the index is the moment the new value becomes the         *)
(* register's: every attempt that has looked is outdated from now on.      *)
LEMMA SetSwitchRefines ==
  ASSUME IInv, NEW w \in Writers, SetSwitch(w)
  PROVE  Register!Replace(w)
<1>1. /\ \A x \in Writers \ {w} : wpc[x] = "idle"
      /\ oldIndex[w] = currentIndex /\ currentIndex' = NewIndex(w)
      /\ BufferAt(NewIndex(w)) = OtherBuffer
  BY IndexFacts DEF IInv, TypeOK, SetterInv, BeforeSwitch, SetSwitch, WriteGoto,
     NewIndex, OtherBuffer
<1>2. \A r \in Readers : Attempting(r) => loaded[r] # NewIndex(w)
  BY <1>1 DEF IInv, AnnounceInv, NotLapped, SetSwitch, WriteGoto, Attempting
<1>3. \A r \in Readers : Attempting(r) <=> Snapshots[r] # NoValue
  BY ValueAssumption DEF IInv, TypeOK, AttemptInv, Snapshots, Attempting, ReaderPC
<1>4. Outdated = {}
  BY <1>1 DEF Outdated, AfterSwitch, SetSwitch, WriteGoto
<1>5. Outdated' = {r \in Readers : Attempting(r) /\ loaded[r] = currentIndex}
  <2>1. \A x \in Writers : wpc'[x] \in AfterSwitch <=> x = w
    BY <1>1 DEF IInv, TypeOK, SetSwitch, WriteGoto, AfterSwitch
  <2>2. oldIndex' = oldIndex /\ loaded' = loaded /\ rpc' = rpc
    BY DEF SetSwitch, readerVars
  <2>q. QED  BY <1>1, <2>1, <2>2 DEF Outdated, Attempting
<1>6. Expired' = Expired /\ Outdated' = {r \in Readers : Snapshots[r] # NoValue} \ Expired
  BY <1>1, <1>2, <1>3, <1>4, <1>5 DEF Expired, Attempting, SetSwitch, readerVars
<1>7. AbstractSetter[w] = "setting" /\ AbstractSetter' = [AbstractSetter EXCEPT ![w] = "replaced"]
  BY DEF IInv, TypeOK, SetSwitch, WriteGoto, AbstractSetter, BeforeSwitch
<1>8. AbstractGetter' = AbstractGetter /\ Snapshots' = Snapshots
  BY DEF SetSwitch, AbstractGetter, Snapshots, readerVars
<1>9. value[BufferAt(currentIndex)]' \in Values
  BY <1>1 DEF IInv, CopiesInv, SetterIn, SetSwitch, WriteGoto
<1>q. QED  BY <1>6, <1>7, <1>8, <1>9 DEF Register!Replace

(* Set returns, and nobody holds the value it replaced if values have      *)
(* destructors.                                                            *)
LEMMA SetReturnRefines ==
  ASSUME IInv, NEW w \in Writers, SetReturn(w)
  PROVE  Register!EndSet(w)
<1>1. \A x \in Writers \ {w} : wpc[x] = "idle"
  BY DEF IInv, SetterInv, SetReturn, WriteGoto
<1>2. AbstractSetter[w] = "replaced" /\ AbstractSetter' = [AbstractSetter EXCEPT ![w] = "idle"]
  BY DEF IInv, TypeOK, SetReturn, WriteGoto, AbstractSetter, BeforeSwitch
<1>3. Outdated = {r \in Readers : Attempting(r) /\ loaded[r] = oldIndex[w]}
  BY <1>1 DEF Outdated, SetReturn, WriteGoto, AfterSwitch
<1>4. oldIndex[w] # currentIndex
  BY CurrentIsFresh DEF SetReturn, WriteGoto, AfterSwitch
<1>5. ASSUME NonTrivial, NEW r \in Outdated PROVE AbstractGetter[r] # "holding"
  <2>1. ~SetterIn({"switched", "invalidated", "waitingOld"})
    BY <1>1 DEF SetterIn, SetReturn, WriteGoto
  <2>q. QED  BY <1>3, <1>4, <1>5, <2>1 DEF IInv, HolderInv, AbstractGetter
<1>6. Outdated' = {}
  BY <1>1 DEF IInv, TypeOK, Outdated, SetReturn, WriteGoto, AfterSwitch
<1>7. Expired' = Expired \union Outdated
  BY <1>3, <1>4, <1>6 DEF Expired, Attempting, SetReturn, readerVars, bufferVars
<1>8. /\ AbstractGetter' = AbstractGetter /\ Snapshots' = Snapshots
      /\ value[BufferAt(currentIndex)]' = value[BufferAt(currentIndex)]
  BY DEF SetReturn, AbstractGetter, Snapshots, readerVars, bufferVars
<1>q. QED  BY <1>2, <1>5, <1>6, <1>7, <1>8 DEF Register!EndSet

-----------------------------------------------------------------------------
(* The constructor leaves a register that holds its argument.              *)
LEMMA InitRefines == Init => Register!Init
<1> SUFFICES ASSUME Init PROVE Register!Init
  OBVIOUS
<1>1. BufferAt(1) = 1
  BY DEF BufferAt
<1>q. QED
  BY <1>1 DEF Init, Register!Init, AbstractGetter, AbstractSetter, Snapshots,
     Outdated, Expired, Attempting, Buffers

(* Every step is a step of the register or changes nothing that it shows.  *)
LEMMA NextRefines == IInv /\ [Next]_vars => [Register!Next]_(Register!vars)
<1> SUFFICES ASSUME IInv, [Next]_vars PROVE [Register!Next]_(Register!vars)
  OBVIOUS
<1>1. ASSUME NEW r \in Readers, ReadCall(r) \/ ReadStep(r) \/ ReadRelease(r)
      PROVE  [Register!Next]_(Register!vars)
  BY <1>1, ReadCallRefines, ReadLoadRefines, ReadLockSharedRefines, RetryRefines,
     ReadReturnRefines, ReadReleaseRefines DEF ReadStep, Register!Next
<1>2. ASSUME NEW w \in Writers, SetLock(w) \/ SetStep(w)
      PROVE  [Register!Next]_(Register!vars)
  BY <1>2, SetLockRefines, PreparationRefines, AssignmentRefines,
     SetSwitchRefines, SetReturnRefines DEF SetStep, Register!Next
<1>3. ASSUME UNCHANGED vars
      PROVE  UNCHANGED Register!vars
  BY <1>3 DEF vars, readerVars, writerVars, bufferVars, Register!vars, AbstractGetter,
     AbstractSetter, Snapshots, Outdated, Expired, Attempting
<1>q. QED  BY <1>1, <1>2, <1>3 DEF Next

(* The container keeps the promise of its documentation: getters see a     *)
(* value that was current while they looked and that does not change in    *)
(* their hands, and Set returns when nobody holds what it replaced.        *)
THEOREM Refinement == Spec => ImplementsRegister
<1>1. Spec => []IInv
  BY Invariance
<1>2. Spec => Register!Init
  BY InitRefines DEF Spec
<1>3. []IInv /\ [][Next]_vars => [][Register!Next]_(Register!vars)
  BY NextRefines, PTL
<1>q. QED  BY <1>1, <1>2, <1>3, PTL DEF Spec, ImplementsRegister, Register!Spec
=============================================================================
