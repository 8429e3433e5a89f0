---------------------------- MODULE DoubleBuffer ----------------------------
(***************************************************************************)
(* aspl::DoubleBuffer<T> (include/aspl/DoubleBuffer.hpp), the container    *)
(* under every lock-free getter of the library: two copies of a value, an  *)
(* index in each copy, the index of the current copy, a shared mutex per   *)
(* copy and a mutex that serializes the setters.                           *)
(*                                                                         *)
(* Every action is one step that other threads can tell apart: an atomic   *)
(* load or store, a lock or an unlock, or the access to the value that the *)
(* lock protects.  The shared mutex is libc++'s (the library builds only   *)
(* for macOS): lock() first announces the writer, which makes every later  *)
(* try_lock_shared() fail, and then waits for the present holders.         *)
(*                                                                         *)
(* Definitions named Bug... are faulty variants of the definition that     *)
(* follows them, kept to show that the properties can fail.                *)
(***************************************************************************)
EXTENDS Integers, FiniteSets

CONSTANTS
  Readers,     \* threads that read
  Writers,     \* threads that call Set
  NoWriter,    \* writeMutex_ is free
  Values,      \* values of T
  NoValue,     \* std::nullopt
  MaxIndex,    \* std::numeric_limits<BufferIndex>::max()
  NonTrivial   \* !std::is_trivial<T>::value

(* The largest value of a signed integer type is odd: the wrap-around to 0 *)
(* keeps the two copies alternating.                                       *)
ASSUME IndexAssumption   == MaxIndex \in Nat /\ MaxIndex % 2 = 1
ASSUME ValueAssumption   == NoValue \notin Values
ASSUME WriterAssumption  == NoWriter \notin Writers
ASSUME TrivialAssumption == NonTrivial \in BOOLEAN

VARIABLES
  currentIndex,  \* currentIndex_
  index,         \* buffers_[b].index
  value,         \* buffers_[b].value
  readers,       \* buffers_[b].mutex: the threads that hold it shared
  writeEntered,  \* buffers_[b].mutex: a writer holds it or waits for it
  writeMutex,    \* writeMutex_: the setter that holds it, or NoWriter
  rpc,           \* where a reader is
  loaded,        \* local currentIndex of a reader's attempt
  wpc,           \* where a setter is
  oldIndex,      \* local oldIndex of a setter
  sample         \* history: the value of the buffer when loaded was loaded

readerVars == <<rpc, loaded, sample>>
writerVars == <<wpc, oldIndex, writeMutex>>
bufferVars == <<currentIndex, index, value>>
lockVars   == <<readers, writeEntered>>
vars == <<readerVars, writerVars, bufferVars, lockVars>>

Buffers == {0, 1}
Indices == 0..MaxIndex

(* GetBufferAt.                                                            *)
BufferAt(i) == i % 2

NextIndex(i) == IF i < MaxIndex THEN i + 1 ELSE 0


Init ==
  (* The constructor's own Set, with oldIndex 0 and newIndex 1, before any *)
  (* other thread can reach the object.                                    *)
  /\ currentIndex = 1
  /\ index = [b \in Buffers |-> IF b = 1 THEN 1 ELSE -1]
  /\ \E v \in Values : value = [b \in Buffers |-> IF b = 1 THEN v ELSE NoValue]
  /\ readers = [b \in Buffers |-> {}]
  /\ writeEntered = [b \in Buffers |-> FALSE]
  /\ writeMutex = NoWriter
  /\ rpc = [r \in Readers |-> "idle"]
  /\ loaded = [r \in Readers |-> 0]
  /\ sample = [r \in Readers |-> NoValue]
  /\ wpc = [w \in Writers |-> "idle"]
  /\ oldIndex = [w \in Writers |-> 0]

-----------------------------------------------------------------------------
(* ReadLock: constructor, GetReference and destructor.                     *)

ReadGoto(r, from, to) ==
  /\ rpc[r] = from
  /\ rpc' = [rpc EXCEPT ![r] = to]

(* A getter is called: it enters the loop of the constructor.              *)
ReadCall(r) ==
  /\ ReadGoto(r, "idle", "start")
  /\ UNCHANGED <<loaded, sample, writerVars, bufferVars, lockVars>>

(* currentIndex_.load()                                                    *)
ReadLoad(r) ==
  /\ ReadGoto(r, "start", "loaded")
  /\ loaded' = [loaded EXCEPT ![r] = currentIndex]
  /\ sample' = [sample EXCEPT ![r] = value[BufferAt(currentIndex)]]
  /\ UNCHANGED <<writerVars, bufferVars, lockVars>>

CanLockShared(b) == ~writeEntered[b]

(* The locals of an attempt go out of scope: by `continue` or at the end   *)
(* of the ReadLock.                                                        *)
ForgetAttempt(r) ==
  /\ loaded' = [loaded EXCEPT ![r] = 0]
  /\ sample' = [sample EXCEPT ![r] = NoValue]

UnlockShared(r) ==
  readers' = [readers EXCEPT ![BufferAt(loaded[r])] = @ \ {r}]

(* try_lock_shared() succeeds                                              *)
ReadLockShared(r) ==
  /\ ReadGoto(r, "loaded", "locked")
  /\ CanLockShared(BufferAt(loaded[r]))
  /\ readers' = [readers EXCEPT ![BufferAt(loaded[r])] = @ \union {r}]
  /\ UNCHANGED <<loaded, sample, writeEntered, writerVars, bufferVars>>

(* try_lock_shared() fails: retry with a fresh index                       *)
BugReadLockFailed(r) ==
  /\ rpc[r] = "loaded" /\ ~CanLockShared(BufferAt(loaded[r]))
  /\ UNCHANGED vars
ReadLockFailed(r) ==
  /\ ReadGoto(r, "loaded", "start")
  /\ ~CanLockShared(BufferAt(loaded[r]))
  /\ ForgetAttempt(r)
  /\ UNCHANGED <<writerVars, bufferVars, lockVars>>

BugIndexMatches(r) == TRUE
IndexMatches(r) == index[BufferAt(loaded[r])] = loaded[r]

(* The buffer still carries the loaded index: the getter returns with the  *)
(* lock, and GetReference() may be used from now on.                       *)
ReadReturn(r) ==
  /\ ReadGoto(r, "locked", "reading")
  /\ IndexMatches(r)
  /\ UNCHANGED <<loaded, sample, writerVars, bufferVars, lockVars>>

BugReadIndexChanged(r) ==
  /\ ReadGoto(r, "locked", "start")
  /\ ~IndexMatches(r)
  /\ ForgetAttempt(r)
  /\ UNCHANGED <<lockVars, writerVars, bufferVars>>
(* The buffer was reused or invalidated: unlock and retry.                 *)
ReadIndexChanged(r) ==
  /\ ReadGoto(r, "locked", "start")
  /\ ~IndexMatches(r)
  /\ UnlockShared(r)
  /\ ForgetAttempt(r)
  /\ UNCHANGED <<writeEntered, writerVars, bufferVars>>

(* ~ReadLock                                                               *)
ReadRelease(r) ==
  /\ ReadGoto(r, "reading", "idle")
  /\ UnlockShared(r)
  /\ ForgetAttempt(r)
  /\ UNCHANGED <<writeEntered, writerVars, bufferVars>>

ReadStep(r) ==
  \/ ReadLoad(r) \/ ReadLockShared(r) \/ ReadLockFailed(r)
  \/ ReadReturn(r) \/ ReadIndexChanged(r)

-----------------------------------------------------------------------------
(* Set.                                                                    *)

WriteGoto(w, from, to) ==
  /\ wpc[w] = from
  /\ wpc' = [wpc EXCEPT ![w] = to]

NewIndex(w) == NextIndex(oldIndex[w])

(* Bound.  The code's index has 2^63 values; a getter whose attempt is     *)
(* suspended between its load and its check while that many setters run    *)
(* would take an old index for its own.  The model's index has MaxIndex+1  *)
(* values, so the setter of the model waits for such a getter instead.     *)
NotLapped(w) ==
  \A r \in Readers : rpc[r] \in {"loaded", "locked"} => loaded[r] # NewIndex(w)

BugSetLock(w) ==
  /\ WriteGoto(w, "idle", "locked")
  /\ writeMutex' = w
  /\ oldIndex' = [oldIndex EXCEPT ![w] = currentIndex]
  /\ UNCHANGED <<readerVars, bufferVars, lockVars>>
(* lock_guard writeLock(writeMutex_), and the load of the current index    *)
SetLock(w) ==
  /\ WriteGoto(w, "idle", "locked")
  /\ writeMutex = NoWriter
  /\ writeMutex' = w
  /\ oldIndex' = [oldIndex EXCEPT ![w] = currentIndex]
  /\ UNCHANGED <<readerVars, bufferVars, lockVars>>

(* newBuffer.index = newIndex                                              *)
SetAnnounce(w) ==
  /\ WriteGoto(w, "locked", "announced")
  /\ NotLapped(w)
  /\ index' = [index EXCEPT ![BufferAt(NewIndex(w))] = NewIndex(w)]
  /\ UNCHANGED <<oldIndex, writeMutex, currentIndex, value, readerVars, lockVars>>

(* unique_lock(mutex): announce the writer, then wait for the readers      *)
EnterExclusive(b) ==
  /\ ~writeEntered[b]
  /\ writeEntered' = [writeEntered EXCEPT ![b] = TRUE]
BugHasExclusive(b) == writeEntered[b]
HasExclusive(b) == writeEntered[b] /\ readers[b] = {}
LeaveExclusive(b) == writeEntered' = [writeEntered EXCEPT ![b] = FALSE]

SetEnterNew(w) ==
  /\ WriteGoto(w, "announced", "waiting")
  /\ EnterExclusive(BufferAt(NewIndex(w)))
  /\ UNCHANGED <<oldIndex, writeMutex, readers, readerVars, bufferVars>>

SetLockNew(w) ==
  /\ WriteGoto(w, "waiting", "storing")
  /\ HasExclusive(BufferAt(NewIndex(w)))
  /\ UNCHANGED <<oldIndex, writeMutex, readerVars, bufferVars, lockVars>>

(* newBuffer.value = value, and the end of the lock's scope                *)
SetStore(w) ==
  /\ WriteGoto(w, "storing", "stored")
  /\ \E v \in Values :
       value' = [value EXCEPT ![BufferAt(NewIndex(w))] = v]
  /\ LeaveExclusive(BufferAt(NewIndex(w)))
  /\ UNCHANGED <<oldIndex, writeMutex, currentIndex, index, readers, readerVars>>

(* currentIndex_ = newIndex                                                *)
SetSwitch(w) ==
  /\ WriteGoto(w, "stored", IF NonTrivial THEN "switched" ELSE "done")
  /\ currentIndex' = NewIndex(w)
  /\ UNCHANGED <<oldIndex, writeMutex, index, value, readerVars, lockVars>>

BugSetInvalidate(w) ==
  /\ WriteGoto(w, "switched", "invalidated")
  /\ UNCHANGED <<oldIndex, writeMutex, readerVars, bufferVars, lockVars>>
(* oldBuffer.index = -1                                                    *)
SetInvalidate(w) ==
  /\ WriteGoto(w, "switched", "invalidated")
  /\ index' = [index EXCEPT ![BufferAt(oldIndex[w])] = -1]
  /\ UNCHANGED <<oldIndex, writeMutex, currentIndex, value, readerVars, lockVars>>

SetEnterOld(w) ==
  /\ WriteGoto(w, "invalidated", "waitingOld")
  /\ EnterExclusive(BufferAt(oldIndex[w]))
  /\ UNCHANGED <<oldIndex, writeMutex, readers, readerVars, bufferVars>>

SetLockOld(w) ==
  /\ WriteGoto(w, "waitingOld", "destroying")
  /\ HasExclusive(BufferAt(oldIndex[w]))
  /\ UNCHANGED <<oldIndex, writeMutex, readerVars, bufferVars, lockVars>>

(* oldBuffer.value = {}, and the end of the lock's scope                   *)
SetDestroyOld(w) ==
  /\ WriteGoto(w, "destroying", "done")
  /\ value' = [value EXCEPT ![BufferAt(oldIndex[w])] = NoValue]
  /\ LeaveExclusive(BufferAt(oldIndex[w]))
  /\ UNCHANGED <<oldIndex, writeMutex, currentIndex, index, readers, readerVars>>

(* Set returns and releases writeMutex_.                                   *)
SetReturn(w) ==
  /\ WriteGoto(w, "done", "idle")
  /\ writeMutex' = NoWriter
  /\ oldIndex' = [oldIndex EXCEPT ![w] = 0]
  /\ UNCHANGED <<readerVars, bufferVars, lockVars>>

SetStep(w) ==
  \/ SetAnnounce(w) \/ SetEnterNew(w) \/ SetLockNew(w) \/ SetStore(w)
  \/ SetSwitch(w) \/ SetInvalidate(w) \/ SetEnterOld(w) \/ SetLockOld(w)
  \/ SetDestroyOld(w) \/ SetReturn(w)

-----------------------------------------------------------------------------
Next ==
  \/ \E r \in Readers : ReadCall(r) \/ ReadStep(r) \/ ReadRelease(r)
  \/ \E w \in Writers : SetLock(w) \/ SetStep(w)

Spec == Init /\ [][Next]_vars

(* Getters that run are scheduled again and again; nothing is assumed of   *)
(* setters, which may be suspended for ever.                               *)
GetterFairness == \A r \in Readers : WF_vars(ReadStep(r))

(* Readers let their locks go, and a setter that holds writeMutex_ is      *)
(* scheduled.  Nobody has to start anything.                               *)
SetterFairness ==
  /\ \A r \in Readers : WF_vars(ReadRelease(r))
  /\ \A w \in Writers : WF_vars(SetStep(w))

FairSpec == Spec /\ GetterFairness

(* From some step on, wherever it leaves them, no setter goes on.          *)
SettersSuspended == <>[][UNCHANGED writerVars]_vars

-----------------------------------------------------------------------------
ReaderPC == {"idle", "start", "loaded", "locked", "reading"}
WriterPC == {"idle", "locked", "announced", "waiting", "storing", "stored",
             "switched", "invalidated", "waitingOld", "destroying", "done"}

(* The variables have the types of the C++ members they stand for.         *)
TypeOK ==
  /\ currentIndex \in Indices
  /\ index \in [Buffers -> Indices \union {-1}]
  /\ value \in [Buffers -> Values \union {NoValue}]
  /\ readers \in [Buffers -> SUBSET Readers]
  /\ writeEntered \in [Buffers -> BOOLEAN]
  /\ writeMutex \in Writers \union {NoWriter}
  /\ rpc \in [Readers -> ReaderPC]
  /\ loaded \in [Readers -> Indices]
  /\ sample \in [Readers -> Values \union {NoValue}]
  /\ wpc \in [Writers -> WriterPC]
  /\ oldIndex \in [Writers -> Indices]

(* No data race on a copy: while a setter assigns or destroys the value of *)
(* a copy, no getter has a reference into that copy and no other setter    *)
(* touches it.                                                             *)
NoDataRace ==
  \A w \in Writers :
    LET b == BufferAt(IF wpc[w] = "storing" THEN NewIndex(w) ELSE oldIndex[w])
    IN  wpc[w] \in {"storing", "destroying"} =>
          /\ \A r \in Readers : rpc[r] = "reading" => BufferAt(loaded[r]) # b
          /\ \A x \in Writers \ {w} : wpc[x] \notin {"storing", "destroying"}

(* "The referred value is guaranteed to be immutable": what GetReference() *)
(* refers to is, for as long as the lock is alive, the value that was      *)
(* current when the getter looked, and never an empty optional.            *)
HeldValueIsStable ==
  \A r \in Readers :
    rpc[r] = "reading" =>
      /\ sample[r] \in Values
      /\ value[BufferAt(loaded[r])] = sample[r]

(* "Before setter returns, it waits until the previously used value is not *)
(* accessed by readers anymore and invokes destructor for the old value":  *)
(* between two calls of Set every reference in use refers to the current   *)
(* copy, and the other copy is empty.                                      *)
OldValueIsGone ==
  NonTrivial /\ writeMutex = NoWriter =>
    /\ value[1 - BufferAt(currentIndex)] = NoValue
    /\ \A r \in Readers : rpc[r] = "reading" => loaded[r] = currentIndex

BeforeSwitch == {"locked", "announced", "waiting", "storing", "stored"}
AfterSwitch  == {"switched", "invalidated", "waitingOld", "destroying", "done"}

(* The whole promise: the container implements the abstract register.  A   *)
(* setter takes effect when it switches the index, a getter looks when it  *)
(* loads the index.                                                        *)
Snapshots ==
  [r \in Readers |->
     IF rpc[r] = "reading" THEN value[BufferAt(loaded[r])] ELSE sample[r]]

AbstractGetter ==
  [r \in Readers |->
     IF rpc[r] = "idle" THEN "idle"
     ELSE IF rpc[r] = "reading" THEN "holding" ELSE "calling"]

AbstractSetter ==
  [w \in Writers |->
     IF wpc[w] = "idle" THEN "idle"
     ELSE IF wpc[w] \in BeforeSwitch THEN "setting" ELSE "replaced"]

Attempting(r) == rpc[r] \in {"loaded", "locked", "reading"}

(* Getters that saw the value that the setter in progress has replaced, and*)
(* getters that saw an older one.                                          *)
Outdated ==
  {r \in Readers : Attempting(r) /\
     \E w \in Writers : wpc[w] \in AfterSwitch /\ loaded[r] = oldIndex[w]}

Expired ==
  {r \in Readers : Attempting(r) /\ loaded[r] # currentIndex} \ Outdated

Register ==
  INSTANCE SnapshotRegister
    WITH NoSnapshot <- NoValue,
         register   <- value[BufferAt(currentIndex)],
         getter     <- AbstractGetter,
         snapshot   <- Snapshots,
         outdated   <- Outdated,
         expired    <- Expired,
         setter     <- AbstractSetter

ImplementsRegister == Register!Spec

-----------------------------------------------------------------------------
(* The inductive invariant behind the safety properties, in named parts.   *)

OtherBuffer == 1 - BufferAt(currentIndex)
SetterIn(S) == \E w \in Writers : wpc[w] \in S

(* The setter in progress holds writeMutex_, and knows the current index.  *)
SetterInv ==
  \A w \in Writers :
    /\ wpc[w] # "idle" <=> writeMutex = w
    /\ wpc[w] \in BeforeSwitch => oldIndex[w] = currentIndex
    /\ wpc[w] \in AfterSwitch => NewIndex(w) = currentIndex
    /\ wpc[w] \in {"switched", "invalidated", "waitingOld", "destroying"} =>
         NonTrivial

(* The current copy carries the current index and a value; the other copy  *)
(* carries an index only while a setter prepares it or has just left it.   *)
CopiesInv ==
  /\ index[BufferAt(currentIndex)] = currentIndex
  /\ value[BufferAt(currentIndex)] \in Values
  /\ SetterIn({"stored"}) => value[OtherBuffer] \in Values
  /\ \A w \in Writers :
       wpc[w] = "switched" => index[OtherBuffer] = oldIndex[w]
  /\ NonTrivial /\ ~SetterIn({"announced", "waiting", "storing", "stored", "switched"}) =>
       index[OtherBuffer] = -1
  /\ NonTrivial /\ ~SetterIn({"stored"} \union (AfterSwitch \ {"done"})) =>
       value[OtherBuffer] = NoValue

(* Who holds the shared mutexes, and what an exclusive holder excludes.    *)
LockInv ==
  /\ \A b \in Buffers, r \in Readers :
       r \in readers[b] <=>
         rpc[r] \in {"locked", "reading"} /\ BufferAt(loaded[r]) = b
  /\ SetterIn({"storing", "destroying"}) =>
       writeEntered[OtherBuffer] /\ readers[OtherBuffer] = {}

(* From the announcement on, the copy being prepared carries an index that *)
(* no attempt has loaded, and once it is stored no reader has entered it.  *)
AnnounceInv ==
  \A w \in Writers :
    /\ wpc[w] \in {"announced", "waiting", "storing", "stored"} =>
         /\ index[OtherBuffer] = NewIndex(w)
         /\ NotLapped(w)
    /\ wpc[w] = "stored" =>
         \A r \in Readers : rpc[r] = "reading" => BufferAt(loaded[r]) # OtherBuffer

(* If the copy still carries the loaded index, it still has the value seen *)
(* when the index was loaded.                                              *)
AttemptInv ==
  \A r \in Readers :
    /\ rpc[r] \in {"loaded", "locked", "reading"} => sample[r] \in Values
    /\ rpc[r] \in {"idle", "start"} => sample[r] = NoValue
    /\ rpc[r] \in {"loaded", "locked"} /\ IndexMatches(r) =>
         value[BufferAt(loaded[r])] = sample[r]
    /\ rpc[r] = "reading" => value[BufferAt(loaded[r])] = sample[r]

(* Only while a setter is replacing a value can a reference to a replaced  *)
(* value be in use, if values have destructors.                            *)
HolderInv ==
  \A r \in Readers :
    rpc[r] = "reading" =>
      /\ BufferAt(loaded[r]) = BufferAt(currentIndex) => loaded[r] = currentIndex
      /\ NonTrivial /\ ~SetterIn({"switched", "invalidated", "waitingOld"}) =>
           loaded[r] = currentIndex

IInv ==
  /\ TypeOK
  /\ SetterInv
  /\ CopiesInv
  /\ LockInv
  /\ AnnounceInv
  /\ AttemptInv
  /\ HolderInv

-----------------------------------------------------------------------------
(* "Getter is non-blocking and lock-free; it does not block if a setter    *)
(* thread is suspended in the middle": once no setter makes a step any     *)
(* more, every getter returns.                                             *)
GetterIsLockFree ==
  SettersSuspended =>
    \A r \in Readers : (rpc[r] = "start") ~> (rpc[r] = "reading")

(* A setter that holds writeMutex_ returns, however many getters come and  *)
(* go meanwhile, if it is scheduled and each of them lets its lock go.     *)
SetTerminates ==
  SetterFairness => \A w \in Writers : (writeMutex = w) ~> (writeMutex # w)
=============================================================================
