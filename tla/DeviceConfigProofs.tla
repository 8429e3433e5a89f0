-------------------------- MODULE DeviceConfigProofs --------------------------
(***************************************************************************)
(* Proofs about configuration changes, for any threads, devices and        *)
(* changes, and any number of calls of AddDevice and RemoveDevice: the     *)
(* inductive invariant IInv and the safety properties that follow from it. *)
(* The functions of the changes do nothing but request further changes,    *)
(* each of its own (FunctionsOnlyRequest): for a function that removes its *)
(* own device the properties are false, which a run shows.                 *)
(*                                                                         *)
(* First come lemmas about stacks, then one lemma per conjunct of the      *)
(* invariant.                                                              *)
(***************************************************************************)
EXTENDS DeviceConfig, SequenceTheorems, FiniteSetTheorems, WellFoundedInduction, TLAPS

Inv == FunctionsOnlyRequest /\ IInv

-----------------------------------------------------------------------------
(* Stacks.                                                                 *)

DeviceLock(f, d) ==
  /\ f.device = d
  /\ \/ f.op \in {"request", "perform"} /\ f.at # "enter"
     \/ f.op = "remove" /\ f.at \in {"flush", "flushing"}
PluginLock(f) == f.op \in {"add", "remove"} /\ f.at # "enter"

(* A sequence read from its end.                                           *)
LEMMA FromTheEnd ==
  ASSUME NEW S, NEW s \in Seq(S)
  PROVE  /\ Len(s) \in Nat /\ DOMAIN s = 1 .. Len(s)
         /\ \A p \in 1 .. Len(s) :
              /\ Len(s) + 1 - p \in 1 .. Len(s) /\ s[Len(s) + 1 - p] \in S
              /\ Len(s) + 1 - (Len(s) + 1 - p) = p
<1>1. Len(s) \in Nat /\ DOMAIN s = 1 .. Len(s)  BY LenProperties
<1>2. \A p \in 1 .. Len(s) :
        Len(s) + 1 - p \in 1 .. Len(s) /\ Len(s) + 1 - (Len(s) + 1 - p) = p
  BY <1>1
<1>3. \A i \in 1 .. Len(s) : s[i] \in S  BY ElementOfSeq
<1>q. QED  BY <1>1, <1>2, <1>3

LEMMA Flip ==
  ASSUME NEW n \in Nat
  PROVE  /\ \A p \in 1 .. n : n + 1 - p \in 1 .. n /\ (n + 1 - p = 1 <=> p = n)
         /\ \A p \in 1 .. n :
              /\ (n + 1) + 1 - p \in 2 .. n + 1
              /\ (n + 1) + 1 - p = 2 <=> p = n
              /\ p # n => (n + 1) + 1 - p \in 3 .. n + 1
              /\ (n + 1) + 1 - p - 1 = n + 1 - p
         /\ (n + 1) + 1 - (n + 1) = 1
OBVIOUS

LEMMA LocksOfSeq ==
  ASSUME NEW s \in Seq(Frames)
  PROVE  /\ \A d : (\E i \in DOMAIN s : DeviceLock(s[i], d))
                   <=> \E p \in 1 .. Len(s) : DeviceLock(s[Len(s) + 1 - p], d)
         /\ (\E i \in DOMAIN s : PluginLock(s[i]))
              <=> \E p \in 1 .. Len(s) : PluginLock(s[Len(s) + 1 - p])
<1>1. /\ Len(s) \in Nat /\ DOMAIN s = 1 .. Len(s)
      /\ \A p \in 1 .. Len(s) : /\ Len(s) + 1 - p \in 1 .. Len(s)
                                /\ Len(s) + 1 - (Len(s) + 1 - p) = p
  BY FromTheEnd
<1>2. ASSUME NEW i \in DOMAIN s
      PROVE  \E p \in 1 .. Len(s) : s[Len(s) + 1 - p] = s[i]
  BY <1>1
<1>3. \A p \in 1 .. Len(s) : \E i \in DOMAIN s : s[i] = s[Len(s) + 1 - p]
  BY <1>1
<1>q. QED  BY <1>2, <1>3

(* What a thread holds by the frames it is in.                             *)
LEMMA HoldsFrames ==
  ASSUME NEW t \in Threads, stack[t] \in Seq(Frames)
  PROVE  /\ \A d : HoldsDevice(t, d) <=> \E p \in 1 .. Depth(t) : DeviceLock(Frame(t, p), d)
         /\ HoldsPlugin(t) <=> \E p \in 1 .. Depth(t) : PluginLock(Frame(t, p))
BY LocksOfSeq DEF HoldsDevice, HoldsPlugin, DeviceLock, PluginLock, Depth, Frame

LEMMA HoldsFramesNext ==
  ASSUME NEW t \in Threads, stack'[t] \in Seq(Frames)
  PROVE  /\ \A d : HoldsDevice(t, d)' <=> \E p \in 1 .. Depth(t)' : DeviceLock(Frame(t, p)', d)
         /\ HoldsPlugin(t)' <=> \E p \in 1 .. Depth(t)' : PluginLock(Frame(t, p)')
BY LocksOfSeq DEF HoldsDevice, HoldsPlugin, DeviceLock, PluginLock, Depth, Frame

(* The frames of a thread.                                                 *)
LEMMA StackFacts ==
  ASSUME Inv, NEW t \in Threads
  PROVE  /\ stack \in [Threads -> Seq(Frames)] /\ stack[t] \in Seq(Frames)
         /\ Depth(t) \in Nat /\ (Idle(t) <=> Depth(t) = 0)
         /\ \A p \in 1 .. Depth(t) : Frame(t, p) \in Frames
         /\ ~Idle(t) => /\ Top(t) = Frame(t, Depth(t)) /\ Top(t) \in Frames
                        /\ Depth(t) \in 1 .. Depth(t) /\ 1 \in 1 .. Depth(t)
<1>1. stack \in [Threads -> Seq(Frames)] /\ stack[t] \in Seq(Frames)
  BY DEF Inv, IInv, StateInv
<1>2. Depth(t) \in Nat /\ \A p \in 1 .. Depth(t) : Frame(t, p) \in Frames
  BY <1>1, FromTheEnd DEF Depth, Frame
<1>3. Idle(t) <=> Depth(t) = 0  BY <1>1, EmptySeq DEF Idle, Depth
<1>4. ASSUME ~Idle(t)
      PROVE  /\ Top(t) = Frame(t, Depth(t)) /\ Depth(t) \in 1 .. Depth(t)
             /\ 1 \in 1 .. Depth(t)
  <2>1. Depth(t) + 1 - Depth(t) = 1 /\ Depth(t) \in 1 .. Depth(t)  BY <1>2, <1>3, <1>4
  <2>2. Top(t) = stack[t][1]  BY <1>1, <1>4, HeadTailProperties DEF Idle, Top
  <2>q. QED  BY <1>2, <2>1, <2>2 DEF Frame
<1>q. QED  BY <1>1, <1>2, <1>3, <1>4

(* How the frames of a thread change.                                      *)
Others(t) == \A u \in Threads : u = t \/ stack'[u] = stack[u]

LEMMA GotoFrames ==
  ASSUME Inv, NEW t \in Threads, NEW f \in Frames, ~Idle(t), Goto(t, f)
  PROVE  /\ stack' \in [Threads -> Seq(Frames)] /\ Others(t) /\ Depth(t)' = Depth(t)
         /\ \A p \in 1 .. Depth(t) : Frame(t, p)' = IF p = Depth(t) THEN f ELSE Frame(t, p)
<1> DEFINE s == stack[t]
<1>1. stack \in [Threads -> Seq(Frames)] /\ s \in Seq(Frames) /\ s # <<>>
  BY StackFacts DEF Idle
<1>2. /\ Tail(s) \in Seq(Frames) /\ Len(Tail(s)) = Len(s) - 1 /\ Len(s) \in Nat \ {0}
      /\ \A i \in 1 .. Len(s) - 1 : Tail(s)[i] = s[i + 1]
  BY <1>1, HeadTailProperties, EmptySeq
<1>3. stack'[t] = <<f>> \o Tail(s) /\ stack' = [stack EXCEPT ![t] = <<f>> \o Tail(s)]
  BY <1>1 DEF Goto
<1> HIDE DEF s
<1>4. /\ <<f>> \o Tail(s) \in Seq(Frames) /\ Len(<<f>> \o Tail(s)) = Len(s)
      /\ (<<f>> \o Tail(s))[1] = f
      /\ \A i \in 1 .. Len(s) : i # 1 => (<<f>> \o Tail(s))[i] = s[i]
  <2>1. <<f>> \in Seq(Frames) /\ Len(<<f>>) = 1 /\ <<f>>[1] = f  OBVIOUS
  <2>2. /\ <<f>> \o Tail(s) \in Seq(Frames) /\ Len(<<f>> \o Tail(s)) = 1 + Len(Tail(s))
        /\ \A i \in 1 .. 1 + Len(Tail(s)) :
             (<<f>> \o Tail(s))[i] = IF i <= 1 THEN <<f>>[i] ELSE Tail(s)[i - 1]
    BY <1>2, <2>1, ConcatProperties
  <2>3. \A i \in 1 .. Len(s) : i # 1 => i - 1 \in 1 .. Len(s) - 1 /\ (i - 1) + 1 = i /\ ~(i <= 1)
    BY <1>2
  <2>q. QED  BY <1>2, <2>1, <2>2, <2>3
<1>5. \A p \in 1 .. Len(s) : Len(s) + 1 - p \in 1 .. Len(s) /\ (Len(s) + 1 - p = 1 <=> p = Len(s))
  BY <1>2, Flip
<1>6. stack' \in [Threads -> Seq(Frames)] /\ Others(t)  BY <1>1, <1>3, <1>4 DEF Others
<1>q. QED  BY <1>3, <1>4, <1>5, <1>6 DEF Depth, Frame, s

LEMMA CallFrames ==
  ASSUME Inv, NEW t \in Threads, NEW f \in Frames, NEW c \in Frames, ~Idle(t),
         GotoAndCall(t, f, c)
  PROVE  /\ stack' \in [Threads -> Seq(Frames)] /\ Others(t) /\ Depth(t)' = Depth(t) + 1
         /\ \A p \in 1 .. Depth(t) : Frame(t, p)' = IF p = Depth(t) THEN f ELSE Frame(t, p)
         /\ \A p : p = Depth(t) + 1 => Frame(t, p)' = c
<1> DEFINE s == stack[t]
<1>1. stack \in [Threads -> Seq(Frames)] /\ s \in Seq(Frames) /\ s # <<>>
  BY StackFacts DEF Idle
<1>2. /\ Tail(s) \in Seq(Frames) /\ Len(Tail(s)) = Len(s) - 1 /\ Len(s) \in Nat \ {0}
      /\ \A i \in 1 .. Len(s) - 1 : Tail(s)[i] = s[i + 1]
  BY <1>1, HeadTailProperties, EmptySeq
<1> DEFINE r == <<c, f>> \o Tail(s)
<1>3. stack'[t] = r /\ stack' = [stack EXCEPT ![t] = r]  BY <1>1 DEF GotoAndCall
<1> HIDE DEF s
<1>4. /\ r \in Seq(Frames) /\ Len(r) = Len(s) + 1
      /\ r[1] = c /\ r[2] = f
      /\ \A i \in 3 .. Len(s) + 1 : r[i] = s[i - 1]
  <2>1. /\ <<c, f>> \in Seq(Frames) /\ Len(<<c, f>>) = 2
        /\ <<c, f>>[1] = c /\ <<c, f>>[2] = f
    OBVIOUS
  <2>2. /\ r \in Seq(Frames) /\ Len(r) = 2 + Len(Tail(s))
        /\ \A i \in 1 .. 2 + Len(Tail(s)) :
             r[i] = IF i <= 2 THEN <<c, f>>[i] ELSE Tail(s)[i - 2]
    BY <1>2, <2>1, ConcatProperties
  <2>3. \A i \in 3 .. Len(s) + 1 :
          i - 2 \in 1 .. Len(s) - 1 /\ (i - 2) + 1 = i - 1 /\ ~(i <= 2) /\ i \in 1 .. 2 + Len(Tail(s))
    BY <1>2
  <2>q. QED  BY <1>2, <2>1, <2>2, <2>3
<1> HIDE DEF r
<1>5. \A p \in 1 .. Len(s) :
        /\ (Len(s) + 1) + 1 - p \in 2 .. Len(s) + 1
        /\ (Len(s) + 1) + 1 - p = 2 <=> p = Len(s)
        /\ p # Len(s) => (Len(s) + 1) + 1 - p \in 3 .. Len(s) + 1
        /\ (Len(s) + 1) + 1 - p - 1 = Len(s) + 1 - p
  BY <1>2, Flip
<1>6. stack' \in [Threads -> Seq(Frames)] /\ Others(t)  BY <1>1, <1>3, <1>4 DEF Others
<1>7. r[(Len(s) + 1) + 1 - (Len(s) + 1)] = c  BY <1>2, <1>4, Flip
<1>8. \A p \in 1 .. Len(s) :
        r[(Len(s) + 1) + 1 - p] = IF p = Len(s) THEN f ELSE s[Len(s) + 1 - p]
  BY <1>4, <1>5
<1>9. Len(stack'[t]) = Len(s) + 1  BY <1>3, <1>4
<1>q. QED  BY <1>3, <1>6, <1>7, <1>8, <1>9 DEF Depth, Frame, s

LEMMA ReturnFrames ==
  ASSUME Inv, NEW t \in Threads, ~Idle(t), Return(t)
  PROVE  /\ stack' \in [Threads -> Seq(Frames)] /\ Others(t) /\ Depth(t)' = Depth(t) - 1
         /\ \A p \in 1 .. Depth(t) - 1 : Frame(t, p)' = Frame(t, p)
<1> DEFINE s == stack[t]
<1>1. stack \in [Threads -> Seq(Frames)] /\ s \in Seq(Frames) /\ s # <<>>
  BY StackFacts DEF Idle
<1>2. /\ Tail(s) \in Seq(Frames) /\ Len(Tail(s)) = Len(s) - 1 /\ Len(s) \in Nat \ {0}
      /\ \A i \in 1 .. Len(s) - 1 : Tail(s)[i] = s[i + 1]
  BY <1>1, HeadTailProperties, EmptySeq
<1>3. stack'[t] = Tail(s) /\ stack' = [stack EXCEPT ![t] = Tail(s)]  BY <1>1 DEF Return
<1> HIDE DEF s
<1>4. \A p \in 1 .. Len(s) - 1 :
        /\ Len(s) - 1 + 1 - p \in 1 .. Len(s) - 1
        /\ (Len(s) - 1 + 1 - p) + 1 = Len(s) + 1 - p
  BY <1>2
<1>5. stack' \in [Threads -> Seq(Frames)] /\ Others(t)  BY <1>1, <1>2, <1>3 DEF Others
<1>q. QED  BY <1>2, <1>3, <1>4, <1>5 DEF Depth, Frame, s

LEMMA BeginFrames ==
  ASSUME Inv, NEW t \in Threads, NEW c \in Frames, Begin(t, c)
  PROVE  /\ stack' \in [Threads -> Seq(Frames)] /\ Others(t) /\ Idle(t) /\ Depth(t) = 0
         /\ Depth(t)' = 1 /\ Frame(t, 1)' = c
<1>1. stack \in [Threads -> Seq(Frames)] /\ Idle(t) /\ Depth(t) = 0
  BY StackFacts DEF Begin
<1>2. stack' = [stack EXCEPT ![t] = <<c>>]  BY DEF Begin
<1>3. <<c>> \in Seq(Frames) /\ Len(<<c>>) = 1 /\ <<c>>[1] = c  OBVIOUS
<1>4. stack' \in [Threads -> Seq(Frames)] /\ Others(t) /\ stack'[t] = <<c>>
  BY <1>1, <1>2, <1>3 DEF Others
<1>q. QED  BY <1>1, <1>3, <1>4 DEF Depth, Frame

(* A thread that does nothing.                                             *)
LEMMA Unmoved ==
  ASSUME NEW u \in Threads, stack'[u] = stack[u]
  PROVE  /\ Depth(u)' = Depth(u) /\ \A p : Frame(u, p)' = Frame(u, p)
         /\ Idle(u)' <=> Idle(u)
         /\ HoldsPlugin(u)' <=> HoldsPlugin(u)
         /\ \A d : (HoldsDevice(u, d)' <=> HoldsDevice(u, d)) /\ (Flushes(u, d)' <=> Flushes(u, d))
         /\ \A c : Deciding(u, c)' <=> Deciding(u, c)
         /\ \A d, id : Running(u, d, id)' <=> Running(u, d, id)
         /\ \A p, op, c : Has(u, p, op, c)' <=> Has(u, p, op, c)
BY DEF Depth, Frame, Idle, HoldsPlugin, HoldsDevice, Flushes, Deciding, Running, Has, Top

-----------------------------------------------------------------------------
(* Calls.                                                                  *)

(* Calls with other fields.                                                *)
Ats == {"enter", "decide", "return", "listed", "unlisted", "flush", "flushing"}

LEMMA AtFields ==
  ASSUME NEW f \in Frames, NEW at \in Ats, NEW g, g = [f EXCEPT !.at = at]
  PROVE  /\ g \in Frames /\ g.at = at /\ g.op = f.op /\ g.device = f.device
         /\ g.change = f.change /\ g.id = f.id /\ g.hosted = f.hosted
BY DEF Frames, Ats

LEMMA IdFields ==
  ASSUME NEW f \in Frames, NEW i \in Nat, NEW g, g = [f EXCEPT !.id = i]
  PROVE  /\ g \in Frames /\ g.at = f.at /\ g.op = f.op /\ g.device = f.device
         /\ g.change = f.change /\ g.id = i /\ g.hosted = f.hosted
BY DEF Frames

LEMMA ChangeCalls ==
  ASSUME NEW c \in Changes
  PROVE  /\ Target[c] \in Devices
         /\ RequestCall(c) \in Frames /\ RequestCall(c).op = "request"
         /\ RequestCall(c).change = c /\ RequestCall(c).device = Target[c]
         /\ RequestCall(c).at = "enter" /\ RequestCall(c).id = 0
         /\ FunctionCall(c) \in Frames /\ FunctionCall(c).op = "run"
         /\ FunctionCall(c).change = c /\ FunctionCall(c).device = Target[c]
         /\ FunctionCall(c).at = "enter" /\ FunctionCall(c).id = 1
<1>1. Target[c] \in Devices  BY ConfigAssumption
<1>q. QED  BY <1>1 DEF RequestCall, FunctionCall, Call, Frames

LEMMA RecordIsFrame ==
  ASSUME NEW o \in {"run", "request", "perform", "add", "remove"}, NEW d \in Devices,
         NEW c \in Changes \union {NoChange}, NEW i \in Nat, NEW h \in BOOLEAN
  PROVE  [op |-> o, device |-> d, change |-> c, at |-> "enter", id |-> i, hosted |-> h] \in Frames
BY DEF Frames

LEMMA CallIsFrame ==
  ASSUME NEW o \in {"run", "request", "perform", "add", "remove"}, NEW d \in Devices,
         NEW c \in Changes \union {NoChange}
  PROVE  LET f == Call(o, d, c) IN
         /\ f \in Frames /\ f.op = o /\ f.device = d /\ f.change = c /\ f.at = "enter" /\ f.id = 0
BY RecordIsFrame DEF Call

LEMMA DeviceCalls ==
  ASSUME NEW d \in Devices
  PROVE  \A c \in {AddCall(d), RemoveCall(d)} :
           /\ c \in Frames /\ c.op \in {"add", "remove"} /\ c.device = d /\ c.at = "enter"
           /\ c.change = NoChange /\ c.id = 0
<1>1. NoChange \in Changes \union {NoChange}  OBVIOUS
<1>q. QED  BY <1>1, CallIsFrame DEF AddCall, RemoveCall

LEMMA PerformCallFacts ==
  ASSUME NEW d \in Devices, NEW id \in Nat
  PROVE  /\ PerformCall(d, id) \in Frames /\ PerformCall(d, id).op = "perform"
         /\ PerformCall(d, id).device = d /\ PerformCall(d, id).at = "enter"
         /\ PerformCall(d, id).id = id /\ PerformCall(d, id).change = NoChange
<1>1. NoChange \in Changes \union {NoChange}  OBVIOUS
<1>2. ASSUME NEW f \in Frames, NEW g, g = [f EXCEPT !.id = id]
      PROVE  g \in Frames /\ g.op = f.op /\ g.device = f.device /\ g.change = f.change /\ g.at = f.at /\ g.id = id
  BY <1>2 DEF Frames
<1>3. PerformCall(d, id) = [Call("perform", d, NoChange) EXCEPT !.id = id]
  BY DEF PerformCall
<1>q. QED  BY <1>1, <1>2, <1>3, CallIsFrame

(* What the innermost call of a thread can be.                             *)
LEMMA TopFacts ==
  ASSUME Inv, NEW t \in Threads, ~Idle(t)
  PROVE  LET f == Top(t) IN
         /\ f = Frame(t, Depth(t)) /\ f \in Frames /\ Depth(t) \in Nat \ {0}
         /\ Depth(t) \in 1 .. Depth(t)
         /\ f.device \in Devices /\ f.id \in Nat
         /\ f.op \in IF Depth(t) = 1 THEN Outermost(t) ELSE {"run", "request"}
         /\ f.at \in Places(f.op)
         /\ f.op \in {"run", "request"} => f.change \in Changes /\ f.device = Target[f.change]
         /\ f.op = "run" => f.id \in 1 .. Len(Body[f.change]) + 1
         /\ f.op = "request" => (f.change \in Nested <=> Depth(t) # 1)
         /\ f.op = "perform" => t = Hal
         /\ f.op \in {"perform", "add", "remove"} => Depth(t) = 1
         /\ f.op \in {"add", "remove"} => t # Hal
<1> DEFINE f == Top(t)
<1>1. /\ f = Frame(t, Depth(t)) /\ f \in Frames /\ Depth(t) \in Nat \ {0}
      /\ Depth(t) \in 1 .. Depth(t)
  BY StackFacts
<1>2. f.device \in Devices /\ f.id \in Nat  BY <1>1 DEF Frames
<1>3. /\ f.op \in IF Depth(t) = 1 THEN Outermost(t) ELSE {"run", "request"}
      /\ f.at \in Places(f.op)
      /\ f.op \in {"run", "request"} => f.change \in Changes /\ f.device = Target[f.change]
      /\ f.op = "run" => f.id \in 1 .. Len(Body[f.change]) + 1
      /\ f.op = "request" => (f.change \in Nested <=> Depth(t) # 1)
  BY <1>1 DEF Inv, IInv, StackInv
<1>q. QED  BY <1>1, <1>2, <1>3 DEF Outermost

(* Places in a stack where a call waits for a function.                    *)
LEMMA Below ==
  ASSUME Inv, NEW t \in Threads, NEW p \in 1 .. Depth(t), p # Depth(t)
  PROVE  Waiting(Frame(t, p))
BY StackFacts DEF Inv, IInv, StackInv

(* The outermost call of a thread.                                         *)
LEMMA FirstFacts ==
  ASSUME Inv, NEW t \in Threads, ~Idle(t)
  PROVE  LET f == Frame(t, 1) IN
         /\ f \in Frames /\ f.op \in Outermost(t) /\ f.at \in Places(f.op)
         /\ f.op \in {"request", "perform", "add", "remove"}
         /\ f.op = "perform" <=> t = Hal
         /\ f.op = "request" => f.change \notin Nested
         /\ Depth(t) # 1 => Waiting(f)
<1>1. 1 \in 1 .. Depth(t)  BY StackFacts
<1>q. QED  BY <1>1, StackFacts, Below DEF Inv, IInv, StackInv, Outermost

(* What a function calls: requests of nested changes.                      *)
LEMMA BodyFacts ==
  ASSUME Inv, NEW c \in Changes
  PROVE  /\ Len(Body[c]) \in Nat /\ DOMAIN Body[c] = 1 .. Len(Body[c])
         /\ \A k \in DOMAIN Body[c] :
              /\ Body[c][k].change \in Nested /\ Body[c][k].change \in Changes
              /\ Body[c][k] = RequestCall(Body[c][k].change)
         /\ \A k \in DOMAIN Body[c], e \in Changes : \A l \in DOMAIN Body[e] :
              Body[c][k].change = Body[e][l].change => c = e /\ k = l
<1>1. \A e \in Changes : Len(Body[e]) \in Nat /\ DOMAIN Body[e] = 1 .. Len(Body[e])
  BY ConfigAssumption, LenProperties
<1>2. ASSUME NEW e \in Changes, NEW k \in DOMAIN Body[e]
      PROVE  /\ Body[e][k].change \in Nested /\ Body[e][k].change \in Changes
             /\ Body[e][k] = RequestCall(Body[e][k].change)
  <2>1. PICK n \in Nested : Body[e][k] = RequestCall(n)  BY <1>2 DEF Inv, FunctionsOnlyRequest
  <2>2. n \in Changes  BY ConfigAssumption
  <2>q. QED  BY <2>1, <2>2, ChangeCalls
<1>3. ASSUME NEW k \in DOMAIN Body[c], NEW e \in Changes, NEW l \in DOMAIN Body[e],
             Body[c][k].change = Body[e][l].change
      PROVE  c = e /\ k = l
  <2>1. Body[c][k] = Body[e][l]  BY <1>2, <1>3
  <2>q. QED  BY <2>1 DEF Inv, FunctionsOnlyRequest
<1>q. QED  BY <1>1, <1>2, <1>3

(* A function that calls something requests a nested change.               *)
LEMMA RunStepFacts ==
  ASSUME Inv, NEW t \in Threads, RunStep(t)
  PROVE  /\ ~Idle(t) /\ Top(t).op = "run" /\ Top(t).at = "enter" /\ Depth(t) # 1
         /\ \/ Return(t)
            \/ \E c \in Nested :
                 /\ c \in Changes /\ Top(t).id \in DOMAIN Body[Top(t).change]
                 /\ Body[Top(t).change][Top(t).id] = RequestCall(c)
                 /\ GotoAndCall(t, [Top(t) EXCEPT !.id = Top(t).id + 1], RequestCall(c))
         /\ UNCHANGED <<host, listed, owned, device, queue, moves, history>>
<1>1. ~Idle(t) /\ Top(t).op = "run" /\ Top(t).at = "enter"  BY DEF RunStep, At
<1>2. Depth(t) # 1  BY <1>1, TopFacts DEF Outermost
<1>3. UNCHANGED <<host, listed, owned, device, queue, moves, history>>  BY DEF RunStep
<1>4. CASE Top(t).id <= Len(Body[Top(t).change])
  <2>1. Top(t).change \in Changes /\ Top(t).id \in 1 .. Len(Body[Top(t).change]) + 1
    BY <1>1, TopFacts
  <2>2. Top(t).id \in DOMAIN Body[Top(t).change]  BY <1>4, <2>1, BodyFacts
  <2>3. PICK c \in Nested : c \in Changes /\ Body[Top(t).change][Top(t).id] = RequestCall(c)
    BY <2>1, <2>2, BodyFacts
  <2>4. GotoAndCall(t, [Top(t) EXCEPT !.id = @ + 1], Body[Top(t).change][Top(t).id])
    BY <1>4 DEF RunStep
  <2>5. [Top(t) EXCEPT !.id = @ + 1] = [Top(t) EXCEPT !.id = Top(t).id + 1]
    BY <1>1, TopFacts DEF Frames
  <2>q. QED  BY <1>1, <1>2, <1>3, <2>2, <2>3, <2>4, <2>5
<1>5. CASE ~(Top(t).id <= Len(Body[Top(t).change]))
  BY <1>1, <1>2, <1>3, <1>5 DEF RunStep
<1>q. QED  BY <1>4, <1>5

-----------------------------------------------------------------------------
(* What an action does to the frames of a thread, and to the rest.         *)
Went(t, f) ==
  /\ stack' \in [Threads -> Seq(Frames)] /\ Others(t) /\ ~Idle(t) /\ f \in Frames
  /\ Depth(t)' = Depth(t)
  /\ \A p \in 1 .. Depth(t) : Frame(t, p)' = IF p = Depth(t) THEN f ELSE Frame(t, p)
Called(t, f, c) ==
  /\ stack' \in [Threads -> Seq(Frames)] /\ Others(t) /\ ~Idle(t) /\ f \in Frames /\ c \in Frames
  /\ Depth(t)' = Depth(t) + 1
  /\ \A p \in 1 .. Depth(t) : Frame(t, p)' = IF p = Depth(t) THEN f ELSE Frame(t, p)
  /\ \A p : p = Depth(t) + 1 => Frame(t, p)' = c
Returned(t) ==
  /\ stack' \in [Threads -> Seq(Frames)] /\ Others(t) /\ ~Idle(t)
  /\ Depth(t)' = Depth(t) - 1
  /\ \A p \in 1 .. Depth(t) - 1 : Frame(t, p)' = Frame(t, p)
Began(t, c) ==
  /\ stack' \in [Threads -> Seq(Frames)] /\ Others(t) /\ Idle(t) /\ c \in Frames
  /\ Depth(t) = 0 /\ Depth(t)' = 1 /\ Frame(t, 1)' = c

LEMMA GotoWent ==
  ASSUME Inv, NEW t \in Threads, NEW f \in Frames, ~Idle(t), Goto(t, f)
  PROVE  Went(t, f)
BY GotoFrames DEF Went

LEMMA GotoCalled ==
  ASSUME Inv, NEW t \in Threads, NEW f \in Frames, NEW c \in Frames, ~Idle(t),
         GotoAndCall(t, f, c)
  PROVE  Called(t, f, c)
BY CallFrames DEF Called

LEMMA ReturnReturned ==
  ASSUME Inv, NEW t \in Threads, ~Idle(t), Return(t)
  PROVE  Returned(t)
BY ReturnFrames DEF Returned

LEMMA BeginBegan ==
  ASSUME Inv, NEW t \in Threads, NEW c \in Frames, Begin(t, c)
  PROVE  Began(t, c)
BY BeginFrames DEF Began

(* The frame g is f with another value of at.                              *)
Moved(f, g, at) ==
  /\ g.at = at /\ g.op = f.op /\ g.device = f.device /\ g.change = f.change

LEMMA RunStepEffect ==
  ASSUME Inv, NEW t \in Threads, RunStep(t)
  PROVE  /\ ~Idle(t) /\ Top(t).op = "run" /\ Top(t).at = "enter" /\ Depth(t) # 1
         /\ \/ Returned(t)
            \/ \E c \in Changes, g \in Frames :
                 /\ c \in Nested /\ Top(t).id \in DOMAIN Body[Top(t).change]
                 /\ Body[Top(t).change][Top(t).id] = RequestCall(c)
                 /\ Moved(Top(t), g, "enter") /\ g.id = Top(t).id + 1
                 /\ Called(t, g, RequestCall(c))
         /\ host' = host /\ listed' = listed /\ owned' = owned /\ moves' = moves
         /\ pending' = pending /\ nextID' = nextID /\ inside' = inside /\ queue' = queue
         /\ asked' = asked /\ applied' = applied /\ aborted' = aborted
<1>1. /\ ~Idle(t) /\ Top(t).op = "run" /\ Top(t).at = "enter" /\ Depth(t) # 1
      /\ Top(t) \in Frames /\ Top(t).id \in Nat
      /\ UNCHANGED <<host, listed, owned, device, queue, moves, history>>
  BY RunStepFacts, TopFacts
<1>2. ASSUME NEW c \in Nested, c \in Changes, Top(t).id \in DOMAIN Body[Top(t).change],
             Body[Top(t).change][Top(t).id] = RequestCall(c),
             GotoAndCall(t, [Top(t) EXCEPT !.id = Top(t).id + 1], RequestCall(c))
      PROVE  \E e \in Changes, g \in Frames :
                 /\ e \in Nested /\ Top(t).id \in DOMAIN Body[Top(t).change]
                 /\ Body[Top(t).change][Top(t).id] = RequestCall(e)
                 /\ Moved(Top(t), g, "enter") /\ g.id = Top(t).id + 1
                 /\ Called(t, g, RequestCall(e))
  <2> DEFINE g == [Top(t) EXCEPT !.id = Top(t).id + 1]
  <2>1. Top(t).id + 1 \in Nat  BY <1>1
  <2>2. g \in Frames /\ g.at = Top(t).at /\ g.op = Top(t).op /\ g.device = Top(t).device
        /\ g.change = Top(t).change /\ g.id = Top(t).id + 1
    BY <1>1, <2>1, IdFields
  <2>3. GotoAndCall(t, g, RequestCall(c)) /\ RequestCall(c) \in Frames  BY <1>2, ChangeCalls
  <2> HIDE DEF g
  <2>4. Called(t, g, RequestCall(c))  BY <1>1, <2>2, <2>3, GotoCalled
  <2>q. QED  BY <1>1, <1>2, <2>2, <2>4 DEF Moved
<1>3. Return(t) => Returned(t)  BY <1>1, ReturnReturned
<1>q. QED  BY <1>1, <1>2, <1>3, RunStepFacts DEF device, history

LEMMA RequestEnterEffect ==
  ASSUME Inv, NEW t \in Threads, RequestEnter(t)
  PROVE  /\ ~Idle(t) /\ Top(t).op = "request" /\ Top(t).at = "enter"
         /\ CanLockDevice(t, Top(t).device)
         /\ \E g \in Frames :
              /\ Moved(Top(t), g, "decide") /\ g.hosted = host /\ Went(t, g)
         /\ asked' = Append(asked, Top(t).change)
         /\ host' = host /\ listed' = listed /\ owned' = owned /\ moves' = moves
         /\ pending' = pending /\ nextID' = nextID /\ inside' = inside /\ queue' = queue
         /\ applied' = applied /\ aborted' = aborted
<1>1. /\ ~Idle(t) /\ Top(t).op = "request" /\ Top(t).at = "enter"
      /\ CanLockDevice(t, Top(t).device)
      /\ asked' = Append(asked, Top(t).change)
      /\ UNCHANGED <<host, listed, owned, device, queue, moves, applied, aborted>>
      /\ Goto(t, [Top(t) EXCEPT !.at = "decide", !.hosted = host])
  BY DEF RequestEnter, At
<1> DEFINE g == [Top(t) EXCEPT !.at = "decide", !.hosted = host]
<1>2. Top(t) \in Frames /\ host \in BOOLEAN  BY <1>1, TopFacts DEF Inv, IInv, StateInv
<1>3. g \in Frames /\ Moved(Top(t), g, "decide") /\ g.hosted = host
  <2>1. PICK x : x = Top(t)  OBVIOUS
  <2>2. PICK h \in BOOLEAN : h = host  BY <1>2
  <2>3. PICK y : y = [x EXCEPT !.at = "decide", !.hosted = h]  OBVIOUS
  <2>4. x \in Frames  BY <1>2, <2>1
  <2>5. y \in Frames /\ Moved(x, y, "decide") /\ y.hosted = h  BY <2>3, <2>4 DEF Frames, Moved
  <2>6. y = g  BY <2>1, <2>2, <2>3
  <2>q. QED  BY <2>1, <2>2, <2>5, <2>6
<1> HIDE DEF g
<1>4. Went(t, g)  BY <1>1, <1>3, GotoWent DEF g
<1>q. QED  BY <1>1, <1>3, <1>4 DEF device

(* The function of change c is stored.                                     *)
Enqueues(d, c) ==
  pending' = [pending EXCEPT ![d] =
    [id \in DOMAIN @ \union {nextID[d]} |-> IF id = nextID[d] THEN c ELSE @[id]]]

LEMMA RequestEnqueueEffect ==
  ASSUME Inv, NEW t \in Threads, RequestEnqueue(t)
  PROVE  LET d == Top(t).device
             c == Top(t).change
         IN
         /\ ~Idle(t) /\ Top(t).op = "request" /\ Top(t).at = "decide"
         /\ Top(t).hosted /\ d \in owned /\ inside[d] = 0 /\ Returned(t)
         /\ Enqueues(d, c)
         /\ nextID' = [nextID EXCEPT ![d] = @ + 1]
         /\ queue' = [queue EXCEPT ![d] = Append(@, nextID[d])]
         /\ host' = host /\ listed' = listed /\ owned' = owned /\ moves' = moves
         /\ inside' = inside /\ asked' = asked /\ applied' = applied /\ aborted' = aborted
<1>1. /\ ~Idle(t) /\ Top(t).op = "request" /\ Top(t).at = "decide" /\ Return(t)
      /\ Top(t).hosted /\ Top(t).device \in owned /\ inside[Top(t).device] = 0
  BY DEF RequestEnqueue, At, MustEnqueue
<1>2. Returned(t)  BY <1>1, ReturnReturned
<1>q. QED  BY <1>1, <1>2 DEF RequestEnqueue, history, Enqueues

LEMMA RequestInPlaceEffect ==
  ASSUME Inv, NEW t \in Threads, RequestInPlace(t)
  PROVE  /\ ~Idle(t) /\ Top(t).op = "request" /\ Top(t).at = "decide"
         /\ ~MustEnqueue(Top(t)) /\ Top(t).change \in Changes
         /\ \E g \in Frames :
              /\ Moved(Top(t), g, "return") /\ g.hosted = Top(t).hosted
              /\ Called(t, g, FunctionCall(Top(t).change))
         /\ applied' = Append(applied, Top(t).change)
         /\ host' = host /\ listed' = listed /\ owned' = owned /\ moves' = moves
         /\ pending' = pending /\ nextID' = nextID /\ inside' = inside /\ queue' = queue
         /\ asked' = asked /\ aborted' = aborted
<1>1. /\ ~Idle(t) /\ Top(t).op = "request" /\ Top(t).at = "decide" /\ ~MustEnqueue(Top(t))
      /\ GotoAndCall(t, [Top(t) EXCEPT !.at = "return"], FunctionCall(Top(t).change))
      /\ applied' = Append(applied, Top(t).change)
      /\ UNCHANGED <<host, listed, owned, device, queue, moves, asked, aborted>>
  BY DEF RequestInPlace, At, Runs
<1> DEFINE g == [Top(t) EXCEPT !.at = "return"]
<1>2. Top(t) \in Frames /\ Top(t).change \in Changes  BY <1>1, TopFacts
<1>3. g \in Frames /\ g.at = "return" /\ g.op = Top(t).op /\ g.device = Top(t).device
      /\ g.change = Top(t).change /\ g.id = Top(t).id /\ g.hosted = Top(t).hosted
  BY <1>2, AtFields DEF Ats
<1>4. FunctionCall(Top(t).change) \in Frames  BY <1>2, ChangeCalls
<1> HIDE DEF g
<1>5. Called(t, g, FunctionCall(Top(t).change))  BY <1>1, <1>3, <1>4, GotoCalled DEF g
<1>q. QED  BY <1>1, <1>2, <1>3, <1>5 DEF device, Moved

LEMMA RequestReturnEffect ==
  ASSUME Inv, NEW t \in Threads, RequestReturn(t)
  PROVE  /\ ~Idle(t) /\ Top(t).op = "request" /\ Top(t).at = "return" /\ Returned(t)
         /\ host' = host /\ listed' = listed /\ owned' = owned /\ moves' = moves
         /\ pending' = pending /\ nextID' = nextID /\ inside' = inside /\ queue' = queue
         /\ asked' = asked /\ applied' = applied /\ aborted' = aborted
BY ReturnReturned DEF RequestReturn, At, device, history

LEMMA PerformEnterEffect ==
  ASSUME Inv, NEW t \in Threads, PerformEnter(t)
  PROVE  LET d == Top(t).device
             id == Top(t).id
         IN
         /\ ~Idle(t) /\ Top(t).op = "perform" /\ Top(t).at = "enter" /\ t = Hal
         /\ Depth(t) = 1 /\ CanLockDevice(t, d)
         /\ inside' = [inside EXCEPT ![d] = @ + 1]
         /\ \E g \in Frames :
              /\ Moved(Top(t), g, "return") /\ g.id = id
              /\ \/ /\ id \in DOMAIN pending[d] /\ pending[d][id] \in Changes
                    /\ Called(t, g, FunctionCall(pending[d][id]))
                    /\ applied' = Append(applied, pending[d][id])
                 \/ /\ id \notin DOMAIN pending[d]
                    /\ Went(t, g) /\ applied' = applied
         /\ host' = host /\ listed' = listed /\ owned' = owned /\ moves' = moves
         /\ pending' = pending /\ nextID' = nextID /\ queue' = queue
         /\ asked' = asked /\ aborted' = aborted
<1> DEFINE f == Top(t)
           d == f.device
           g == [f EXCEPT !.at = "return"]
<1>1. /\ ~Idle(t) /\ f.op = "perform" /\ f.at = "enter" /\ CanLockDevice(t, d)
      /\ inside' = [inside EXCEPT ![d] = @ + 1]
      /\ IF f.id \in DOMAIN pending[d]
         THEN GotoAndCall(t, g, FunctionCall(pending[d][f.id])) /\ Runs(pending[d][f.id])
         ELSE Goto(t, g) /\ UNCHANGED applied
      /\ UNCHANGED <<host, listed, owned, pending, nextID, queue, moves, asked, aborted>>
  BY DEF PerformEnter, At, Stored
<1>2. f \in Frames /\ t = Hal /\ Depth(t) = 1 /\ d \in Devices /\ f.id \in Nat
  BY <1>1, TopFacts
<1>3. g \in Frames /\ Moved(f, g, "return") /\ g.id = f.id  BY <1>2, AtFields DEF Moved, Ats
<1> HIDE DEF f, d, g
<1>4. CASE f.id \in DOMAIN pending[d]
  <2>1. pending[d][f.id] \in Changes  BY <1>2, <1>4 DEF Inv, IInv, StateInv
  <2>2. FunctionCall(pending[d][f.id]) \in Frames  BY <2>1, ChangeCalls
  <2>3. Called(t, g, FunctionCall(pending[d][f.id]))
    BY <1>1, <1>3, <1>4, <2>2, GotoCalled
  <2>q. QED  BY <1>1, <1>2, <1>3, <1>4, <2>1, <2>3 DEF Runs, f, d
<1>5. CASE f.id \notin DOMAIN pending[d]
  <2>1. Went(t, g)  BY <1>1, <1>3, <1>5, GotoWent
  <2>q. QED  BY <1>1, <1>2, <1>3, <1>5, <2>1 DEF f, d
<1>q. QED  BY <1>4, <1>5

LEMMA PerformReturnEffect ==
  ASSUME Inv, NEW t \in Threads, PerformReturn(t)
  PROVE  LET d == Top(t).device
             id == Top(t).id
         IN
         /\ ~Idle(t) /\ Top(t).op = "perform" /\ Top(t).at = "return" /\ t = Hal
         /\ Depth(t) = 1 /\ Returned(t) /\ Erase(d, id)
         /\ inside' = [inside EXCEPT ![d] = @ - 1]
         /\ host' = host /\ listed' = listed /\ owned' = owned /\ moves' = moves
         /\ nextID' = nextID /\ queue' = queue
         /\ asked' = asked /\ applied' = applied /\ aborted' = aborted
<1>1. ~Idle(t) /\ Top(t).op = "perform" /\ Top(t).at = "return" /\ Return(t)
  BY DEF PerformReturn, At
<1>2. t = Hal /\ Depth(t) = 1 /\ Returned(t)  BY <1>1, TopFacts, ReturnReturned
<1>q. QED  BY <1>1, <1>2 DEF PerformReturn, history

LEMMA AddEnterEffect ==
  ASSUME Inv, NEW t \in Threads, AddEnter(t)
  PROVE  LET d == Top(t).device IN
         /\ ~Idle(t) /\ Top(t).op = "add" /\ Top(t).at = "enter" /\ t # Hal
         /\ Depth(t) = 1 /\ CanLockPlugin(t) /\ d \in Devices
         /\ \/ Returned(t) /\ listed' = listed
            \/ /\ \E g \in Frames : Moved(Top(t), g, "listed") /\ Went(t, g)
               /\ listed' = listed \union {d}
         /\ host' = host /\ owned' = owned /\ moves' = moves
         /\ pending' = pending /\ nextID' = nextID /\ inside' = inside /\ queue' = queue
         /\ asked' = asked /\ applied' = applied /\ aborted' = aborted
<1> DEFINE f == Top(t)
           g == [f EXCEPT !.at = "listed"]
<1>1. /\ ~Idle(t) /\ f.op = "add" /\ f.at = "enter" /\ CanLockPlugin(t)
      /\ IF f.device \in owned
         THEN Return(t) /\ UNCHANGED listed
         ELSE Goto(t, g) /\ listed' = listed \union {f.device}
      /\ UNCHANGED <<host, owned, device, queue, moves, history>>
  BY DEF AddEnter, At
<1>2. f \in Frames /\ t # Hal /\ Depth(t) = 1 /\ f.device \in Devices
  BY <1>1, TopFacts
<1>3. g \in Frames /\ Moved(f, g, "listed")  BY <1>2, AtFields DEF Moved, Ats
<1>4. Return(t) => Returned(t)  BY <1>1, ReturnReturned
<1> HIDE DEF f, g
<1>5. Goto(t, g) => Went(t, g)  BY <1>1, <1>3, GotoWent
<1>q. QED  BY <1>1, <1>2, <1>3, <1>4, <1>5 DEF device, history, f

LEMMA AddAttachEffect ==
  ASSUME Inv, NEW t \in Threads, AddAttach(t)
  PROVE  LET d == Top(t).device IN
         /\ ~Idle(t) /\ Top(t).op = "add" /\ Top(t).at = "listed" /\ t # Hal
         /\ Depth(t) = 1 /\ CanLockDevice(t, d) /\ d \in Devices
         /\ Returned(t) /\ owned' = owned \union {d}
         /\ host' = host /\ listed' = listed /\ moves' = moves
         /\ pending' = pending /\ nextID' = nextID /\ inside' = inside /\ queue' = queue
         /\ asked' = asked /\ applied' = applied /\ aborted' = aborted
<1>1. ~Idle(t) /\ Top(t).op = "add" /\ Top(t).at = "listed" /\ Return(t)
  BY DEF AddAttach, At
<1>2. t # Hal /\ Depth(t) = 1 /\ Top(t).device \in Devices /\ Returned(t)
  BY <1>1, TopFacts, ReturnReturned
<1>q. QED  BY <1>1, <1>2 DEF AddAttach, device, history

LEMMA RemoveEnterEffect ==
  ASSUME Inv, NEW t \in Threads, RemoveEnter(t)
  PROVE  LET d == Top(t).device IN
         /\ ~Idle(t) /\ Top(t).op = "remove" /\ Top(t).at = "enter" /\ t # Hal
         /\ Depth(t) = 1 /\ CanLockPlugin(t) /\ d \in Devices
         /\ \/ Returned(t) /\ listed' = listed
            \/ /\ \E g \in Frames : Moved(Top(t), g, "unlisted") /\ Went(t, g)
               /\ listed' = listed \ {d}
         /\ host' = host /\ owned' = owned /\ moves' = moves
         /\ pending' = pending /\ nextID' = nextID /\ inside' = inside /\ queue' = queue
         /\ asked' = asked /\ applied' = applied /\ aborted' = aborted
<1> DEFINE f == Top(t)
           g == [f EXCEPT !.at = "unlisted"]
<1>1. /\ ~Idle(t) /\ f.op = "remove" /\ f.at = "enter" /\ CanLockPlugin(t)
      /\ IF f.device \notin owned
         THEN Return(t) /\ UNCHANGED listed
         ELSE Goto(t, g) /\ listed' = listed \ {f.device}
      /\ UNCHANGED <<host, owned, device, queue, moves, history>>
  BY DEF RemoveEnter, At
<1>2. f \in Frames /\ t # Hal /\ Depth(t) = 1 /\ f.device \in Devices
  BY <1>1, TopFacts
<1>3. g \in Frames /\ Moved(f, g, "unlisted")  BY <1>2, AtFields DEF Moved, Ats
<1>4. Return(t) => Returned(t)  BY <1>1, ReturnReturned
<1> HIDE DEF f, g
<1>5. Goto(t, g) => Went(t, g)  BY <1>1, <1>3, GotoWent
<1>q. QED  BY <1>1, <1>2, <1>3, <1>4, <1>5 DEF device, history, f

LEMMA RemoveDetachEffect ==
  ASSUME Inv, NEW t \in Threads, RemoveDetach(t)
  PROVE  LET d == Top(t).device IN
         /\ ~Idle(t) /\ Top(t).op = "remove" /\ Top(t).at = "unlisted" /\ t # Hal
         /\ Depth(t) = 1 /\ CanLockDevice(t, d) /\ d \in Devices
         /\ \E g \in Frames : Moved(Top(t), g, "flush") /\ Went(t, g)
         /\ owned' = owned \ {d}
         /\ host' = host /\ listed' = listed /\ moves' = moves
         /\ pending' = pending /\ nextID' = nextID /\ inside' = inside /\ queue' = queue
         /\ asked' = asked /\ applied' = applied /\ aborted' = aborted
<1> DEFINE f == Top(t)
           g == [f EXCEPT !.at = "flush"]
<1>1. /\ ~Idle(t) /\ f.op = "remove" /\ f.at = "unlisted" /\ CanLockDevice(t, f.device)
      /\ Goto(t, g) /\ owned' = owned \ {f.device}
      /\ UNCHANGED <<host, listed, device, queue, moves, history>>
  BY DEF RemoveDetach, At
<1>2. f \in Frames /\ t # Hal /\ Depth(t) = 1 /\ f.device \in Devices
  BY <1>1, TopFacts
<1>3. g \in Frames /\ Moved(f, g, "flush")  BY <1>2, AtFields DEF Moved, Ats
<1> HIDE DEF f, g
<1>4. Went(t, g)  BY <1>1, <1>3, GotoWent
<1>q. QED  BY <1>1, <1>2, <1>3, <1>4 DEF device, history, f

(* What is stored, and the first of it.                                    *)
LEMMA EmptyMap ==
  ASSUME NEW S, NEW f \in [{} -> S]
  PROVE  f = <<>>
<1>1. /\ <<>> \in Seq(S) /\ Len(<<>>) = 0
      /\ <<>> \in [1 .. Len(<<>>) -> S]
  BY EmptySeq, LenProperties, SeqDef
<1>2. <<>> \in [{} -> S]  BY <1>1
<1>q. QED  BY <1>2

LEMMA FirstPendingFacts ==
  ASSUME Inv, NEW d \in Devices, pending[d] # <<>>
  PROVE  /\ FirstPending(d) \in DOMAIN pending[d] /\ FirstPending(d) \in Nat
         /\ \A x \in DOMAIN pending[d] : FirstPending(d) <= x
<1>1. /\ pending[d] \in [DOMAIN pending[d] -> Changes] /\ nextID[d] \in Nat
      /\ DOMAIN pending[d] \subseteq 0 .. nextID[d] - 1
  BY DEF Inv, IInv, StateInv
<1>2. DOMAIN pending[d] # {}
  <2>1. DOMAIN pending[d] = {} => pending[d] \in [{} -> Changes]  BY <1>1
  <2>q. QED  BY <2>1, EmptyMap
<1>3. DOMAIN pending[d] \subseteq Nat  BY <1>1
<1>4. PICK x \in DOMAIN pending[d] :
        \A y \in DOMAIN pending[d] : ~(<<y, x>> \in OpToRel(<, Nat))
  BY <1>2, <1>3, NatLessThanWellFounded, WFMin, Zenon
<1>5. ASSUME NEW y \in DOMAIN pending[d]  PROVE x <= y
  <2>1. x \in Nat /\ y \in Nat /\ ~(<<y, x>> \in OpToRel(<, Nat))  BY <1>3, <1>4
  <2>2. y < x => <<y, x>> \in {ss \in Nat \X Nat : ss[1] < ss[2]}  BY <2>1
  <2>3. ~(y < x)  BY <2>1, <2>2 DEF OpToRel
  <2>4. x \in Nat /\ y \in Nat  BY <1>3
  <2>q. QED  BY <2>3, <2>4
<1>q. QED  BY <1>3, <1>5 DEF FirstPending

LEMMA RemoveFlushEffect ==
  ASSUME Inv, NEW t \in Threads, RemoveFlush(t)
  PROVE  LET d == Top(t).device
             id == FirstPending(d)
         IN
         /\ ~Idle(t) /\ Top(t).op = "remove" /\ Top(t).at = "flush" /\ t # Hal
         /\ Depth(t) = 1 /\ d \in Devices
         /\ id \in DOMAIN pending[d] /\ pending[d][id] \in Changes
         /\ \A x \in DOMAIN pending[d] : id <= x
         /\ \E g \in Frames :
              /\ Moved(Top(t), g, "flushing") /\ g.id = id
              /\ Called(t, g, FunctionCall(pending[d][id]))
         /\ applied' = Append(applied, pending[d][id])
         /\ host' = host /\ listed' = listed /\ owned' = owned /\ moves' = moves
         /\ pending' = pending /\ nextID' = nextID /\ inside' = inside /\ queue' = queue
         /\ asked' = asked /\ aborted' = aborted
<1> DEFINE f == Top(t)
           d == f.device
           id == FirstPending(d)
           g == [f EXCEPT !.at = "flushing", !.id = id]
<1>1. /\ ~Idle(t) /\ f.op = "remove" /\ f.at = "flush" /\ pending[d] # <<>>
      /\ GotoAndCall(t, g, FunctionCall(pending[d][id]))
      /\ applied' = Append(applied, pending[d][id])
      /\ UNCHANGED <<host, listed, owned, device, queue, moves, asked, aborted>>
  BY DEF RemoveFlush, At, Runs
<1>2. f \in Frames /\ t # Hal /\ Depth(t) = 1 /\ d \in Devices
  BY <1>1, TopFacts
<1> HIDE DEF d, id
<1>3. id \in DOMAIN pending[d] /\ id \in Nat /\ \A x \in DOMAIN pending[d] : id <= x
  BY <1>1, <1>2, FirstPendingFacts DEF id
<1>4. pending[d][id] \in Changes  BY <1>2, <1>3 DEF Inv, IInv, StateInv
<1>5. g \in Frames /\ Moved(f, g, "flushing") /\ g.id = id
  <2>1. PICK x : x = f  OBVIOUS
  <2>2. PICK n \in Nat : n = id  BY <1>3
  <2>3. PICK y : y = [x EXCEPT !.at = "flushing", !.id = n]  OBVIOUS
  <2>4. x \in Frames  BY <1>2, <2>1
  <2>5. y \in Frames /\ Moved(x, y, "flushing") /\ y.id = n  BY <2>3, <2>4 DEF Frames, Moved
  <2>6. y = g  BY <2>1, <2>2, <2>3
  <2>q. QED  BY <2>1, <2>2, <2>5, <2>6
<1>6. FunctionCall(pending[d][id]) \in Frames  BY <1>4, ChangeCalls
<1> HIDE DEF f, g
<1>7. Called(t, g, FunctionCall(pending[d][id]))  BY <1>1, <1>5, <1>6, GotoCalled DEF f
<1>q. QED  BY <1>1, <1>2, <1>3, <1>4, <1>5, <1>7 DEF device, f, d, id

LEMMA RemoveEraseEffect ==
  ASSUME Inv, NEW t \in Threads, RemoveErase(t)
  PROVE  LET d == Top(t).device
             id == Top(t).id
         IN
         /\ ~Idle(t) /\ Top(t).op = "remove" /\ Top(t).at = "flushing" /\ t # Hal
         /\ Depth(t) = 1 /\ d \in Devices /\ Erase(d, id)
         /\ \E g \in Frames : Moved(Top(t), g, "flush") /\ Went(t, g)
         /\ host' = host /\ listed' = listed /\ owned' = owned /\ moves' = moves
         /\ nextID' = nextID /\ inside' = inside /\ queue' = queue
         /\ asked' = asked /\ applied' = applied /\ aborted' = aborted
<1> DEFINE f == Top(t)
           g == [f EXCEPT !.at = "flush"]
<1>1. /\ ~Idle(t) /\ f.op = "remove" /\ f.at = "flushing" /\ Erase(f.device, f.id)
      /\ Goto(t, g)
      /\ UNCHANGED <<host, listed, owned, nextID, inside, queue, moves, history>>
  BY DEF RemoveErase, At
<1>2. f \in Frames /\ t # Hal /\ Depth(t) = 1 /\ f.device \in Devices
  BY <1>1, TopFacts
<1>3. g \in Frames /\ Moved(f, g, "flush")  BY <1>2, AtFields DEF Moved, Ats
<1> HIDE DEF f, g
<1>4. Went(t, g)  BY <1>1, <1>3, GotoWent
<1>q. QED  BY <1>1, <1>2, <1>3, <1>4 DEF history, f

LEMMA RemoveReturnEffect ==
  ASSUME Inv, NEW t \in Threads, RemoveReturn(t)
  PROVE  LET d == Top(t).device IN
         /\ ~Idle(t) /\ Top(t).op = "remove" /\ Top(t).at = "flush" /\ t # Hal
         /\ Depth(t) = 1 /\ d \in Devices /\ DOMAIN pending[d] = {} /\ Returned(t)
         /\ host' = host /\ listed' = listed /\ owned' = owned /\ moves' = moves
         /\ pending' = pending /\ nextID' = nextID /\ inside' = inside /\ queue' = queue
         /\ asked' = asked /\ applied' = applied /\ aborted' = aborted
<1>1. /\ ~Idle(t) /\ Top(t).op = "remove" /\ Top(t).at = "flush" /\ Return(t)
      /\ pending[Top(t).device] = <<>>
  BY DEF RemoveReturn, At
<1>2. t # Hal /\ Depth(t) = 1 /\ Top(t).device \in Devices /\ Returned(t)
  BY <1>1, TopFacts, ReturnReturned
<1>3. DOMAIN <<>> = {}
  <2>1. <<>> \in Seq({}) /\ Len(<<>>) = 0 /\ DOMAIN <<>> = 1 .. Len(<<>>)
    BY EmptySeq, LenProperties
  <2>q. QED  BY <2>1
<1>q. QED  BY <1>1, <1>2, <1>3 DEF RemoveReturn, device, history

LEMMA UserRequestsEffect ==
  ASSUME Inv, NEW t \in Users, NEW c \in Changes, UserRequests(t, c)
  PROVE  /\ t \in Threads /\ t # Hal /\ c \notin Nested /\ Began(t, RequestCall(c))
         /\ \A u \in Threads : \A p \in 1 .. Depth(u) : Frame(u, p).change # c
         /\ c \notin ToSet(asked)
         /\ host' = host /\ listed' = listed /\ owned' = owned /\ moves' = moves
         /\ pending' = pending /\ nextID' = nextID /\ inside' = inside /\ queue' = queue
         /\ asked' = asked /\ applied' = applied /\ aborted' = aborted
<1>1. t \in Threads /\ t # Hal  BY ConfigAssumption DEF Threads
<1>2. RequestCall(c) \in Frames /\ Begin(t, RequestCall(c))
  BY ChangeCalls DEF UserRequests
<1>3. Began(t, RequestCall(c))  BY <1>1, <1>2, BeginBegan
<1>4. ASSUME NEW u \in Threads, NEW p \in 1 .. Depth(u)  PROVE Frame(u, p).change # c
  <2>1. stack[u] \in Seq(Frames)  BY DEF Inv, IInv, StateInv
  <2>2. Depth(u) + 1 - p \in DOMAIN stack[u]  BY <2>1, FromTheEnd DEF Depth
  <2>q. QED  BY <2>2 DEF UserRequests, Frame
<1>5. c \notin ToSet(asked)  BY DEF UserRequests, Contains, ToSet
<1>q. QED  BY <1>1, <1>3, <1>4, <1>5 DEF UserRequests, device, history

LEMMA UserMovesEffect ==
  ASSUME Inv, NEW t \in Users, NEW d \in Devices, UserMoves(t, d)
  PROVE  /\ t \in Threads /\ t # Hal
         /\ \E g \in Frames :
              /\ g.op \in {"add", "remove"} /\ g.device = d /\ g.at = "enter"
              /\ Began(t, g)
         /\ host' = host /\ listed' = listed /\ owned' = owned
         /\ pending' = pending /\ nextID' = nextID /\ inside' = inside /\ queue' = queue
         /\ asked' = asked /\ applied' = applied /\ aborted' = aborted
<1>1. t \in Threads /\ t # Hal  BY ConfigAssumption DEF Threads
<1>2. PICK g \in {AddCall(d), RemoveCall(d)} : Begin(t, g)  BY DEF UserMoves
<1>3. g \in Frames /\ g.op \in {"add", "remove"} /\ g.device = d /\ g.at = "enter"
  BY <1>2, DeviceCalls
<1>4. Began(t, g)  BY <1>1, <1>2, <1>3, BeginBegan
<1>q. QED  BY <1>1, <1>3, <1>4 DEF UserMoves, device, history

LEMMA HalPerformsEffect ==
  ASSUME Inv, NEW d \in Devices, HalPerforms(d)
  PROVE  /\ Hal \in Threads /\ queue[d] # <<>> /\ queue[d] \in Seq(Nat)
         /\ \E g \in Frames :
              /\ g.op = "perform" /\ g.device = d /\ g.at = "enter"
              /\ g.id = Head(queue[d]) /\ Began(Hal, g)
         /\ queue' = [queue EXCEPT ![d] = Tail(@)]
         /\ host' = host /\ listed' = listed /\ owned' = owned /\ moves' = moves
         /\ pending' = pending /\ nextID' = nextID /\ inside' = inside
         /\ asked' = asked /\ applied' = applied /\ aborted' = aborted
<1>1. Hal \in Threads /\ queue[d] # <<>> /\ queue[d] \in Seq(Nat)
  BY DEF Threads, HalPerforms, Inv, IInv, StateInv
<1>2. Head(queue[d]) \in Nat  BY <1>1, HeadTailProperties
<1> DEFINE g == PerformCall(d, Head(queue[d]))
<1>3. /\ g \in Frames /\ g.op = "perform" /\ g.device = d /\ g.at = "enter"
      /\ g.id = Head(queue[d])
  BY <1>2, PerformCallFacts
<1>4. Begin(Hal, g)  BY DEF HalPerforms
<1> HIDE DEF g
<1>5. Began(Hal, g)  BY <1>1, <1>3, <1>4, BeginBegan
<1>q. QED  BY <1>1, <1>3, <1>5 DEF HalPerforms, device, history

LEMMA HalAbortsEffect ==
  ASSUME Inv, NEW d \in Devices, HalAborts(d)
  PROVE  LET id == Head(queue[d]) IN
         /\ Hal \in Threads /\ queue[d] # <<>> /\ queue[d] \in Seq(Nat) /\ Idle(Hal)
         /\ CanLockDevice(Hal, d) /\ Erase(d, id) /\ stack' = stack
         /\ aborted' = aborted \union
                         (IF id \in DOMAIN pending[d] THEN {pending[d][id]} ELSE {})
         /\ queue' = [queue EXCEPT ![d] = Tail(@)]
         /\ host' = host /\ listed' = listed /\ owned' = owned /\ moves' = moves
         /\ nextID' = nextID /\ inside' = inside /\ asked' = asked /\ applied' = applied
BY DEF Threads, HalAborts, AbortConfigurationChange, Stored, Inv, IInv, StateInv

LEMMA HalForgetsEffect ==
  ASSUME Inv, NEW d \in Devices, HalForgets(d)
  PROVE  /\ Hal \in Threads /\ queue[d] # <<>> /\ queue[d] \in Seq(Nat) /\ d \notin owned
         /\ queue' = [queue EXCEPT ![d] = Tail(@)] /\ stack' = stack
         /\ host' = host /\ listed' = listed /\ owned' = owned /\ moves' = moves
         /\ pending' = pending /\ nextID' = nextID /\ inside' = inside
         /\ asked' = asked /\ applied' = applied /\ aborted' = aborted
BY DEF HalForgets, Threads, device, history, Inv, IInv, StateInv

LEMMA HalConnectsEffect ==
  ASSUME HalConnects
  PROVE  /\ \A t \in Threads : Idle(t)
         /\ host' = TRUE /\ stack' = stack /\ listed' = listed /\ owned' = owned /\ moves' = moves
         /\ pending' = pending /\ nextID' = nextID /\ inside' = inside /\ queue' = queue
         /\ asked' = asked /\ applied' = applied /\ aborted' = aborted
BY DEF HalConnects, device, history

-----------------------------------------------------------------------------
(* Maps and sequences.                                                     *)

LEMMA AppendedSet ==
  ASSUME NEW S, NEW s \in Seq(S), NEW x \in S
  PROVE  ToSet(Append(s, x)) = ToSet(s) \union {x}
<1>1. PICK r : r = Append(s, x)  OBVIOUS
<1>2. /\ Len(s) \in Nat /\ DOMAIN s = 1 .. Len(s) /\ DOMAIN r = 1 .. Len(s) + 1
      /\ \A i \in 1 .. Len(s) : r[i] = s[i]
      /\ \A i : i = Len(s) + 1 => r[i] = x
  BY <1>1, AppendProperties, LenProperties
<1>3. /\ \A i \in 1 .. Len(s) : i # Len(s) + 1 /\ i \in 1 .. Len(s) + 1
      /\ \A i \in 1 .. Len(s) + 1 : i \in 1 .. Len(s) \/ i = Len(s) + 1
  BY <1>2
<1>4. ASSUME NEW y \in ToSet(r)  PROVE y \in ToSet(s) \union {x}
  <2>1. PICK i \in 1 .. Len(s) + 1 : y = r[i]  BY <1>2 DEF ToSet
  <2>q. QED  BY <1>2, <1>3, <2>1 DEF ToSet
<1>5. ASSUME NEW y \in ToSet(s) \union {x}  PROVE y \in ToSet(r)
  <2>1. CASE y \in ToSet(s)
    <3>1. PICK i \in 1 .. Len(s) : y = s[i]  BY <1>2, <2>1 DEF ToSet
    <3>q. QED  BY <1>2, <1>3, <3>1 DEF ToSet
  <2>2. CASE y = x
    <3>1. Len(s) + 1 \in 1 .. Len(s) + 1  BY <1>2
    <3>q. QED  BY <1>2, <2>2, <3>1 DEF ToSet
  <2>q. QED  BY <2>1, <2>2
<1>q. QED  BY <1>1, <1>4, <1>5

LEMMA Appended ==
  ASSUME NEW S, NEW s \in Seq(S), NEW x \in S, NEW r, r = Append(s, x)
  PROVE  /\ r \in Seq(S) /\ Len(s) \in Nat /\ Len(r) = Len(s) + 1
         /\ DOMAIN s = 1 .. Len(s) /\ DOMAIN r = 1 .. Len(s) + 1
         /\ \A i \in 1 .. Len(s) : r[i] = s[i] /\ i # Len(s) + 1
         /\ \A i : i = Len(s) + 1 => r[i] = x
         /\ ToSet(r) = ToSet(s) \union {x}
<1>1. /\ r \in Seq(S) /\ Len(s) \in Nat /\ Len(r) = Len(s) + 1
      /\ DOMAIN s = 1 .. Len(s) /\ DOMAIN r = 1 .. Len(s) + 1
      /\ \A i \in 1 .. Len(s) : r[i] = s[i]
      /\ \A i : i = Len(s) + 1 => r[i] = x
  BY AppendProperties, LenProperties
<1>2. \A i \in 1 .. Len(s) : i # Len(s) + 1  BY <1>1
<1>3. ToSet(r) = ToSet(s) \union {x}  BY AppendedSet
<1>q. QED  BY <1>1, <1>2, <1>3

LEMMA TailFacts ==
  ASSUME NEW S, NEW s \in Seq(S), s # <<>>
  PROVE  /\ Head(s) = s[1] /\ s[1] \in S /\ 1 \in DOMAIN s
         /\ Tail(s) \in Seq(S)
         /\ \A i \in DOMAIN Tail(s) :
              /\ i \in Nat /\ i + 1 \in DOMAIN s /\ 1 < i + 1 /\ Tail(s)[i] = s[i + 1]
              /\ \A j \in DOMAIN Tail(s) : i < j <=> i + 1 < j + 1
         /\ \A i \in DOMAIN s : i # 1 => i - 1 \in DOMAIN Tail(s) /\ Tail(s)[i - 1] = s[i]
<1>1. /\ Len(s) \in Nat \ {0} /\ DOMAIN s = 1 .. Len(s)
      /\ Head(s) = s[1] /\ Head(s) \in S /\ Tail(s) \in Seq(S) /\ Len(Tail(s)) = Len(s) - 1
      /\ \A i \in 1 .. Len(Tail(s)) : Tail(s)[i] = s[i + 1]
  BY EmptySeq, LenProperties, HeadTailProperties
<1>2. DOMAIN Tail(s) = 1 .. Len(s) - 1  BY <1>1, LenProperties
<1>3. \A i \in 1 .. Len(s) - 1 :
        /\ i \in Nat /\ i + 1 \in 1 .. Len(s) /\ 1 < i + 1
        /\ \A j \in 1 .. Len(s) - 1 : i < j <=> i + 1 < j + 1
  BY <1>1
<1>4. \A i \in 1 .. Len(s) : i # 1 => i - 1 \in 1 .. Len(s) - 1 /\ (i - 1) + 1 = i  BY <1>1
<1>5. 1 \in 1 .. Len(s)  BY <1>1
<1>q. QED  BY <1>1, <1>2, <1>3, <1>4, <1>5

LEMMA EraseFacts ==
  ASSUME Inv, NEW d \in Devices, NEW id, Erase(d, id)
  PROVE  /\ DOMAIN pending' = Devices
         /\ \A e \in Devices \ {d} : pending'[e] = pending[e]
         /\ DOMAIN pending'[d] = DOMAIN pending[d] \ {id}
         /\ \A x \in DOMAIN pending[d] \ {id} :
              pending'[d][x] = pending[d][x] /\ pending[d][x] \in Changes
         /\ pending'[d] \in [DOMAIN pending'[d] -> Changes]
<1>1. DOMAIN pending = Devices /\ pending[d] \in [DOMAIN pending[d] -> Changes]
  BY DEF Inv, IInv, StateInv
<1>2. /\ DOMAIN pending' = Devices /\ \A e \in Devices \ {d} : pending'[e] = pending[e]
      /\ pending'[d] = [x \in DOMAIN pending[d] \ {id} |-> pending[d][x]]
  BY <1>1 DEF Erase
<1>3. \A x \in DOMAIN pending[d] : pending[d][x] \in Changes  BY <1>1
<1>q. QED  BY <1>2, <1>3

LEMMA EnqueueFacts ==
  ASSUME Inv, NEW d \in Devices, NEW c \in Changes, Enqueues(d, c)
  PROVE  /\ DOMAIN pending' = Devices
         /\ \A e \in Devices \ {d} : pending'[e] = pending[e]
         /\ DOMAIN pending'[d] = DOMAIN pending[d] \union {nextID[d]}
         /\ nextID[d] \in Nat /\ nextID[d] \notin DOMAIN pending[d]
         /\ \A x \in DOMAIN pending[d] :
              /\ x \in Nat /\ x < nextID[d]
              /\ pending'[d][x] = pending[d][x] /\ pending[d][x] \in Changes
         /\ \A x : x = nextID[d] => pending'[d][x] = c
         /\ pending'[d] \in [DOMAIN pending'[d] -> Changes]
<1>1. /\ DOMAIN pending = Devices /\ pending[d] \in [DOMAIN pending[d] -> Changes]
      /\ nextID[d] \in Nat /\ DOMAIN pending[d] \subseteq 0 .. nextID[d] - 1
  BY DEF Inv, IInv, StateInv
<1>2. /\ DOMAIN pending' = Devices /\ \A e \in Devices \ {d} : pending'[e] = pending[e]
      /\ pending'[d] = [x \in DOMAIN pending[d] \union {nextID[d]} |->
                         IF x = nextID[d] THEN c ELSE pending[d][x]]
  BY <1>1 DEF Enqueues
<1>3. \A x \in DOMAIN pending[d] : pending[d][x] \in Changes  BY <1>1
<1>4. \A x \in DOMAIN pending[d] : x \in Nat /\ x < nextID[d] /\ x # nextID[d]  BY <1>1
<1>q. QED  BY <1>1, <1>2, <1>3, <1>4

-----------------------------------------------------------------------------
(* StateInv.                                                               *)

LEMMA StateKept ==
  ASSUME Inv, stack' \in [Threads -> Seq(Frames)], host' = host,
         listed' \subseteq Devices, owned' \subseteq Devices,
         pending' = pending, nextID' = nextID, inside' \in [Devices -> Nat],
         queue' \in [Devices -> Seq(Nat)],
         asked' \in Seq(Changes), applied' \in Seq(Changes), aborted' \subseteq Changes
  PROVE  StateInv'
BY DEF Inv, IInv, StateInv

LEMMA StateErased ==
  ASSUME Inv, stack' \in [Threads -> Seq(Frames)], host' = host, listed' = listed,
         owned' = owned, nextID' = nextID, inside' \in [Devices -> Nat],
         queue' \in [Devices -> Seq(Nat)], NEW d \in Devices, NEW id, Erase(d, id),
         asked' = asked, applied' = applied, aborted' \subseteq Changes
  PROVE  StateInv'
<1>1. /\ DOMAIN pending' = Devices
      /\ \A e \in Devices : /\ pending'[e] \in [DOMAIN pending'[e] -> Changes]
                            /\ DOMAIN pending'[e] \subseteq 0 .. nextID'[e] - 1
  <2>1. ASSUME NEW e \in Devices
        PROVE  /\ pending'[e] \in [DOMAIN pending'[e] -> Changes]
               /\ DOMAIN pending'[e] \subseteq DOMAIN pending[e]
    BY EraseFacts DEF Inv, IInv, StateInv
  <2>2. \A e \in Devices : DOMAIN pending[e] \subseteq 0 .. nextID'[e] - 1
    BY DEF Inv, IInv, StateInv
  <2>q. QED  BY <2>1, <2>2, EraseFacts
<1>q. QED  BY <1>1 DEF Inv, IInv, StateInv

LEMMA InPlace ==
  ASSUME NEW t \in Threads, Inv, RequestInPlace(t)
  PROVE  /\ stack' \in [Threads -> Seq(Frames)] /\ Others(t)
         /\ applied' = Append(applied, Top(t).change) /\ Top(t).change \in Changes
BY RequestInPlaceEffect DEF Called

LEMMA StateStep ==
  ASSUME Inv, Next
  PROVE  StateInv'
<1>0. /\ stack \in [Threads -> Seq(Frames)] /\ listed \subseteq Devices /\ owned \subseteq Devices
      /\ inside \in [Devices -> Nat] /\ queue \in [Devices -> Seq(Nat)]
      /\ nextID \in [Devices -> Nat] /\ host \in BOOLEAN
      /\ asked \in Seq(Changes) /\ applied \in Seq(Changes) /\ aborted \subseteq Changes
  BY DEF Inv, IInv, StateInv
<1>1. ASSUME NEW t \in Threads, RunStep(t)  PROVE StateInv'
  <2>1. stack' \in [Threads -> Seq(Frames)]  BY <1>1, RunStepEffect DEF Called, Returned
  <2>q. QED  BY <1>0, <1>1, <2>1, RunStepEffect, StateKept
<1>2. ASSUME NEW t \in Threads, RequestEnter(t)  PROVE StateInv'
  <2>1. stack' \in [Threads -> Seq(Frames)]  BY <1>2, RequestEnterEffect DEF Went
  <2>2. asked' = Append(asked, Top(t).change) /\ Top(t).change \in Changes
    BY <1>2, RequestEnterEffect, TopFacts
  <2>3. asked' \in Seq(Changes)  BY <1>0, <2>2, Appended
  <2>q. QED  BY <1>0, <1>2, <2>1, <2>3, RequestEnterEffect, StateKept
<1>3. ASSUME NEW t \in Threads, RequestEnqueue(t)  PROVE StateInv'
  <2> DEFINE d == Top(t).device
  <2>1. stack' \in [Threads -> Seq(Frames)]  BY <1>3, RequestEnqueueEffect DEF Returned
  <2>2. d \in Devices /\ Top(t).change \in Changes  BY <1>3, RequestEnqueueEffect, TopFacts
  <2>3. /\ nextID' = [nextID EXCEPT ![d] = @ + 1]
        /\ queue' = [queue EXCEPT ![d] = Append(@, nextID[d])]
        /\ host' = host /\ listed' = listed /\ owned' = owned
        /\ inside' = inside /\ asked' = asked /\ applied' = applied /\ aborted' = aborted
        /\ Enqueues(d, Top(t).change)
    BY <1>3, RequestEnqueueEffect
  <2> HIDE DEF d
  <2>4. /\ DOMAIN pending' = Devices
        /\ \A e \in Devices \ {d} : pending'[e] = pending[e]
        /\ DOMAIN pending'[d] = DOMAIN pending[d] \union {nextID[d]}
        /\ pending'[d] \in [DOMAIN pending'[d] -> Changes]
    BY <2>2, <2>3, EnqueueFacts
  <2>5. nextID' \in [Devices -> Nat] /\ queue' \in [Devices -> Seq(Nat)]
    <3>1. nextID[d] \in Nat /\ queue[d] \in Seq(Nat)  BY <1>0, <2>2
    <3>2. Append(queue[d], nextID[d]) \in Seq(Nat)  BY <3>1, AppendProperties
    <3>q. QED  BY <1>0, <2>2, <2>3, <3>1, <3>2
  <2>6. \A e \in Devices : /\ pending'[e] \in [DOMAIN pending'[e] -> Changes]
                           /\ DOMAIN pending'[e] \subseteq 0 .. nextID'[e] - 1
    <3>1. ASSUME NEW e \in Devices, e # d
          PROVE  /\ pending'[e] \in [DOMAIN pending'[e] -> Changes]
                 /\ DOMAIN pending'[e] \subseteq 0 .. nextID'[e] - 1
      BY <1>0, <2>2, <2>3, <2>4, <3>1 DEF Inv, IInv, StateInv
    <3>2. DOMAIN pending'[d] \subseteq 0 .. nextID'[d] - 1
      <4>1. DOMAIN pending[d] \subseteq 0 .. nextID[d] - 1 /\ nextID[d] \in Nat
        BY <1>0, <2>2 DEF Inv, IInv, StateInv
      <4>2. nextID'[d] = nextID[d] + 1  BY <1>0, <2>2, <2>3
      <4>q. QED  BY <2>4, <4>1, <4>2
    <3>q. QED  BY <2>4, <3>1, <3>2
  <2>q. QED  BY <1>0, <2>1, <2>3, <2>4, <2>5, <2>6 DEF StateInv
<1>4. ASSUME NEW t \in Threads, RequestInPlace(t)  PROVE StateInv'
  <2>1. applied' \in Seq(Changes)
    <3>1. applied \in Seq(Changes) /\ Top(t).change \in Changes
      BY <1>0, <1>4, InPlace
    <3>2. Append(applied, Top(t).change) \in Seq(Changes)  BY <3>1, AppendProperties
    <3>q. QED  BY <1>4, <3>2, InPlace
  <2>q. QED  BY <1>0, <1>4, <2>1, InPlace, RequestInPlaceEffect, StateKept
<1>5. ASSUME NEW t \in Threads, RequestReturn(t)  PROVE StateInv'
  <2>1. stack' \in [Threads -> Seq(Frames)]  BY <1>5, RequestReturnEffect DEF Returned
  <2>q. QED  BY <1>0, <1>5, <2>1, RequestReturnEffect, StateKept
<1>6. ASSUME NEW t \in Threads, PerformEnter(t)  PROVE StateInv'
  <2>1. stack' \in [Threads -> Seq(Frames)]
    BY <1>6, PerformEnterEffect DEF Called, Went
  <2>2. applied' \in Seq(Changes)
    <3>1. \/ applied' = applied
          \/ \E c \in Changes : applied' = Append(applied, c)
      BY <1>6, PerformEnterEffect
    <3>2. \A c \in Changes : Append(applied, c) \in Seq(Changes)
      BY <1>0, AppendProperties
    <3>q. QED  BY <1>0, <3>1, <3>2
  <2>3. inside' \in [Devices -> Nat]
    <3>1. inside' = [inside EXCEPT ![Top(t).device] = @ + 1] /\ Top(t).device \in Devices
      BY <1>6, PerformEnterEffect, TopFacts
    <3>q. QED  BY <1>0, <3>1
  <2>q. QED  BY <1>0, <1>6, <2>1, <2>2, <2>3, PerformEnterEffect, StateKept
<1>7. ASSUME NEW t \in Threads, PerformReturn(t)  PROVE StateInv'
  <2>1. stack' \in [Threads -> Seq(Frames)]  BY <1>7, PerformReturnEffect DEF Returned
  <2>2. /\ inside' = [inside EXCEPT ![Top(t).device] = @ - 1] /\ Top(t).device \in Devices
        /\ Erase(Top(t).device, Top(t).id)
    BY <1>7, PerformReturnEffect, TopFacts
  <2>3. inside[Top(t).device] = 1
    BY <1>7, <2>2, PerformReturnEffect, TopFacts DEF Inv, IInv, OwnerInv, Performs
  <2>4. inside' \in [Devices -> Nat]  BY <1>0, <2>2, <2>3
  <2>q. QED  BY <1>0, <1>7, <2>1, <2>2, <2>4, PerformReturnEffect, StateErased
<1>8. ASSUME NEW t \in Threads, AddEnter(t)  PROVE StateInv'
  <2>1. stack' \in [Threads -> Seq(Frames)] /\ listed' \subseteq Devices
    BY <1>0, <1>8, AddEnterEffect DEF Returned, Went
  <2>q. QED  BY <1>0, <1>8, <2>1, AddEnterEffect, StateKept
<1>9. ASSUME NEW t \in Threads, AddAttach(t)  PROVE StateInv'
  <2>1. stack' \in [Threads -> Seq(Frames)] /\ owned' \subseteq Devices
    BY <1>0, <1>9, AddAttachEffect DEF Returned, Went
  <2>q. QED  BY <1>0, <1>9, <2>1, AddAttachEffect, StateKept
<1>10. ASSUME NEW t \in Threads, RemoveEnter(t)  PROVE StateInv'
  <2>1. stack' \in [Threads -> Seq(Frames)] /\ listed' \subseteq Devices
    BY <1>0, <1>10, RemoveEnterEffect DEF Returned, Went
  <2>q. QED  BY <1>0, <1>10, <2>1, RemoveEnterEffect, StateKept
<1>11. ASSUME NEW t \in Threads, RemoveDetach(t)  PROVE StateInv'
  <2>1. stack' \in [Threads -> Seq(Frames)] /\ owned' \subseteq Devices
    BY <1>0, <1>11, RemoveDetachEffect DEF Went
  <2>q. QED  BY <1>0, <1>11, <2>1, RemoveDetachEffect, StateKept
<1>12. ASSUME NEW t \in Threads, RemoveFlush(t)  PROVE StateInv'
  <2>1. stack' \in [Threads -> Seq(Frames)]  BY <1>12, RemoveFlushEffect DEF Called
  <2>2. applied' \in Seq(Changes)
    <3>1. \E c \in Changes : applied' = Append(applied, c)
      BY <1>12, RemoveFlushEffect
    <3>q. QED  BY <1>0, <3>1, AppendProperties
  <2>q. QED  BY <1>0, <1>12, <2>1, <2>2, RemoveFlushEffect, StateKept
<1>13. ASSUME NEW t \in Threads, RemoveErase(t)  PROVE StateInv'
  <2>1. stack' \in [Threads -> Seq(Frames)]  BY <1>13, RemoveEraseEffect DEF Went
  <2>q. QED  BY <1>0, <1>13, <2>1, RemoveEraseEffect, StateErased
<1>14. ASSUME NEW t \in Threads, RemoveReturn(t)  PROVE StateInv'
  <2>1. stack' \in [Threads -> Seq(Frames)]  BY <1>14, RemoveReturnEffect DEF Returned
  <2>q. QED  BY <1>0, <1>14, <2>1, RemoveReturnEffect, StateKept
<1>15. ASSUME NEW t \in Users, NEW c \in Changes, UserRequests(t, c)  PROVE StateInv'
  <2>1. stack' \in [Threads -> Seq(Frames)]  BY <1>15, UserRequestsEffect DEF Began
  <2>q. QED  BY <1>0, <1>15, <2>1, UserRequestsEffect, StateKept
<1>16. ASSUME NEW t \in Users, NEW d \in Devices, UserMoves(t, d)  PROVE StateInv'
  <2>1. stack' \in [Threads -> Seq(Frames)]  BY <1>16, UserMovesEffect DEF Began
  <2>q. QED  BY <1>0, <1>16, <2>1, UserMovesEffect, StateKept
<1>17. ASSUME HalConnects  PROVE StateInv'
  BY <1>17, HalConnectsEffect DEF Inv, IInv, StateInv
<1>18. ASSUME NEW d \in Devices, HalPerforms(d)  PROVE StateInv'
  <2>1. stack' \in [Threads -> Seq(Frames)]  BY <1>18, HalPerformsEffect DEF Began
  <2>2. Tail(queue[d]) \in Seq(Nat)  BY <1>18, HalPerformsEffect, TailFacts
  <2>4. queue' = [queue EXCEPT ![d] = Tail(@)]  BY <1>18, HalPerformsEffect
  <2>3. queue' \in [Devices -> Seq(Nat)]  BY <1>0, <2>2, <2>4
  <2>q. QED  BY <1>0, <1>18, <2>1, <2>3, HalPerformsEffect, StateKept
<1>19. ASSUME NEW d \in Devices, HalAborts(d)  PROVE StateInv'
  <2>1. Tail(queue[d]) \in Seq(Nat)  BY <1>19, HalAbortsEffect, TailFacts
  <2>4. queue' = [queue EXCEPT ![d] = Tail(@)]  BY <1>19, HalAbortsEffect
  <2>2. queue' \in [Devices -> Seq(Nat)]  BY <1>0, <2>1, <2>4
  <2>3. aborted' \subseteq Changes
    <3>1. \A x \in DOMAIN pending[d] : pending[d][x] \in Changes  BY DEF Inv, IInv, StateInv
    <3>2. \/ aborted' = aborted
          \/ /\ Head(queue[d]) \in DOMAIN pending[d]
             /\ aborted' = aborted \union {pending[d][Head(queue[d])]}
      BY <1>19, HalAbortsEffect
    <3>q. QED  BY <1>0, <3>1, <3>2
  <2>q. QED  BY <1>0, <1>19, <2>2, <2>3, HalAbortsEffect, StateErased
<1>20. ASSUME NEW d \in Devices, HalForgets(d)  PROVE StateInv'
  <2>1. Tail(queue[d]) \in Seq(Nat)  BY <1>20, HalForgetsEffect, TailFacts
  <2>2. queue' \in [Devices -> Seq(Nat)]  BY <1>0, <1>20, <2>1, HalForgetsEffect
  <2>q. QED  BY <1>0, <1>20, <2>2, HalForgetsEffect, StateKept
<1>21. ASSUME NEW t \in Threads, Step(t)  PROVE StateInv'
  BY <1>1, <1>2, <1>3, <1>4, <1>5, <1>6, <1>7, <1>8, <1>9, <1>10, <1>11, <1>12, <1>13,
     <1>14, <1>21 DEF Step
<1>q. QED  BY <1>15, <1>16, <1>17, <1>18, <1>19, <1>20, <1>21 DEF Next

-----------------------------------------------------------------------------
(* StackInv.                                                               *)

FrameOK(t, p, f) ==
  /\ f.op \in IF p = 1 THEN Outermost(t) ELSE {"run", "request"}
  /\ f.at \in Places(f.op)
  /\ f.op \in {"run", "request"} => f.change \in Changes /\ f.device = Target[f.change]
  /\ f.op = "run" => f.id \in 1 .. Len(Body[f.change]) + 1
  /\ f.op = "request" => (f.change \in Nested <=> p # 1)

LEMMA StackFrames ==
  StackInv <=> \A t \in Threads : \A p \in 1 .. Depth(t) :
                 FrameOK(t, p, Frame(t, p)) /\ (p < Depth(t) => Waiting(Frame(t, p)))
BY DEF StackInv, FrameOK

LEMMA StackFramesNext ==
  ASSUME \A t \in Threads : \A p \in 1 .. Depth(t)' :
           FrameOK(t, p, Frame(t, p)') /\ (p < Depth(t)' => Waiting(Frame(t, p)'))
  PROVE  StackInv'
BY DEF StackInv, FrameOK

LEMMA StackOthers ==
  ASSUME Inv, NEW t \in Threads, Others(t), NEW u \in Threads, u # t, NEW p \in 1 .. Depth(u)'
  PROVE  FrameOK(u, p, Frame(u, p)') /\ (p < Depth(u)' => Waiting(Frame(u, p)'))
<1>1. Depth(u)' = Depth(u) /\ Frame(u, p)' = Frame(u, p)  BY Unmoved DEF Others
<1>q. QED  BY <1>1, StackFrames DEF Inv, IInv

LEMMA StackWent ==
  ASSUME Inv, NEW t \in Threads, NEW f, Went(t, f), FrameOK(t, Depth(t), f)
  PROVE  StackInv'
<1>1. Depth(t) \in Nat \ {0}  BY StackFacts DEF Went
<1>2. ASSUME NEW p \in 1 .. Depth(t)'
      PROVE  FrameOK(t, p, Frame(t, p)') /\ (p < Depth(t)' => Waiting(Frame(t, p)'))
  <2>1. Depth(t)' = Depth(t) /\ p \in 1 .. Depth(t)
        /\ Frame(t, p)' = IF p = Depth(t) THEN f ELSE Frame(t, p)
    BY DEF Went
  <2>2. CASE p = Depth(t)
    <3>1. ~(p < Depth(t)) /\ Frame(t, p)' = f  BY <1>1, <2>1, <2>2
    <3>q. QED  BY <2>1, <2>2, <3>1
  <2>3. CASE p # Depth(t)  BY <2>1, <2>3, StackFrames DEF Inv, IInv
  <2>q. QED  BY <2>2, <2>3
<1>3. Others(t)  BY DEF Went
<1>q. QED  BY <1>2, <1>3, StackOthers, StackFramesNext

LEMMA StackCalled ==
  ASSUME Inv, NEW t \in Threads, NEW f, NEW c, Called(t, f, c),
         FrameOK(t, Depth(t), f), Waiting(f), FrameOK(t, Depth(t) + 1, c)
  PROVE  StackInv'
<1>1. Depth(t) \in Nat \ {0}  BY StackFacts DEF Called
<1>2. ASSUME NEW p \in 1 .. Depth(t)'
      PROVE  FrameOK(t, p, Frame(t, p)') /\ (p < Depth(t)' => Waiting(Frame(t, p)'))
  <2>1. Depth(t)' = Depth(t) + 1 /\ p \in 1 .. Depth(t) + 1
    BY DEF Called
  <2>2. CASE p = Depth(t) + 1
    <3>1. ~(p < Depth(t) + 1) /\ Frame(t, p)' = c  BY <1>1, <2>1, <2>2 DEF Called
    <3>q. QED  BY <2>1, <2>2, <3>1
  <2>3. CASE p = Depth(t)
    <3>1. Frame(t, p)' = f  BY <1>1, <2>1, <2>3 DEF Called
    <3>q. QED  BY <2>3, <3>1
  <2>4. CASE p # Depth(t) /\ p # Depth(t) + 1
    <3>1. p \in 1 .. Depth(t) /\ p < Depth(t)  BY <1>1, <2>1, <2>4
    <3>2. Frame(t, p)' = Frame(t, p)  BY <2>4, <3>1 DEF Called
    <3>q. QED  BY <3>1, <3>2, StackFrames DEF Inv, IInv
  <2>q. QED  BY <2>2, <2>3, <2>4
<1>3. Others(t)  BY DEF Called
<1>q. QED  BY <1>2, <1>3, StackOthers, StackFramesNext

LEMMA StackReturned ==
  ASSUME Inv, NEW t \in Threads, Returned(t)
  PROVE  StackInv'
<1>1. Depth(t) \in Nat \ {0}  BY StackFacts DEF Returned
<1>2. ASSUME NEW p \in 1 .. Depth(t)'
      PROVE  FrameOK(t, p, Frame(t, p)') /\ (p < Depth(t)' => Waiting(Frame(t, p)'))
  <2>1. Depth(t)' = Depth(t) - 1 /\ p \in 1 .. Depth(t) - 1 /\ p \in 1 .. Depth(t)
        /\ p < Depth(t) /\ Frame(t, p)' = Frame(t, p)
    BY <1>1 DEF Returned
  <2>q. QED  BY <2>1, StackFrames DEF Inv, IInv
<1>3. Others(t)  BY DEF Returned
<1>q. QED  BY <1>2, <1>3, StackOthers, StackFramesNext

LEMMA StackBegan ==
  ASSUME Inv, NEW t \in Threads, NEW c, Began(t, c), FrameOK(t, 1, c)
  PROVE  StackInv'
<1>1. ASSUME NEW p \in 1 .. Depth(t)'
      PROVE  FrameOK(t, p, Frame(t, p)') /\ (p < Depth(t)' => Waiting(Frame(t, p)'))
  <2>1. Depth(t)' = 1 /\ p = 1 /\ ~(p < 1) /\ Frame(t, 1)' = c  BY DEF Began
  <2>q. QED  BY <2>1
<1>2. Others(t)  BY DEF Began
<1>q. QED  BY <1>1, <1>2, StackOthers, StackFramesNext

(* A call that goes on, and one that a function or a request makes.        *)
LEMMA MovedOK ==
  ASSUME Inv, NEW t \in Threads, ~Idle(t), NEW g \in Frames, NEW at,
         Moved(Top(t), g, at), at \in Places(Top(t).op), Top(t).op # "run"
  PROVE  FrameOK(t, Depth(t), g)
<1>1. FrameOK(t, Depth(t), Top(t))  BY StackFacts, StackFrames DEF Inv, IInv
<1>q. QED  BY <1>1 DEF FrameOK, Moved

LEMMA CallOK ==
  ASSUME Inv, NEW t \in Threads, NEW c \in Changes, NEW p \in Nat
  PROVE  /\ p # 1 => FrameOK(t, p, FunctionCall(c))
         /\ p # 1 /\ c \in Nested => FrameOK(t, p, RequestCall(c))
         /\ p = 1 /\ c \notin Nested /\ t # Hal => FrameOK(t, p, RequestCall(c))
<1>1. 1 \in 1 .. Len(Body[c]) + 1  BY BodyFacts
<1>q. QED  BY <1>1, ChangeCalls DEF FrameOK, Places, Outermost

LEMMA StackStep ==
  ASSUME Inv, Next
  PROVE  StackInv'
<1>1. ASSUME NEW t \in Threads, RunStep(t)  PROVE StackInv'
  <2>1. CASE Returned(t)  BY <2>1, StackReturned
  <2>2. CASE ~Returned(t)
    <3>1. PICK c \in Changes, g \in Frames :
                 /\ c \in Nested /\ Top(t).id \in DOMAIN Body[Top(t).change]
                 /\ Moved(Top(t), g, "enter") /\ g.id = Top(t).id + 1
                 /\ Called(t, g, RequestCall(c))
      BY <1>1, <2>2, RunStepEffect
    <3>2. /\ ~Idle(t) /\ Top(t).op = "run" /\ Depth(t) # 1 /\ Depth(t) \in Nat \ {0}
          /\ Top(t).change \in Changes
      BY <1>1, RunStepEffect, TopFacts
    <3>3. Top(t).id + 1 \in 1 .. Len(Body[Top(t).change]) + 1  BY <3>1, <3>2, BodyFacts
    <3>4. FrameOK(t, Depth(t), Top(t))  BY <3>2, StackFacts, StackFrames DEF Inv, IInv
    <3>5. FrameOK(t, Depth(t), g)  BY <3>1, <3>2, <3>3, <3>4 DEF FrameOK, Moved, Places
    <3>6. Waiting(g)  BY <3>1, <3>2 DEF Waiting, Moved
    <3>7. Depth(t) + 1 \in Nat /\ Depth(t) + 1 # 1  BY <3>2
    <3>8. FrameOK(t, Depth(t) + 1, RequestCall(c))  BY <3>1, <3>7, CallOK
    <3>q. QED  BY <3>1, <3>5, <3>6, <3>8, StackCalled
  <2>q. QED  BY <2>1, <2>2
<1>2. ASSUME NEW t \in Threads, NEW at, NEW g \in Frames, Moved(Top(t), g, at), Went(t, g),
             at \in Places(Top(t).op), Top(t).op # "run"
      PROVE  StackInv'
  BY <1>2, MovedOK, StackWent DEF Went
<1>3. ASSUME NEW t \in Threads, NEW at, NEW g \in Frames, NEW c \in Changes,
             Moved(Top(t), g, at), Called(t, g, FunctionCall(c)),
             at \in Places(Top(t).op), Top(t).op # "run", Waiting(g)
      PROVE  StackInv'
  <2>1. Depth(t) \in Nat \ {0} /\ ~Idle(t)  BY <1>3, StackFacts DEF Called
  <2>2. Depth(t) + 1 \in Nat /\ Depth(t) + 1 # 1  BY <2>1
  <2>3. FrameOK(t, Depth(t) + 1, FunctionCall(c))  BY <2>2, CallOK
  <2>q. QED  BY <1>3, <2>1, <2>3, MovedOK, StackCalled
<1>4. ASSUME NEW t \in Threads, RequestEnter(t)  PROVE StackInv'
  BY <1>2, <1>4, RequestEnterEffect DEF Places
<1>5. ASSUME NEW t \in Threads, RequestEnqueue(t) \/ RequestReturn(t)  PROVE StackInv'
  BY <1>5, RequestEnqueueEffect, RequestReturnEffect, StackReturned
<1>6. ASSUME NEW t \in Threads, RequestInPlace(t)  PROVE StackInv'
  <2>1. PICK g \in Frames : Moved(Top(t), g, "return") /\ Called(t, g, FunctionCall(Top(t).change))
    BY <1>6, RequestInPlaceEffect
  <2>2. Top(t).op = "request" /\ Top(t).change \in Changes  BY <1>6, RequestInPlaceEffect
  <2>3. Waiting(g)  BY <2>1, <2>2 DEF Moved, Waiting
  <2>q. QED  BY <1>3, <2>1, <2>2, <2>3 DEF Places
<1>7. ASSUME NEW t \in Threads, PerformEnter(t)  PROVE StackInv'
  <2>1. PICK g \in Frames :
          /\ Moved(Top(t), g, "return")
          /\ (\E c \in Changes : Called(t, g, FunctionCall(c))) \/ Went(t, g)
    BY <1>7, PerformEnterEffect
  <2>2. Top(t).op = "perform"  BY <1>7, PerformEnterEffect
  <2>3. Waiting(g) /\ "return" \in Places(Top(t).op)  BY <2>1, <2>2 DEF Moved, Waiting, Places
  <2>q. QED  BY <1>2, <1>3, <2>1, <2>2, <2>3
<1>8. ASSUME NEW t \in Threads, PerformReturn(t) \/ AddAttach(t) \/ RemoveReturn(t)
      PROVE  StackInv'
  BY <1>8, PerformReturnEffect, AddAttachEffect, RemoveReturnEffect, StackReturned
<1>9. ASSUME NEW t \in Threads, AddEnter(t)  PROVE StackInv'
  BY <1>2, <1>9, AddEnterEffect, StackReturned DEF Places
<1>10. ASSUME NEW t \in Threads, RemoveEnter(t)  PROVE StackInv'
  BY <1>2, <1>10, RemoveEnterEffect, StackReturned DEF Places
<1>11. ASSUME NEW t \in Threads, RemoveDetach(t)  PROVE StackInv'
  BY <1>2, <1>11, RemoveDetachEffect DEF Places
<1>12. ASSUME NEW t \in Threads, RemoveFlush(t)  PROVE StackInv'
  <2>1. PICK g \in Frames, c \in Changes :
          Moved(Top(t), g, "flushing") /\ Called(t, g, FunctionCall(c))
    BY <1>12, RemoveFlushEffect
  <2>2. Top(t).op = "remove"  BY <1>12, RemoveFlushEffect
  <2>3. Waiting(g) /\ "flushing" \in Places(Top(t).op)  BY <2>1, <2>2 DEF Moved, Waiting, Places
  <2>q. QED  BY <1>3, <2>1, <2>2, <2>3
<1>13. ASSUME NEW t \in Threads, RemoveErase(t)  PROVE StackInv'
  BY <1>2, <1>13, RemoveEraseEffect DEF Places
<1>14. ASSUME NEW t \in Users, NEW c \in Changes, UserRequests(t, c)  PROVE StackInv'
  BY <1>14, UserRequestsEffect, CallOK, StackBegan
<1>15. ASSUME NEW t \in Users, NEW d \in Devices, UserMoves(t, d)  PROVE StackInv'
  <2>1. PICK g \in Frames : g.op \in {"add", "remove"} /\ g.at = "enter" /\ Began(t, g)
    BY <1>15, UserMovesEffect
  <2>2. t \in Threads /\ t # Hal  BY <1>15, UserMovesEffect
  <2>3. FrameOK(t, 1, g)  BY <2>1, <2>2 DEF FrameOK, Places, Outermost
  <2>q. QED  BY <2>1, <2>2, <2>3, StackBegan
<1>16. ASSUME stack' = stack  PROVE StackInv'
  BY <1>16 DEF Inv, IInv, StackInv, Depth, Frame
<1>17. ASSUME NEW d \in Devices, HalPerforms(d)  PROVE StackInv'
  <2>1. PICK g \in Frames : g.op = "perform" /\ g.at = "enter" /\ Began(Hal, g)
    BY <1>17, HalPerformsEffect
  <2>2. Hal \in Threads  BY <1>17, HalPerformsEffect
  <2>3. FrameOK(Hal, 1, g)  BY <2>1, <2>2 DEF FrameOK, Places, Outermost
  <2>q. QED  BY <2>1, <2>2, <2>3, StackBegan
<1>18. ASSUME NEW t \in Threads, Step(t)  PROVE StackInv'
  BY <1>1, <1>4, <1>5, <1>6, <1>7, <1>8, <1>9, <1>10, <1>11, <1>12, <1>13, <1>18 DEF Step
<1>q. QED
  BY <1>14, <1>15, <1>16, <1>17, <1>18, HalConnectsEffect, HalAbortsEffect, HalForgetsEffect
     DEF Next

-----------------------------------------------------------------------------
(* ExclusionInv.                                                           *)

LEMMA Locks ==
  ASSUME Inv, NEW t \in Threads
  PROVE  /\ \A p \in 1 .. Depth(t) : /\ \A d : DeviceLock(Frame(t, p), d) => HoldsDevice(t, d)
                                     /\ PluginLock(Frame(t, p)) => HoldsPlugin(t)
         /\ ~Idle(t) => /\ \A d : DeviceLock(Top(t), d) => HoldsDevice(t, d)
                        /\ PluginLock(Top(t)) => HoldsPlugin(t)
BY StackFacts, HoldsFrames

LEMMA LocksWent ==
  ASSUME Inv, NEW t \in Threads, NEW f, Went(t, f)
  PROVE  /\ \A d : HoldsDevice(t, d)' => HoldsDevice(t, d) \/ DeviceLock(f, d)
         /\ HoldsPlugin(t)' => HoldsPlugin(t) \/ PluginLock(f)
<1>1. stack'[t] \in Seq(Frames)  BY DEF Went
<1>2. \A p \in 1 .. Depth(t)' : p \in 1 .. Depth(t) /\ (Frame(t, p)' = f \/ Frame(t, p)' = Frame(t, p))
  BY DEF Went
<1>q. QED  BY <1>1, <1>2, HoldsFramesNext, Locks

LEMMA LocksCalled ==
  ASSUME Inv, NEW t \in Threads, NEW f, NEW c, Called(t, f, c), c.at = "enter"
  PROVE  /\ \A d : HoldsDevice(t, d)' => HoldsDevice(t, d) \/ DeviceLock(f, d)
         /\ HoldsPlugin(t)' => HoldsPlugin(t) \/ PluginLock(f)
<1>1. stack'[t] \in Seq(Frames) /\ Depth(t) \in Nat  BY StackFacts DEF Called
<1>2. ASSUME NEW p \in 1 .. Depth(t)'
      PROVE  \/ Frame(t, p)' = c \/ Frame(t, p)' = f
             \/ p \in 1 .. Depth(t) /\ Frame(t, p)' = Frame(t, p)
  <2>1. p = Depth(t) + 1 \/ p \in 1 .. Depth(t)  BY <1>1 DEF Called
  <2>q. QED  BY <2>1 DEF Called
<1>3. /\ \A d : ~DeviceLock(c, d)
      /\ ~PluginLock(c)
  BY DEF DeviceLock, PluginLock
<1>q. QED  BY <1>1, <1>2, <1>3, HoldsFramesNext, Locks

LEMMA LocksReturned ==
  ASSUME Inv, NEW t \in Threads, Returned(t)
  PROVE  /\ \A d : HoldsDevice(t, d)' => HoldsDevice(t, d)
         /\ HoldsPlugin(t)' => HoldsPlugin(t)
<1>1. stack'[t] \in Seq(Frames) /\ Depth(t) \in Nat  BY StackFacts DEF Returned
<1>2. \A p \in 1 .. Depth(t)' : p \in 1 .. Depth(t) /\ Frame(t, p)' = Frame(t, p)
  BY <1>1 DEF Returned
<1>q. QED  BY <1>1, <1>2, HoldsFramesNext, Locks

LEMMA LocksBegan ==
  ASSUME Inv, NEW t \in Threads, NEW c, Began(t, c), c.at = "enter"
  PROVE  (\A d : ~HoldsDevice(t, d)') /\ ~HoldsPlugin(t)'
<1>1. stack'[t] \in Seq(Frames) /\ Depth(t)' = 1 /\ Frame(t, 1)' = c  BY DEF Began
<1>2. \A p \in 1 .. Depth(t)' : Frame(t, p)' = c  BY <1>1
<1>3. (\A d : ~DeviceLock(c, d)) /\ ~PluginLock(c)  BY DEF DeviceLock, PluginLock
<1>q. QED  BY <1>1, <1>2, <1>3, HoldsFramesNext

LEMMA ExclusionKept ==
  ASSUME Inv, NEW t \in Threads, Others(t),
         \A d \in Devices : HoldsDevice(t, d)' => HoldsDevice(t, d) \/ CanLockDevice(t, d),
         HoldsPlugin(t)' => HoldsPlugin(t) \/ CanLockPlugin(t)
  PROVE  ExclusionInv'
<1>1. \A u \in Threads \ {t} :
        /\ HoldsPlugin(u)' <=> HoldsPlugin(u)
        /\ \A d : HoldsDevice(u, d)' <=> HoldsDevice(u, d)
  BY Unmoved DEF Others
<1>2. ExclusionInv  BY DEF Inv, IInv
<1>3. ASSUME NEW u \in Threads, NEW v \in Threads, HoldsPlugin(u)', HoldsPlugin(v)'  PROVE u = v
  BY <1>1, <1>2, <1>3 DEF ExclusionInv, CanLockPlugin
<1>4. ASSUME NEW u \in Threads, NEW v \in Threads, NEW d \in Devices,
             HoldsDevice(u, d)', HoldsDevice(v, d)'
      PROVE  u = v
  BY <1>1, <1>2, <1>4 DEF ExclusionInv, CanLockDevice
<1>q. QED  BY <1>3, <1>4 DEF ExclusionInv

(* A call that goes on has the mutexes it had, or can lock them.           *)
LEMMA ExclusionMoved ==
  ASSUME Inv, NEW t \in Threads, NEW g, NEW at, Moved(Top(t), g, at),
         Went(t, g) \/ (\E c : c.at = "enter" /\ Called(t, g, c)),
         \A d \in Devices : DeviceLock(g, d) => HoldsDevice(t, d) \/ CanLockDevice(t, d),
         PluginLock(g) => HoldsPlugin(t) \/ CanLockPlugin(t)
  PROVE  ExclusionInv'
<1>1. /\ \A d : HoldsDevice(t, d)' => HoldsDevice(t, d) \/ DeviceLock(g, d)
      /\ HoldsPlugin(t)' => HoldsPlugin(t) \/ PluginLock(g)
  BY LocksWent, LocksCalled
<1>2. Others(t)  BY DEF Went, Called
<1>q. QED  BY <1>1, <1>2, ExclusionKept

LEMMA ExclusionStep ==
  ASSUME Inv, Next
  PROVE  ExclusionInv'
<1>0. ASSUME NEW t \in Threads, Returned(t)  PROVE ExclusionInv'
  BY <1>0, LocksReturned, ExclusionKept DEF Returned
<1>1. ASSUME NEW t \in Threads, RunStep(t)  PROVE ExclusionInv'
  <2>1. CASE ~Returned(t)
    <3>1. PICK c \in Changes, g \in Frames :
             Moved(Top(t), g, "enter") /\ Called(t, g, RequestCall(c))
      BY <1>1, <2>1, RunStepEffect
    <3>2. g.op = "run"  BY <1>1, <3>1, RunStepEffect DEF Moved
    <3>3. RequestCall(c).at = "enter"  BY ChangeCalls
    <3>q. QED  BY <3>1, <3>2, <3>3, ExclusionMoved DEF DeviceLock, PluginLock
  <2>q. QED  BY <1>0, <2>1
<1>2. ASSUME NEW t \in Threads, RequestEnter(t)  PROVE ExclusionInv'
  <2>1. PICK g \in Frames : Moved(Top(t), g, "decide") /\ Went(t, g)
    BY <1>2, RequestEnterEffect
  <2>2. g.op = "request" /\ g.device = Top(t).device /\ CanLockDevice(t, Top(t).device)
    BY <1>2, <2>1, RequestEnterEffect DEF Moved
  <2>q. QED  BY <2>1, <2>2, ExclusionMoved DEF DeviceLock, PluginLock
<1>3. ASSUME NEW t \in Threads, RequestEnqueue(t) \/ RequestReturn(t)  PROVE ExclusionInv'
  BY <1>0, <1>3, RequestEnqueueEffect, RequestReturnEffect
<1>4. ASSUME NEW t \in Threads, RequestInPlace(t)  PROVE ExclusionInv'
  <2>1. PICK g \in Frames : Moved(Top(t), g, "return") /\ Called(t, g, FunctionCall(Top(t).change))
    BY <1>4, RequestInPlaceEffect
  <2>2. ~Idle(t) /\ Top(t).op = "request" /\ Top(t).at = "decide" /\ Top(t).change \in Changes
    BY <1>4, RequestInPlaceEffect
  <2>3. FunctionCall(Top(t).change).at = "enter"  BY <2>2, ChangeCalls
  <2>4. ~PluginLock(g) /\ \A d : DeviceLock(g, d) => DeviceLock(Top(t), d)
    BY <2>1, <2>2 DEF DeviceLock, PluginLock, Moved
  <2>q. QED  BY <2>1, <2>2, <2>3, <2>4, Locks, ExclusionMoved
<1>5. ASSUME NEW t \in Threads, PerformEnter(t)  PROVE ExclusionInv'
  <2>1. PICK g \in Frames :
          /\ Moved(Top(t), g, "return")
          /\ (\E c \in Changes : Called(t, g, FunctionCall(c))) \/ Went(t, g)
    BY <1>5, PerformEnterEffect
  <2>2. Top(t).op = "perform" /\ CanLockDevice(t, Top(t).device)  BY <1>5, PerformEnterEffect
  <2>3. \A c \in Changes : FunctionCall(c).at = "enter"  BY ChangeCalls
  <2>4. ~PluginLock(g) /\ \A d : DeviceLock(g, d) => d = Top(t).device
    BY <2>1, <2>2 DEF DeviceLock, PluginLock, Moved
  <2>q. QED  BY <2>1, <2>2, <2>3, <2>4, ExclusionMoved
<1>6. ASSUME NEW t \in Threads, PerformReturn(t) \/ AddAttach(t) \/ RemoveReturn(t)
      PROVE  ExclusionInv'
  BY <1>0, <1>6, PerformReturnEffect, AddAttachEffect, RemoveReturnEffect
<1>7. ASSUME NEW t \in Threads, AddEnter(t) \/ RemoveEnter(t)  PROVE ExclusionInv'
  <2>1. CASE ~Returned(t)
    <3>1. PICK g \in Frames, at \in {"listed", "unlisted"} : Moved(Top(t), g, at) /\ Went(t, g)
      BY <1>7, <2>1, AddEnterEffect, RemoveEnterEffect
    <3>2. Top(t).op \in {"add", "remove"} /\ CanLockPlugin(t)
      BY <1>7, AddEnterEffect, RemoveEnterEffect
    <3>3. \A d : ~DeviceLock(g, d)  BY <3>1, <3>2 DEF DeviceLock, Moved
    <3>q. QED  BY <3>1, <3>2, <3>3, ExclusionMoved
  <2>q. QED  BY <1>0, <2>1
<1>8. ASSUME NEW t \in Threads, RemoveDetach(t)  PROVE ExclusionInv'
  <2>1. PICK g \in Frames : Moved(Top(t), g, "flush") /\ Went(t, g)
    BY <1>8, RemoveDetachEffect
  <2>2. /\ ~Idle(t) /\ Top(t).op = "remove" /\ Top(t).at = "unlisted"
        /\ CanLockDevice(t, Top(t).device)
    BY <1>8, RemoveDetachEffect
  <2>3. PluginLock(Top(t)) /\ \A d : DeviceLock(g, d) => d = Top(t).device
    BY <2>1, <2>2 DEF DeviceLock, PluginLock, Moved
  <2>q. QED  BY <2>1, <2>2, <2>3, Locks, ExclusionMoved
<1>9. ASSUME NEW t \in Threads, RemoveFlush(t) \/ RemoveErase(t)  PROVE ExclusionInv'
  <2>1. PICK g \in Frames, at \in {"flush", "flushing"} :
          /\ Moved(Top(t), g, at)
          /\ (\E c \in Changes : Called(t, g, FunctionCall(c))) \/ Went(t, g)
    BY <1>9, RemoveFlushEffect, RemoveEraseEffect
  <2>2. ~Idle(t) /\ Top(t).op = "remove" /\ Top(t).at \in {"flush", "flushing"}
    BY <1>9, RemoveFlushEffect, RemoveEraseEffect
  <2>3. \A c \in Changes : FunctionCall(c).at = "enter"  BY ChangeCalls
  <2>4. PluginLock(Top(t)) /\ \A d : DeviceLock(g, d) => DeviceLock(Top(t), d)
    BY <2>1, <2>2 DEF DeviceLock, PluginLock, Moved
  <2>q. QED  BY <2>1, <2>2, <2>3, <2>4, Locks, ExclusionMoved
<1>10. ASSUME NEW t \in Threads, NEW c, Began(t, c), c.at = "enter"  PROVE ExclusionInv'
  BY <1>10, LocksBegan, ExclusionKept DEF Began
<1>11. ASSUME NEW t \in Users, NEW c \in Changes, UserRequests(t, c)  PROVE ExclusionInv'
  BY <1>10, <1>11, UserRequestsEffect, ChangeCalls
<1>12. ASSUME NEW t \in Users, NEW d \in Devices, UserMoves(t, d)  PROVE ExclusionInv'
  BY <1>10, <1>12, UserMovesEffect
<1>13. ASSUME NEW d \in Devices, HalPerforms(d)  PROVE ExclusionInv'
  BY <1>10, <1>13, HalPerformsEffect
<1>14. ASSUME stack' = stack  PROVE ExclusionInv'
  BY <1>14 DEF Inv, IInv, ExclusionInv, HoldsPlugin, HoldsDevice
<1>15. ASSUME NEW t \in Threads, Step(t)  PROVE ExclusionInv'
  BY <1>1, <1>2, <1>3, <1>4, <1>5, <1>6, <1>7, <1>8, <1>9, <1>15 DEF Step
<1>q. QED
  BY <1>11, <1>12, <1>13, <1>14, <1>15, HalConnectsEffect, HalAbortsEffect, HalForgetsEffect
     DEF Next

-----------------------------------------------------------------------------
(* Who holds a device, and what the outermost calls do.                    *)

LEMMA Alone ==
  ASSUME Inv, NEW t \in Threads, NEW u \in Threads, NEW d \in Devices, HoldsDevice(u, d),
         HoldsDevice(t, d) \/ CanLockDevice(t, d)
  PROVE  u = t
BY DEF Inv, IInv, ExclusionInv, CanLockDevice

LEMMA Holders ==
  ASSUME Inv, NEW t \in Threads
  PROVE  /\ \A d : Flushes(t, d) =>
              HoldsDevice(t, d) /\ HoldsPlugin(t) /\ t # Hal /\ ~Idle(t) /\ Frame(t, 1).op = "remove"
         /\ \A d, id : Running(t, d, id) =>
              /\ HoldsDevice(t, d) /\ ~Idle(t)
              /\ \/ /\ t = Hal /\ Performs(d) /\ Frame(Hal, 1).op = "perform"
                    /\ Frame(Hal, 1).at = "return" /\ Frame(Hal, 1).id = id
                 \/ t # Hal /\ Flushes(t, d) /\ Frame(t, 1).at = "flushing"
         /\ \A c : Deciding(t, c) => c \in Changes /\ HoldsDevice(t, Target[c])
         /\ \A d : t = Hal /\ Performs(d) /\ Frame(Hal, 1).at = "return" => HoldsDevice(t, d)
<1>1. ~Idle(t) => 1 \in 1 .. Depth(t)  BY StackFacts
<1>2. ASSUME NEW d, Flushes(t, d)
      PROVE  HoldsDevice(t, d) /\ HoldsPlugin(t) /\ t # Hal /\ ~Idle(t) /\ Frame(t, 1).op = "remove"
  <2>1. /\ ~Idle(t) /\ Frame(t, 1).op = "remove" /\ Frame(t, 1).device = d
        /\ Frame(t, 1).at \in {"flush", "flushing"}
    BY <1>2 DEF Flushes
  <2>2. DeviceLock(Frame(t, 1), d) /\ PluginLock(Frame(t, 1))
    BY <2>1 DEF DeviceLock, PluginLock
  <2>3. t # Hal  BY <2>1, FirstFacts
  <2>q. QED  BY <1>1, <2>1, <2>2, <2>3, Locks
<1>3. ASSUME NEW d, NEW id, Running(t, d, id)
      PROVE  /\ HoldsDevice(t, d) /\ ~Idle(t)
             /\ \/ /\ t = Hal /\ Performs(d) /\ Frame(Hal, 1).op = "perform"
                   /\ Frame(Hal, 1).at = "return" /\ Frame(Hal, 1).id = id
                \/ t # Hal /\ Flushes(t, d) /\ Frame(t, 1).at = "flushing"
  <2>1. /\ ~Idle(t) /\ Frame(t, 1).device = d /\ Frame(t, 1).id = id
        /\ Frame(t, 1).op \in {"perform", "remove"} /\ Waiting(Frame(t, 1))
    BY <1>3 DEF Running
  <2>2. CASE Frame(t, 1).op = "perform"
    <3>1. t = Hal /\ Frame(t, 1).at = "return"  BY <2>1, <2>2, FirstFacts DEF Waiting
    <3>2. DeviceLock(Frame(t, 1), d)  BY <2>1, <2>2, <3>1 DEF DeviceLock
    <3>q. QED  BY <1>1, <2>1, <2>2, <3>1, <3>2, Locks DEF Performs
  <2>3. CASE Frame(t, 1).op = "remove"
    <3>1. t # Hal /\ Frame(t, 1).at = "flushing"  BY <2>1, <2>3, FirstFacts DEF Waiting
    <3>2. Flushes(t, d)  BY <2>1, <2>3, <3>1 DEF Flushes
    <3>q. QED  BY <1>2, <2>1, <3>1, <3>2
  <2>q. QED  BY <2>1, <2>2, <2>3
<1>4. ASSUME NEW c, Deciding(t, c)  PROVE c \in Changes /\ HoldsDevice(t, Target[c])
  <2>1. ~Idle(t) /\ Top(t).op = "request" /\ Top(t).at = "decide" /\ Top(t).change = c
    BY <1>4 DEF Deciding
  <2>2. c \in Changes /\ Top(t).device = Target[c]  BY <2>1, TopFacts
  <2>3. DeviceLock(Top(t), Target[c])  BY <2>1, <2>2 DEF DeviceLock
  <2>q. QED  BY <2>1, <2>2, <2>3, Locks
<1>5. ASSUME NEW d, t = Hal, Performs(d), Frame(Hal, 1).at = "return"  PROVE HoldsDevice(t, d)
  <2>1. ~Idle(t) /\ Frame(t, 1).device = d /\ Frame(t, 1).at = "return"  BY <1>5 DEF Performs
  <2>2. Frame(t, 1).op = "perform"  BY <1>5, <2>1, FirstFacts
  <2>3. DeviceLock(Frame(t, 1), d)  BY <2>1, <2>2 DEF DeviceLock
  <2>q. QED  BY <1>1, <2>1, <2>3, Locks
<1>q. QED  BY <1>2, <1>3, <1>4, <1>5

(* The outermost call after a step.                                        *)
LEMMA IdleNext ==
  ASSUME NEW t \in Threads, stack'[t] \in Seq(Frames)
  PROVE  Idle(t)' <=> Depth(t)' = 0
BY EmptySeq DEF Idle, Depth

LEMMA FirstWent ==
  ASSUME Inv, NEW t \in Threads, NEW f, Went(t, f) \/ \E c : Called(t, f, c)
  PROVE  /\ ~Idle(t) /\ ~Idle(t)' /\ Others(t)
         /\ Frame(t, 1)' = IF Depth(t) = 1 THEN f ELSE Frame(t, 1)
<1>1. /\ stack'[t] \in Seq(Frames) /\ Depth(t)' \in {Depth(t), Depth(t) + 1} /\ ~Idle(t)
      /\ \A p \in 1 .. Depth(t) : Frame(t, p)' = IF p = Depth(t) THEN f ELSE Frame(t, p)
      /\ Others(t)
  BY DEF Went, Called
<1>2. Depth(t) \in Nat \ {0} /\ 1 \in 1 .. Depth(t)  BY <1>1, StackFacts
<1>3. Depth(t)' # 0  BY <1>1, <1>2
<1>q. QED  BY <1>1, <1>2, <1>3, IdleNext

LEMMA FirstReturned ==
  ASSUME Inv, NEW t \in Threads, Returned(t)
  PROVE  /\ ~Idle(t) /\ (Idle(t)' <=> Depth(t) = 1) /\ Others(t)
         /\ Depth(t) # 1 => Frame(t, 1)' = Frame(t, 1)
<1>1. Depth(t) \in Nat \ {0} /\ ~Idle(t)  BY StackFacts DEF Returned
<1>2. Depth(t) # 1 => 1 \in 1 .. Depth(t) - 1  BY <1>1
<1>3. Depth(t)' = 0 <=> Depth(t) = 1  BY <1>1 DEF Returned
<1>q. QED  BY <1>1, <1>2, <1>3, IdleNext DEF Returned

LEMMA FirstBegan ==
  ASSUME Inv, NEW t \in Threads, NEW c, Began(t, c)
  PROVE  Idle(t) /\ ~Idle(t)' /\ Frame(t, 1)' = c /\ Others(t)
<1>1. Depth(t)' # 0 /\ stack'[t] \in Seq(Frames)  BY DEF Began
<1>q. QED  BY <1>1, IdleNext DEF Began

(* The outermost call of a thread neither performs nor flushes.            *)
Quiet(f) ==
  \/ f.op \in {"request", "add"}
  \/ f.op = "remove" /\ f.at \in {"enter", "unlisted"}

HalKept ==
  \A d : (Performs(d)' <=> Performs(d)) /\ (Performs(d) => Frame(Hal, 1)' = Frame(Hal, 1))
OuterKept ==
  /\ HalKept
  /\ \A u \in Threads : \A d : /\ Flushes(u, d)' <=> Flushes(u, d)
                               /\ \A id : Running(u, d, id)' <=> Running(u, d, id)

LEMMA HalStays ==
  ASSUME NEW t \in Threads, t # Hal, Others(t)
  PROVE  HalKept
<1>1. stack'[Hal] = stack[Hal]  BY DEF Others, Threads
<1>q. QED  BY <1>1 DEF HalKept, Performs, Idle, Frame, Depth

LEMMA OuterStays ==
  ASSUME NEW t \in Threads, Others(t), ~Idle(t), ~Idle(t)', Frame(t, 1)' = Frame(t, 1)
  PROVE  OuterKept
<1>1. HalKept
  <2>1. CASE t = Hal  BY <2>1 DEF HalKept, Performs
  <2>q. QED  BY <2>1, HalStays
<1>2. ASSUME NEW u \in Threads, NEW d
      PROVE  /\ Flushes(u, d)' <=> Flushes(u, d)
             /\ \A id : Running(u, d, id)' <=> Running(u, d, id)
  <2>1. CASE u = t  BY <2>1 DEF Flushes, Running
  <2>2. CASE u # t  BY <2>2, Unmoved DEF Others
  <2>q. QED  BY <2>1, <2>2
<1>q. QED  BY <1>1, <1>2 DEF OuterKept

LEMMA OuterQuiet ==
  ASSUME NEW t \in Threads, t # Hal, Others(t),
         Idle(t) \/ Quiet(Frame(t, 1)), Idle(t)' \/ Quiet(Frame(t, 1)')
  PROVE  OuterKept
<1>1. HalKept  BY HalStays
<1>2. ASSUME NEW u \in Threads, NEW d
      PROVE  /\ Flushes(u, d)' <=> Flushes(u, d)
             /\ \A id : Running(u, d, id)' <=> Running(u, d, id)
  <2>1. CASE u = t  BY <2>1 DEF Flushes, Running, Quiet, Waiting
  <2>2. CASE u # t  BY <2>2, Unmoved DEF Others
  <2>q. QED  BY <2>1, <2>2
<1>q. QED  BY <1>1, <1>2 DEF OuterKept

LEMMA OuterSame ==
  ASSUME stack' = stack
  PROVE  OuterKept
BY DEF OuterKept, HalKept, Flushes, Running, Performs, Idle, Frame, Depth

(* Requests and functions do not disturb the outermost calls.              *)
LEMMA OuterRequest ==
  ASSUME Inv, NEW t \in Threads, ~Idle(t), Top(t).op \in {"request", "run"}, NEW f,
         \/ Returned(t)
         \/ (f.op = Top(t).op) /\ (Went(t, f) \/ \E c : Called(t, f, c))
  PROVE  OuterKept
<1>1. CASE Depth(t) = 1
  <2>1. Frame(t, 1) = Top(t) /\ Top(t).op = "request" /\ t # Hal
    BY <1>1, TopFacts, FirstFacts DEF Outermost
  <2>2. CASE Returned(t)
    BY <1>1, <2>1, <2>2, FirstReturned, OuterQuiet DEF Quiet
  <2>3. CASE f.op = Top(t).op /\ (Went(t, f) \/ \E c : Called(t, f, c))
    BY <1>1, <2>1, <2>3, FirstWent, OuterQuiet DEF Quiet
  <2>q. QED  BY <2>2, <2>3
<1>2. CASE Depth(t) # 1
  <2>1. CASE Returned(t)  BY <1>2, <2>1, FirstReturned, OuterStays
  <2>2. CASE Went(t, f) \/ \E c : Called(t, f, c)  BY <1>2, <2>2, FirstWent, OuterStays
  <2>q. QED  BY <2>1, <2>2
<1>q. QED  BY <1>1, <1>2

LEMMA RequestOuter ==
  ASSUME Inv, NEW t \in Threads,
         RunStep(t) \/ RequestEnter(t) \/ RequestEnqueue(t) \/ RequestInPlace(t) \/ RequestReturn(t)
  PROVE  OuterKept
<1>1. CASE RunStep(t)
  <2>1. ~Idle(t) /\ Top(t).op = "run"  BY <1>1, RunStepEffect
  <2>2. \/ Returned(t)
        \/ \E g : g.op = Top(t).op /\ \E c : Called(t, g, c)
    BY <1>1, RunStepEffect DEF Moved
  <2>q. QED  BY <2>1, <2>2, OuterRequest
<1>2. CASE RequestEnter(t)
  <2>1. ~Idle(t) /\ Top(t).op = "request"  BY <1>2, RequestEnterEffect
  <2>2. \E g : g.op = Top(t).op /\ Went(t, g)  BY <1>2, RequestEnterEffect DEF Moved
  <2>q. QED  BY <2>1, <2>2, OuterRequest
<1>3. CASE RequestInPlace(t)
  <2>1. ~Idle(t) /\ Top(t).op = "request"  BY <1>3, RequestInPlaceEffect
  <2>2. \E g : g.op = Top(t).op /\ \E c : Called(t, g, c)
    BY <1>3, RequestInPlaceEffect DEF Moved
  <2>q. QED  BY <2>1, <2>2, OuterRequest
<1>4. CASE RequestEnqueue(t)  BY <1>4, RequestEnqueueEffect, OuterRequest
<1>5. CASE RequestReturn(t)  BY <1>5, RequestReturnEffect, OuterRequest
<1>q. QED  BY <1>1, <1>2, <1>3, <1>4, <1>5

LEMMA MoveOuter ==
  ASSUME Inv, NEW t \in Threads, AddEnter(t) \/ AddAttach(t) \/ RemoveEnter(t)
  PROVE  OuterKept
<1>1. /\ ~Idle(t) /\ t # Hal /\ Depth(t) = 1
      /\ Top(t).op = "add" \/ (Top(t).op = "remove" /\ Top(t).at = "enter")
  BY AddEnterEffect, AddAttachEffect, RemoveEnterEffect
<1>2. Frame(t, 1) = Top(t) /\ Quiet(Frame(t, 1))  BY <1>1, TopFacts DEF Quiet
<1>3. CASE Returned(t)  BY <1>1, <1>2, <1>3, FirstReturned, OuterQuiet
<1>4. CASE ~Returned(t)
  <2>1. PICK g \in Frames :
          /\ Went(t, g)
          /\ \/ AddEnter(t) /\ Moved(Top(t), g, "listed")
             \/ RemoveEnter(t) /\ Moved(Top(t), g, "unlisted")
    BY <1>4, AddEnterEffect, AddAttachEffect, RemoveEnterEffect
  <2>2. Quiet(g)  BY <2>1, AddEnterEffect, RemoveEnterEffect DEF Quiet, Moved
  <2>q. QED  BY <1>1, <1>2, <2>1, <2>2, FirstWent, OuterQuiet
<1>q. QED  BY <1>3, <1>4

LEMMA BeginOuter ==
  ASSUME Inv, NEW t \in Users,
         (\E c \in Changes : UserRequests(t, c)) \/ (\E d \in Devices : UserMoves(t, d))
  PROVE  OuterKept
<1>1. CASE \E c \in Changes : UserRequests(t, c)
  <2>1. PICK c \in Changes : UserRequests(t, c)  BY <1>1
  <2>2. Quiet(RequestCall(c))  BY ChangeCalls DEF Quiet
  <2>q. QED  BY <2>1, <2>2, UserRequestsEffect, FirstBegan, OuterQuiet
<1>2. CASE \E d \in Devices : UserMoves(t, d)
  <2>1. PICK d \in Devices : UserMoves(t, d)  BY <1>2
  <2>2. PICK g \in Frames : /\ g.op \in {"add", "remove"} /\ g.at = "enter" /\ Began(t, g)
    BY <2>1, UserMovesEffect
  <2>3. Quiet(g) /\ t \in Threads /\ t # Hal  BY <2>1, <2>2, UserMovesEffect DEF Quiet
  <2>q. QED  BY <2>2, <2>3, FirstBegan, OuterQuiet
<1>q. QED  BY <1>1, <1>2

(* The steps that do.                                                      *)
LEMMA Apart ==
  ASSUME NEW t \in Threads, Others(t), NEW u \in Threads, u # t
  PROVE  /\ \A d : Flushes(u, d)' <=> Flushes(u, d)
         /\ \A d, id : Running(u, d, id)' <=> Running(u, d, id)
         /\ \A c : Deciding(u, c)' <=> Deciding(u, c)
BY Unmoved DEF Others

LEMMA PerformEnterOuter ==
  ASSUME Inv, NEW t \in Threads, PerformEnter(t)
  PROVE  /\ t = Hal /\ Frame(Hal, 1) = Top(t)
         /\ \A u \in Threads : \A d : Flushes(u, d)' <=> Flushes(u, d)
         /\ \A d : (Performs(d)' <=> Performs(d)) /\ (Performs(d) <=> d = Top(t).device)
         /\ Frame(Hal, 1)'.at = "return" /\ Frame(Hal, 1)'.id = Top(t).id
         /\ \A d, id : ~Running(t, d, id)
         /\ \A u \in Threads : \A d, id : Running(u, d, id)' <=>
              Running(u, d, id) \/ (u = t /\ d = Top(t).device /\ id = Top(t).id)
<1>1. PICK g \in Frames : /\ Moved(Top(t), g, "return") /\ g.id = Top(t).id
                          /\ Went(t, g) \/ \E c : Called(t, g, c)
  BY PerformEnterEffect
<1>2. /\ t = Hal /\ Depth(t) = 1 /\ Top(t).op = "perform" /\ Top(t).at = "enter"
      /\ ~Idle(t) /\ Frame(t, 1) = Top(t)
  BY PerformEnterEffect, TopFacts
<1>3. ~Idle(t)' /\ Frame(t, 1)' = g /\ Others(t)  BY <1>1, <1>2, FirstWent
<1>4. g.op = "perform" /\ g.at = "return" /\ g.device = Top(t).device
  BY <1>1, <1>2 DEF Moved
<1>5. \A d : ~Flushes(t, d) /\ ~Flushes(t, d)'  BY <1>2, <1>3, <1>4 DEF Flushes
<1>6. \A d, id : /\ ~Running(t, d, id)
                 /\ Running(t, d, id)' <=> d = Top(t).device /\ id = Top(t).id
  BY <1>1, <1>2, <1>3, <1>4 DEF Running, Waiting
<1>7. \A d : (Performs(d)' <=> Performs(d)) /\ (Performs(d) <=> d = Top(t).device)
  BY <1>2, <1>3, <1>4 DEF Performs
<1>q. QED  BY <1>1, <1>2, <1>3, <1>4, <1>5, <1>6, <1>7, Apart

LEMMA PerformReturnOuter ==
  ASSUME Inv, NEW t \in Threads, PerformReturn(t)
  PROVE  /\ t = Hal /\ Frame(Hal, 1) = Top(t) /\ Frame(Hal, 1).at = "return"
         /\ \A u \in Threads : \A d : Flushes(u, d)' <=> Flushes(u, d)
         /\ \A d : ~Performs(d)' /\ (Performs(d) <=> d = Top(t).device)
         /\ \A d, id : Running(t, d, id) <=> d = Top(t).device /\ id = Top(t).id
         /\ \A u \in Threads : \A d, id : Running(u, d, id)' <=> Running(u, d, id) /\ u # t
<1>1. /\ t = Hal /\ Depth(t) = 1 /\ Top(t).op = "perform" /\ Top(t).at = "return"
      /\ ~Idle(t) /\ Frame(t, 1) = Top(t) /\ Returned(t)
  BY PerformReturnEffect, TopFacts
<1>2. Idle(t)' /\ Others(t)  BY <1>1, FirstReturned
<1>3. \A d : ~Flushes(t, d) /\ ~Flushes(t, d)'  BY <1>1, <1>2 DEF Flushes
<1>4. \A d, id : /\ ~Running(t, d, id)'
                 /\ Running(t, d, id) <=> d = Top(t).device /\ id = Top(t).id
  BY <1>1, <1>2 DEF Running, Waiting
<1>5. \A d : ~Performs(d)' /\ (Performs(d) <=> d = Top(t).device)
  BY <1>1, <1>2 DEF Performs
<1>q. QED  BY <1>1, <1>2, <1>3, <1>4, <1>5, Apart

LEMMA HalPerformsOuter ==
  ASSUME Inv, NEW d \in Devices, HalPerforms(d)
  PROVE  /\ \A e : ~Performs(e) /\ (Performs(e)' <=> e = d)
         /\ Frame(Hal, 1)'.at = "enter" /\ Frame(Hal, 1)'.id = Head(queue[d])
         /\ \A u \in Threads : \A e : /\ Flushes(u, e)' <=> Flushes(u, e)
                                      /\ \A id : Running(u, e, id)' <=> Running(u, e, id)
<1>1. Hal \in Threads  BY DEF Threads
<1>2. PICK g \in Frames : /\ g.op = "perform" /\ g.device = d /\ g.at = "enter"
                          /\ g.id = Head(queue[d]) /\ Began(Hal, g)
  BY HalPerformsEffect
<1>3. Idle(Hal) /\ ~Idle(Hal)' /\ Frame(Hal, 1)' = g /\ Others(Hal)
  BY <1>1, <1>2, FirstBegan
<1>4. \A e : ~Flushes(Hal, e) /\ ~Flushes(Hal, e)'  BY <1>2, <1>3 DEF Flushes
<1>5. \A e, id : ~Running(Hal, e, id) /\ ~Running(Hal, e, id)'
  BY <1>2, <1>3 DEF Running, Waiting
<1>6. \A e : ~Performs(e) /\ (Performs(e)' <=> e = d)  BY <1>2, <1>3 DEF Performs
<1>q. QED  BY <1>1, <1>2, <1>3, <1>4, <1>5, <1>6, Apart

LEMMA RemoveDetachOuter ==
  ASSUME Inv, NEW t \in Threads, RemoveDetach(t)
  PROVE  /\ HalKept
         /\ \A u \in Threads : \A d, id : Running(u, d, id)' <=> Running(u, d, id)
         /\ \A u \in Threads : \A d :
              Flushes(u, d)' <=> Flushes(u, d) \/ (u = t /\ d = Top(t).device)
<1>1. PICK g \in Frames : Moved(Top(t), g, "flush") /\ Went(t, g)  BY RemoveDetachEffect
<1>2. /\ t # Hal /\ Depth(t) = 1 /\ Top(t).op = "remove" /\ Top(t).at = "unlisted"
      /\ ~Idle(t) /\ Frame(t, 1) = Top(t)
  BY RemoveDetachEffect, TopFacts
<1>3. ~Idle(t)' /\ Frame(t, 1)' = g /\ Others(t)  BY <1>1, <1>2, FirstWent
<1>4. g.op = "remove" /\ g.at = "flush" /\ g.device = Top(t).device  BY <1>1, <1>2 DEF Moved
<1>5. \A d : ~Flushes(t, d) /\ (Flushes(t, d)' <=> d = Top(t).device)
  BY <1>2, <1>3, <1>4 DEF Flushes
<1>6. \A d, id : ~Running(t, d, id) /\ ~Running(t, d, id)'
  BY <1>2, <1>3, <1>4 DEF Running, Waiting
<1>q. QED  BY <1>2, <1>3, <1>5, <1>6, Apart, HalStays

LEMMA RemoveFlushOuter ==
  ASSUME Inv, NEW t \in Threads, RemoveFlush(t)
  PROVE  LET dev == Top(t).device IN
         /\ HalKept /\ Flushes(t, dev)
         /\ \A u \in Threads : \A d : Flushes(u, d)' <=> Flushes(u, d)
         /\ \A d, id : ~Running(t, d, id)
         /\ \A u \in Threads : \A d, id : Running(u, d, id)' <=>
              Running(u, d, id) \/ (u = t /\ d = dev /\ id = FirstPending(dev))
<1> DEFINE first == FirstPending(Top(t).device)
<1>1. PICK g \in Frames : /\ Moved(Top(t), g, "flushing") /\ g.id = first
                          /\ \E c : Called(t, g, c)
  BY RemoveFlushEffect
<1> HIDE DEF first
<1>2. /\ t # Hal /\ Depth(t) = 1 /\ Top(t).op = "remove" /\ Top(t).at = "flush"
      /\ ~Idle(t) /\ Frame(t, 1) = Top(t)
  BY RemoveFlushEffect, TopFacts
<1>3. ~Idle(t)' /\ Frame(t, 1)' = g /\ Others(t)  BY <1>1, <1>2, FirstWent
<1>4. g.op = "remove" /\ g.at = "flushing" /\ g.device = Top(t).device
  BY <1>1, <1>2 DEF Moved
<1>5. Flushes(t, Top(t).device) /\ \A d : Flushes(t, d)' <=> Flushes(t, d)
  BY <1>2, <1>3, <1>4 DEF Flushes
<1>6. \A d, id : /\ ~Running(t, d, id)
                 /\ Running(t, d, id)' <=> d = Top(t).device /\ id = first
  BY <1>1, <1>2, <1>3, <1>4 DEF Running, Waiting
<1>q. QED  BY <1>2, <1>3, <1>5, <1>6, Apart, HalStays DEF first

LEMMA RemoveEraseOuter ==
  ASSUME Inv, NEW t \in Threads, RemoveErase(t)
  PROVE  LET dev == Top(t).device IN
         /\ HalKept /\ Flushes(t, dev)
         /\ \A u \in Threads : \A d : Flushes(u, d)' <=> Flushes(u, d)
         /\ \A d, id : Running(t, d, id) <=> d = dev /\ id = Top(t).id
         /\ \A u \in Threads : \A d, id : Running(u, d, id)' <=> Running(u, d, id) /\ u # t
<1>1. PICK g \in Frames : Moved(Top(t), g, "flush") /\ Went(t, g)  BY RemoveEraseEffect
<1>2. /\ t # Hal /\ Depth(t) = 1 /\ Top(t).op = "remove" /\ Top(t).at = "flushing"
      /\ ~Idle(t) /\ Frame(t, 1) = Top(t)
  BY RemoveEraseEffect, TopFacts
<1>3. ~Idle(t)' /\ Frame(t, 1)' = g /\ Others(t)  BY <1>1, <1>2, FirstWent
<1>4. g.op = "remove" /\ g.at = "flush" /\ g.device = Top(t).device  BY <1>1, <1>2 DEF Moved
<1>5. Flushes(t, Top(t).device) /\ \A d : Flushes(t, d)' <=> Flushes(t, d)
  BY <1>2, <1>3, <1>4 DEF Flushes
<1>6. \A d, id : /\ ~Running(t, d, id)'
                 /\ Running(t, d, id) <=> d = Top(t).device /\ id = Top(t).id
  BY <1>1, <1>2, <1>3, <1>4 DEF Running, Waiting
<1>q. QED  BY <1>2, <1>3, <1>5, <1>6, Apart, HalStays

LEMMA RemoveReturnOuter ==
  ASSUME Inv, NEW t \in Threads, RemoveReturn(t)
  PROVE  /\ HalKept
         /\ \A u \in Threads : \A d, id : Running(u, d, id)' <=> Running(u, d, id)
         /\ \A d : Flushes(t, d) <=> d = Top(t).device
         /\ \A u \in Threads : \A d : Flushes(u, d)' <=> Flushes(u, d) /\ u # t
<1>1. /\ t # Hal /\ Depth(t) = 1 /\ Top(t).op = "remove" /\ Top(t).at = "flush"
      /\ ~Idle(t) /\ Frame(t, 1) = Top(t) /\ Returned(t)
  BY RemoveReturnEffect, TopFacts
<1>2. Idle(t)' /\ Others(t)  BY <1>1, FirstReturned
<1>3. \A d : ~Flushes(t, d)' /\ (Flushes(t, d) <=> d = Top(t).device)
  BY <1>1, <1>2 DEF Flushes
<1>4. \A d, id : ~Running(t, d, id) /\ ~Running(t, d, id)'
  BY <1>1, <1>2 DEF Running, Waiting
<1>q. QED  BY <1>1, <1>2, <1>3, <1>4, Apart, HalStays

-----------------------------------------------------------------------------
(* HostInv.                                                                *)

Hosted(f) == f.op = "request" /\ f.at # "enter" => f.hosted = host

LEMMA HostedFrames ==
  ASSUME Inv, NEW t \in Threads
  PROVE  /\ \A p \in 1 .. Depth(t) : Hosted(Frame(t, p))
         /\ ~Idle(t) => Hosted(Top(t))
BY StackFacts DEF Inv, IInv, HostInv, Hosted

LEMMA HostKept ==
  ASSUME Inv, NEW t \in Threads, Others(t), host' = host,
         \A p \in 1 .. Depth(t)' :
           \/ p \in 1 .. Depth(t) /\ Frame(t, p)' = Frame(t, p)
           \/ Hosted(Frame(t, p)'),
         \A d \in Devices : DOMAIN pending'[d] # {} => host
  PROVE  HostInv'
<1>1. ASSUME NEW u \in Threads, NEW p \in 1 .. Depth(u)',
             Frame(u, p)'.op = "request", Frame(u, p)'.at # "enter"
      PROVE  Frame(u, p)'.hosted = host'
  <2>1. CASE u = t  BY <1>1, <2>1, HostedFrames DEF Hosted
  <2>2. CASE u # t  BY <1>1, <2>2, Unmoved, HostedFrames DEF Hosted, Others
  <2>q. QED  BY <2>1, <2>2
<1>q. QED  BY <1>1 DEF HostInv

LEMMA HostWent ==
  ASSUME Inv, NEW t \in Threads, NEW f, Went(t, f), Hosted(f), host' = host,
         \A d \in Devices : DOMAIN pending'[d] # {} => host
  PROVE  HostInv'
<1>1. \A p \in 1 .. Depth(t)' :
           \/ p \in 1 .. Depth(t) /\ Frame(t, p)' = Frame(t, p)
           \/ Frame(t, p)' = f
  BY DEF Went
<1>2. Others(t)  BY DEF Went
<1>q. QED  BY <1>1, <1>2, HostKept

LEMMA HostCalled ==
  ASSUME Inv, NEW t \in Threads, NEW f, NEW c, Called(t, f, c), Hosted(f), c.at = "enter",
         host' = host, pending' = pending
  PROVE  HostInv'
<1>1. Depth(t) \in Nat /\ Others(t) /\ Hosted(c)  BY StackFacts DEF Called, Hosted
<1>2. \A p \in 1 .. Depth(t)' :
           \/ p \in 1 .. Depth(t) /\ Frame(t, p)' = Frame(t, p)
           \/ Frame(t, p)' = f
           \/ Frame(t, p)' = c
  <2>1. \A p \in 1 .. Depth(t) + 1 : p = Depth(t) + 1 \/ p \in 1 .. Depth(t)  BY <1>1
  <2>q. QED  BY <2>1 DEF Called
<1>3. \A d \in Devices : DOMAIN pending'[d] # {} => host  BY DEF Inv, IInv, HostInv
<1>q. QED  BY <1>1, <1>2, <1>3, HostKept

LEMMA HostReturned ==
  ASSUME Inv, NEW t \in Threads, Returned(t), host' = host,
         \A d \in Devices : DOMAIN pending'[d] # {} => host
  PROVE  HostInv'
<1>1. Depth(t) \in Nat /\ Others(t)  BY StackFacts DEF Returned
<1>2. \A p \in 1 .. Depth(t)' : p \in 1 .. Depth(t) /\ Frame(t, p)' = Frame(t, p)
  BY <1>1 DEF Returned
<1>q. QED  BY <1>1, <1>2, HostKept

LEMMA HostBegan ==
  ASSUME Inv, NEW t \in Threads, NEW c, Began(t, c), c.at = "enter", host' = host,
         pending' = pending
  PROVE  HostInv'
<1>1. Others(t) /\ \A p \in 1 .. Depth(t)' : Frame(t, p)' = c  BY DEF Began
<1>2. Hosted(c)  BY DEF Hosted
<1>3. \A d \in Devices : DOMAIN pending'[d] # {} => host  BY DEF Inv, IInv, HostInv
<1>q. QED  BY <1>1, <1>2, <1>3, HostKept

LEMMA HostStep ==
  ASSUME Inv, Next
  PROVE  HostInv'
<1>0. \A d \in Devices : DOMAIN pending[d] # {} => host  BY DEF Inv, IInv, HostInv
<1>1. ASSUME NEW t \in Threads, RunStep(t)  PROVE HostInv'
  <2>1. host' = host /\ pending' = pending  BY <1>1, RunStepEffect
  <2>2. CASE Returned(t)  BY <1>0, <2>1, <2>2, HostReturned
  <2>3. CASE ~Returned(t)
    <3>1. PICK c \in Changes, g \in Frames :
             Moved(Top(t), g, "enter") /\ Called(t, g, RequestCall(c))
      BY <1>1, <2>3, RunStepEffect
    <3>2. Hosted(g) /\ RequestCall(c).at = "enter"  BY <3>1, ChangeCalls DEF Hosted, Moved
    <3>q. QED  BY <2>1, <3>1, <3>2, HostCalled
  <2>q. QED  BY <2>2, <2>3
<1>2. ASSUME NEW t \in Threads, RequestEnter(t)  PROVE HostInv'
  <2>1. PICK g \in Frames : g.hosted = host /\ Went(t, g)  BY <1>2, RequestEnterEffect
  <2>2. host' = host /\ pending' = pending  BY <1>2, RequestEnterEffect
  <2>3. Hosted(g)  BY <2>1 DEF Hosted
  <2>q. QED  BY <1>0, <2>1, <2>2, <2>3, HostWent
<1>3. ASSUME NEW t \in Threads, RequestEnqueue(t)  PROVE HostInv'
  <2>1. /\ ~Idle(t) /\ Top(t).op = "request" /\ Top(t).at = "decide" /\ Top(t).hosted
        /\ Returned(t) /\ host' = host
    BY <1>3, RequestEnqueueEffect
  <2>2. host  BY <2>1, HostedFrames DEF Hosted
  <2>q. QED  BY <2>1, <2>2, HostReturned
<1>4. ASSUME NEW t \in Threads, RequestInPlace(t)  PROVE HostInv'
  <2>1. PICK g \in Frames : /\ Moved(Top(t), g, "return") /\ g.hosted = Top(t).hosted
                            /\ Called(t, g, FunctionCall(Top(t).change))
    BY <1>4, RequestInPlaceEffect
  <2>2. /\ ~Idle(t) /\ Top(t).op = "request" /\ Top(t).at = "decide" /\ Top(t).change \in Changes
        /\ host' = host /\ pending' = pending
    BY <1>4, RequestInPlaceEffect
  <2>3. Hosted(g) /\ FunctionCall(Top(t).change).at = "enter"
    BY <2>1, <2>2, HostedFrames, ChangeCalls DEF Hosted
  <2>q. QED  BY <2>1, <2>2, <2>3, HostCalled
<1>5. ASSUME NEW t \in Threads, RequestReturn(t) \/ AddAttach(t) \/ RemoveReturn(t)
      PROVE  HostInv'
  <2>1. Returned(t) /\ host' = host /\ pending' = pending
    BY <1>5, RequestReturnEffect, AddAttachEffect, RemoveReturnEffect
  <2>q. QED  BY <1>0, <2>1, HostReturned
<1>6. ASSUME NEW t \in Threads, PerformEnter(t)  PROVE HostInv'
  <2>1. PICK g \in Frames :
          /\ Moved(Top(t), g, "return")
          /\ (\E c \in Changes : Called(t, g, FunctionCall(c))) \/ Went(t, g)
    BY <1>6, PerformEnterEffect
  <2>2. Top(t).op = "perform" /\ host' = host /\ pending' = pending
    BY <1>6, PerformEnterEffect
  <2>3. Hosted(g) /\ \A c \in Changes : FunctionCall(c).at = "enter"
    BY <2>1, <2>2, ChangeCalls DEF Hosted, Moved
  <2>q. QED  BY <1>0, <2>1, <2>2, <2>3, HostCalled, HostWent
<1>7. ASSUME NEW t \in Threads, PerformReturn(t)  PROVE HostInv'
  <2>1. Returned(t) /\ host' = host /\ Erase(Top(t).device, Top(t).id) /\ Top(t).device \in Devices
    BY <1>7, PerformReturnEffect, TopFacts
  <2>2. \A d \in Devices : DOMAIN pending'[d] # {} => host  BY <1>0, <2>1, EraseFacts
  <2>q. QED  BY <2>1, <2>2, HostReturned
<1>8. ASSUME NEW t \in Threads, AddEnter(t) \/ RemoveEnter(t) \/ RemoveDetach(t)
      PROVE  HostInv'
  <2>1. host' = host /\ pending' = pending /\ Top(t).op \in {"add", "remove"}
    BY <1>8, AddEnterEffect, RemoveEnterEffect, RemoveDetachEffect
  <2>2. Returned(t) \/ \E g, at : Moved(Top(t), g, at) /\ Went(t, g)
    BY <1>8, AddEnterEffect, RemoveEnterEffect, RemoveDetachEffect
  <2>3. CASE Returned(t)  BY <1>0, <2>1, <2>3, HostReturned
  <2>4. CASE \E g, at : Moved(Top(t), g, at) /\ Went(t, g)
    BY <1>0, <2>1, <2>4, HostWent DEF Hosted, Moved
  <2>q. QED  BY <2>2, <2>3, <2>4
<1>9. ASSUME NEW t \in Threads, RemoveFlush(t)  PROVE HostInv'
  <2>1. PICK g \in Frames, c \in Changes :
          Moved(Top(t), g, "flushing") /\ Called(t, g, FunctionCall(c))
    BY <1>9, RemoveFlushEffect
  <2>2. Top(t).op = "remove" /\ host' = host /\ pending' = pending
    BY <1>9, RemoveFlushEffect
  <2>3. Hosted(g) /\ FunctionCall(c).at = "enter"
    BY <2>1, <2>2, ChangeCalls DEF Hosted, Moved
  <2>q. QED  BY <2>1, <2>2, <2>3, HostCalled
<1>10. ASSUME NEW t \in Threads, RemoveErase(t)  PROVE HostInv'
  <2>1. PICK g \in Frames : Moved(Top(t), g, "flush") /\ Went(t, g)
    BY <1>10, RemoveEraseEffect
  <2>2. /\ Top(t).op = "remove" /\ host' = host /\ Erase(Top(t).device, Top(t).id)
        /\ Top(t).device \in Devices
    BY <1>10, RemoveEraseEffect
  <2>3. \A d \in Devices : DOMAIN pending'[d] # {} => host  BY <1>0, <2>2, EraseFacts
  <2>q. QED  BY <2>1, <2>2, <2>3, HostWent DEF Hosted, Moved
<1>11. ASSUME NEW t \in Users, NEW c \in Changes, UserRequests(t, c)  PROVE HostInv'
  BY <1>11, UserRequestsEffect, ChangeCalls, HostBegan
<1>12. ASSUME NEW t \in Users, NEW d \in Devices, UserMoves(t, d)  PROVE HostInv'
  BY <1>12, UserMovesEffect, HostBegan
<1>13. ASSUME HalConnects  PROVE HostInv'
  <2>1. ASSUME NEW t \in Threads  PROVE 1 .. Depth(t)' = {}
    <3>1. Depth(t)' = 0  BY <1>13, HalConnectsEffect, StackFacts DEF Depth
    <3>q. QED  BY <3>1
  <2>2. host'  BY <1>13, HalConnectsEffect
  <2>q. QED  BY <2>1, <2>2 DEF HostInv
<1>14. ASSUME NEW d \in Devices, HalPerforms(d)  PROVE HostInv'
  BY <1>14, HalPerformsEffect, HostBegan
<1>15. ASSUME stack' = stack, host' = host, \A d \in Devices : DOMAIN pending'[d] # {} => host
       PROVE  HostInv'
  BY <1>15 DEF Inv, IInv, HostInv, Depth, Frame
<1>16. ASSUME NEW d \in Devices, HalAborts(d) \/ HalForgets(d)  PROVE HostInv'
  <2>1. CASE HalForgets(d)  BY <1>0, <1>15, <2>1, HalForgetsEffect
  <2>2. CASE HalAborts(d)
    <3>1. \A e \in Devices : DOMAIN pending'[e] # {} => host
      BY <1>0, <2>2, HalAbortsEffect, EraseFacts
    <3>q. QED  BY <1>15, <2>2, <3>1, HalAbortsEffect
  <2>q. QED  BY <1>16, <2>1, <2>2
<1>17. ASSUME NEW t \in Threads, Step(t)  PROVE HostInv'
  BY <1>1, <1>2, <1>3, <1>4, <1>5, <1>6, <1>7, <1>8, <1>9, <1>10, <1>17 DEF Step
<1>q. QED  BY <1>11, <1>12, <1>13, <1>14, <1>16, <1>17 DEF Next

-----------------------------------------------------------------------------
(* OwnerInv.                                                               *)

LEMMA OwnerKept ==
  ASSUME Inv, OuterKept, owned' = owned, inside' = inside,
         \A d \in Devices : DOMAIN pending'[d] # {} => DOMAIN pending[d] # {} \/ d \in owned
  PROVE  OwnerInv'
<1>1. \A t \in Threads, d \in Devices : Flushes(t, d)' => d \notin owned'
  BY DEF Inv, IInv, OwnerInv, OuterKept
<1>2. ASSUME NEW d \in Devices \ owned', DOMAIN pending'[d] # {}
      PROVE  \E t \in Threads : Flushes(t, d)'
  <2>1. d \in Devices \ owned /\ DOMAIN pending[d] # {}  BY <1>2
  <2>2. PICK t \in Threads : Flushes(t, d)  BY <2>1 DEF Inv, IInv, OwnerInv
  <2>3. Flushes(t, d)'  BY <2>2 DEF OuterKept
  <2>q. QED  BY <2>3
<1>3. ASSUME NEW d \in Devices
      PROVE  inside'[d] = IF Performs(d)' /\ Frame(Hal, 1)'.at = "return" THEN 1 ELSE 0
  <2>1. inside[d] = IF Performs(d) /\ Frame(Hal, 1).at = "return" THEN 1 ELSE 0
    BY DEF Inv, IInv, OwnerInv
  <2>2. CASE Performs(d)  BY <2>1, <2>2 DEF OuterKept, HalKept
  <2>3. CASE ~Performs(d)  BY <2>1, <2>3 DEF OuterKept, HalKept
  <2>q. QED  BY <2>2, <2>3
<1>q. QED  BY <1>1, <1>2, <1>3 DEF OwnerInv

LEMMA OwnerStep ==
  ASSUME Inv, Next
  PROVE  OwnerInv'
<1>0. /\ \A t \in Threads, d \in Devices : Flushes(t, d) => d \notin owned
      /\ \A d \in Devices \ owned : DOMAIN pending[d] # {} => \E t \in Threads : Flushes(t, d)
      /\ \A d \in Devices : inside[d] = IF Performs(d) /\ Frame(Hal, 1).at = "return" THEN 1 ELSE 0
      /\ inside \in [Devices -> Nat]
  BY DEF Inv, IInv, OwnerInv, StateInv
<1>1. ASSUME NEW t \in Threads,
             RunStep(t) \/ RequestEnter(t) \/ RequestInPlace(t) \/ RequestReturn(t)
      PROVE  OwnerInv'
  <2>1. owned' = owned /\ inside' = inside /\ pending' = pending
    BY <1>1, RunStepEffect, RequestEnterEffect, RequestInPlaceEffect, RequestReturnEffect
  <2>q. QED  BY <1>1, <2>1, RequestOuter, OwnerKept
<1>2. ASSUME NEW t \in Threads, RequestEnqueue(t)  PROVE OwnerInv'
  <2>1. /\ owned' = owned /\ inside' = inside /\ Top(t).device \in owned
        /\ Enqueues(Top(t).device, Top(t).change)
        /\ Top(t).device \in Devices /\ Top(t).change \in Changes
    BY <1>2, RequestEnqueueEffect, TopFacts
  <2>2. \A d \in Devices : DOMAIN pending'[d] # {} => DOMAIN pending[d] # {} \/ d \in owned
    BY <2>1, EnqueueFacts
  <2>q. QED  BY <1>2, <2>1, <2>2, RequestOuter, OwnerKept
<1>3. ASSUME NEW t \in Threads, PerformEnter(t)  PROVE OwnerInv'
  <2> DEFINE dev == Top(t).device
  <2>1. /\ owned' = owned /\ pending' = pending /\ dev \in Devices /\ t = Hal
        /\ inside' = [inside EXCEPT ![dev] = @ + 1] /\ Top(t).at = "enter"
    BY <1>3, PerformEnterEffect, TopFacts
  <2> HIDE DEF dev
  <2>2. /\ \A u \in Threads : \A d : Flushes(u, d)' <=> Flushes(u, d)
        /\ \A d : (Performs(d)' <=> d = dev) /\ (Performs(d) <=> d = dev)
        /\ Frame(Hal, 1)'.at = "return" /\ Frame(Hal, 1).at # "return"
    BY <1>3, <2>1, PerformEnterOuter DEF dev
  <2>3. ASSUME NEW d \in Devices
        PROVE  inside'[d] = IF Performs(d)' /\ Frame(Hal, 1)'.at = "return" THEN 1 ELSE 0
    <3>1. inside[d] = 0  BY <1>0, <2>2
    <3>q. QED  BY <1>0, <2>1, <2>2, <3>1
  <2>q. QED  BY <1>0, <2>1, <2>2, <2>3 DEF OwnerInv
<1>4. ASSUME NEW t \in Threads, PerformReturn(t)  PROVE OwnerInv'
  <2> DEFINE dev == Top(t).device
  <2>1. /\ owned' = owned /\ dev \in Devices /\ inside' = [inside EXCEPT ![dev] = @ - 1]
        /\ Erase(dev, Top(t).id)
    BY <1>4, PerformReturnEffect, TopFacts
  <2> HIDE DEF dev
  <2>2. /\ \A u \in Threads : \A d : Flushes(u, d)' <=> Flushes(u, d)
        /\ \A d : ~Performs(d)' /\ (Performs(d) <=> d = dev)
        /\ Frame(Hal, 1).at = "return"
    BY <1>4, PerformReturnOuter DEF dev
  <2>3. \A d \in Devices : DOMAIN pending'[d] \subseteq DOMAIN pending[d]
    BY <2>1, EraseFacts
  <2>4. \A d \in Devices : inside'[d] = 0
    <3>1. ASSUME NEW d \in Devices, d = dev  PROVE inside'[d] = 0
      BY <1>0, <2>1, <2>2, <3>1
    <3>2. ASSUME NEW d \in Devices, d # dev  PROVE inside'[d] = 0
      BY <1>0, <2>1, <2>2, <3>2
    <3>q. QED  BY <3>1, <3>2
  <2>q. QED  BY <1>0, <2>1, <2>2, <2>3, <2>4 DEF OwnerInv
<1>5. ASSUME NEW t \in Threads, AddEnter(t) \/ RemoveEnter(t)  PROVE OwnerInv'
  <2>1. owned' = owned /\ inside' = inside /\ pending' = pending
    BY <1>5, AddEnterEffect, RemoveEnterEffect
  <2>q. QED  BY <1>5, <2>1, MoveOuter, OwnerKept
<1>6. ASSUME NEW t \in Threads, AddAttach(t)  PROVE OwnerInv'
  <2> DEFINE dev == Top(t).device
  <2>1. /\ owned' = owned \union {dev} /\ inside' = inside /\ pending' = pending
        /\ dev \in Devices /\ CanLockDevice(t, dev) /\ ~Idle(t) /\ Depth(t) = 1 /\ Top(t).op = "add"
    BY <1>6, AddAttachEffect
  <2>2. OuterKept  BY <1>6, MoveOuter
  <2>3. ASSUME NEW u \in Threads, NEW d \in Devices, Flushes(u, d)', d = dev  PROVE FALSE
    <3>1. Flushes(u, d)  BY <2>2, <2>3 DEF OuterKept
    <3>2. HoldsDevice(u, dev) /\ Frame(u, 1).op = "remove"  BY <2>3, <3>1, Holders
    <3>3. u = t  BY <2>1, <3>2, Alone
    <3>4. Frame(t, 1) = Top(t)  BY <2>1, TopFacts
    <3>q. QED  BY <2>1, <3>2, <3>3, <3>4
  <2> HIDE DEF dev
  <2>4. \A u \in Threads, d \in Devices : Flushes(u, d)' => d \notin owned'
    BY <1>0, <2>1, <2>2, <2>3 DEF OuterKept
  <2>5. ASSUME NEW d \in Devices \ owned', DOMAIN pending'[d] # {}
        PROVE  \E u \in Threads : Flushes(u, d)'
    <3>1. d \in Devices \ owned /\ DOMAIN pending[d] # {}  BY <2>1, <2>5
    <3>2. PICK u \in Threads : Flushes(u, d)  BY <1>0, <3>1
    <3>3. Flushes(u, d)'  BY <2>2, <3>2 DEF OuterKept
    <3>q. QED  BY <3>3
  <2>6. ASSUME NEW d \in Devices
        PROVE  inside'[d] = IF Performs(d)' /\ Frame(Hal, 1)'.at = "return" THEN 1 ELSE 0
    <3>1. CASE Performs(d)  BY <1>0, <2>1, <2>2, <3>1 DEF OuterKept, HalKept
    <3>2. CASE ~Performs(d)  BY <1>0, <2>1, <2>2, <3>2 DEF OuterKept, HalKept
    <3>q. QED  BY <3>1, <3>2
  <2>q. QED  BY <2>4, <2>5, <2>6 DEF OwnerInv
<1>7. ASSUME NEW t \in Threads, RemoveDetach(t)  PROVE OwnerInv'
  <2> DEFINE dev == Top(t).device
  <2>1. /\ owned' = owned \ {dev} /\ inside' = inside /\ pending' = pending /\ dev \in Devices
    BY <1>7, RemoveDetachEffect
  <2>2. HalKept /\ \A u \in Threads : \A d : Flushes(u, d)' <=> Flushes(u, d) \/ (u = t /\ d = dev)
    BY <1>7, RemoveDetachOuter
  <2> HIDE DEF dev
  <2>3. \A u \in Threads, d \in Devices : Flushes(u, d)' => d \notin owned'
    BY <1>0, <2>1, <2>2
  <2>4. ASSUME NEW d \in Devices \ owned', DOMAIN pending'[d] # {}
        PROVE  \E u \in Threads : Flushes(u, d)'
    BY <1>0, <2>1, <2>2, <2>4
  <2>5. ASSUME NEW d \in Devices
        PROVE  inside'[d] = IF Performs(d)' /\ Frame(Hal, 1)'.at = "return" THEN 1 ELSE 0
    <3>1. CASE Performs(d)  BY <1>0, <2>1, <2>2, <3>1 DEF HalKept
    <3>2. CASE ~Performs(d)  BY <1>0, <2>1, <2>2, <3>2 DEF HalKept
    <3>q. QED  BY <3>1, <3>2
  <2>q. QED  BY <2>3, <2>4, <2>5 DEF OwnerInv
<1>8. ASSUME HalKept, \A u \in Threads : \A d \in Devices : Flushes(u, d)' <=> Flushes(u, d),
             owned' = owned, inside' = inside,
             \A d \in Devices : DOMAIN pending'[d] \subseteq DOMAIN pending[d]
      PROVE  OwnerInv'
  <2>1. \A u \in Threads, d \in Devices : Flushes(u, d)' => d \notin owned'
    BY <1>0, <1>8
  <2>2. ASSUME NEW d \in Devices \ owned', DOMAIN pending'[d] # {}
        PROVE  \E u \in Threads : Flushes(u, d)'
    BY <1>0, <1>8, <2>2
  <2>3. ASSUME NEW d \in Devices
        PROVE  inside'[d] = IF Performs(d)' /\ Frame(Hal, 1)'.at = "return" THEN 1 ELSE 0
    <3>1. CASE Performs(d)  BY <1>0, <1>8, <3>1 DEF HalKept
    <3>2. CASE ~Performs(d)  BY <1>0, <1>8, <3>2 DEF HalKept
    <3>q. QED  BY <3>1, <3>2
  <2>q. QED  BY <2>1, <2>2, <2>3 DEF OwnerInv
<1>9. ASSUME NEW t \in Threads, RemoveFlush(t)  PROVE OwnerInv'
  BY <1>8, <1>9, RemoveFlushEffect, RemoveFlushOuter
<1>10. ASSUME NEW t \in Threads, RemoveErase(t)  PROVE OwnerInv'
  <2>1. owned' = owned /\ inside' = inside /\ Erase(Top(t).device, Top(t).id) /\ Top(t).device \in Devices
    BY <1>10, RemoveEraseEffect
  <2>2. \A d \in Devices : DOMAIN pending'[d] \subseteq DOMAIN pending[d]  BY <2>1, EraseFacts
  <2>q. QED  BY <1>8, <1>10, <2>1, <2>2, RemoveEraseOuter
<1>11. ASSUME NEW t \in Threads, RemoveReturn(t)  PROVE OwnerInv'
  <2> DEFINE dev == Top(t).device
  <2>1. /\ owned' = owned /\ inside' = inside /\ pending' = pending /\ DOMAIN pending[dev] = {}
    BY <1>11, RemoveReturnEffect
  <2>2. /\ HalKept /\ \A d : Flushes(t, d) <=> d = dev
        /\ \A u \in Threads : \A d : Flushes(u, d)' <=> Flushes(u, d) /\ u # t
    BY <1>11, RemoveReturnOuter
  <2> HIDE DEF dev
  <2>3. \A u \in Threads, d \in Devices : Flushes(u, d)' => d \notin owned'
    BY <1>0, <2>1, <2>2
  <2>4. ASSUME NEW d \in Devices \ owned', DOMAIN pending'[d] # {}
        PROVE  \E u \in Threads : Flushes(u, d)'
    <3>1. d # dev  BY <2>1, <2>4
    <3>q. QED  BY <1>0, <2>1, <2>2, <2>4, <3>1
  <2>5. ASSUME NEW d \in Devices
        PROVE  inside'[d] = IF Performs(d)' /\ Frame(Hal, 1)'.at = "return" THEN 1 ELSE 0
    <3>1. CASE Performs(d)  BY <1>0, <2>1, <2>2, <3>1 DEF HalKept
    <3>2. CASE ~Performs(d)  BY <1>0, <2>1, <2>2, <3>2 DEF HalKept
    <3>q. QED  BY <3>1, <3>2
  <2>q. QED  BY <2>3, <2>4, <2>5 DEF OwnerInv
<1>12. ASSUME NEW t \in Users, NEW c \in Changes, UserRequests(t, c)  PROVE OwnerInv'
  BY <1>12, UserRequestsEffect, BeginOuter, OwnerKept
<1>13. ASSUME NEW t \in Users, NEW d \in Devices, UserMoves(t, d)  PROVE OwnerInv'
  BY <1>13, UserMovesEffect, BeginOuter, OwnerKept
<1>14. ASSUME HalConnects  PROVE OwnerInv'
  BY <1>14, HalConnectsEffect, OuterSame, OwnerKept
<1>15. ASSUME NEW d \in Devices, HalPerforms(d)  PROVE OwnerInv'
  <2>1. owned' = owned /\ inside' = inside /\ pending' = pending  BY <1>15, HalPerformsEffect
  <2>2. \A u \in Threads : \A e : Flushes(u, e)' <=> Flushes(u, e)
    BY <1>15, HalPerformsOuter
  <2>4. \A e : ~Performs(e)  BY <1>15, HalPerformsOuter
  <2>3. Frame(Hal, 1)'.at # "return"
    <3>1. Frame(Hal, 1)'.at = "enter"  BY <1>15, HalPerformsOuter
    <3>q. QED  BY <3>1
  <2>q. QED  BY <1>0, <2>1, <2>2, <2>3, <2>4 DEF OwnerInv
<1>16. ASSUME NEW d \in Devices, HalAborts(d)  PROVE OwnerInv'
  <2>1. \A e \in Devices : DOMAIN pending'[e] \subseteq DOMAIN pending[e]
    BY <1>16, HalAbortsEffect, EraseFacts
  <2>q. QED  BY <1>16, <2>1, HalAbortsEffect, OuterSame, OwnerKept
<1>17. ASSUME NEW d \in Devices, HalForgets(d)  PROVE OwnerInv'
  BY <1>17, HalForgetsEffect, OuterSame, OwnerKept
<1>18. ASSUME NEW t \in Threads, Step(t)  PROVE OwnerInv'
  BY <1>1, <1>2, <1>3, <1>4, <1>5, <1>6, <1>7, <1>9, <1>10, <1>11, <1>18 DEF Step
<1>q. QED  BY <1>12, <1>13, <1>14, <1>15, <1>16, <1>17, <1>18 DEF Next

-----------------------------------------------------------------------------
(* QueueInv.                                                               *)

(* The Hal may have ended a call, but of a change that is not stored.      *)
LEMMA QueueKept ==
  ASSUME Inv, queue' = queue, nextID' = nextID,
         \A d \in Devices : Performs(d)' => Performs(d) /\ Frame(Hal, 1)'.id = Frame(Hal, 1).id,
         \A d \in Devices : \A id \in DOMAIN pending'[d] :
           /\ id \in DOMAIN pending[d]
           /\ Performs(d) /\ Frame(Hal, 1).id = id => Performs(d)',
         \A d \in Devices : d \in owned' => d \in owned \/ DOMAIN pending[d] = {}
  PROVE  QueueInv'
<1>1. ASSUME NEW d \in Devices
      PROVE  /\ \A i \in DOMAIN queue'[d] :
                  /\ queue'[d][i] < nextID'[d]
                  /\ \A j \in DOMAIN queue'[d] : i < j => queue'[d][i] < queue'[d][j]
                  /\ Performs(d)' => Frame(Hal, 1)'.id < queue'[d][i]
             /\ Performs(d)' => Frame(Hal, 1)'.id < nextID'[d]
  BY DEF Inv, IInv, QueueInv
<1>2. ASSUME NEW d \in Devices, d \in owned', NEW id \in DOMAIN pending'[d]
      PROVE  \/ \E i \in DOMAIN queue'[d] : queue'[d][i] = id
             \/ Performs(d)' /\ Frame(Hal, 1)'.id = id
  <2>1. d \in owned /\ id \in DOMAIN pending[d]  BY <1>2
  <2>2. \/ \E i \in DOMAIN queue[d] : queue[d][i] = id
        \/ Performs(d) /\ Frame(Hal, 1).id = id
    BY <2>1 DEF Inv, IInv, QueueInv
  <2>3. Performs(d) /\ Frame(Hal, 1).id = id => Performs(d)' /\ Frame(Hal, 1)'.id = id
    BY <1>2
  <2>q. QED  BY <2>2, <2>3
<1>q. QED  BY <1>1, <1>2 DEF QueueInv

LEMMA QueueHalKept ==
  ASSUME Inv, HalKept, queue' = queue, nextID' = nextID,
         \A d \in Devices : DOMAIN pending'[d] \subseteq DOMAIN pending[d],
         \A d \in Devices : d \in owned' => d \in owned \/ DOMAIN pending[d] = {}
  PROVE  QueueInv'
<1>1. \A d \in Devices : /\ Performs(d)' => Performs(d) /\ Frame(Hal, 1)'.id = Frame(Hal, 1).id
                         /\ Performs(d) => Performs(d)'
  BY DEF HalKept
<1>q. QED  BY <1>1, QueueKept

(* The HAL has answered the first request of device d.                     *)
LEMMA QueueTail ==
  ASSUME Inv, NEW d \in Devices, queue[d] # <<>>, queue' = [queue EXCEPT ![d] = Tail(@)]
  PROVE  /\ \A e \in Devices \ {d} : queue'[e] = queue[e]
         /\ Head(queue[d]) = queue[d][1] /\ 1 \in DOMAIN queue[d]
         /\ \A i \in DOMAIN queue'[d] :
              /\ i + 1 \in DOMAIN queue[d] /\ 1 < i + 1 /\ queue'[d][i] = queue[d][i + 1]
              /\ \A j \in DOMAIN queue'[d] : i < j <=> i + 1 < j + 1
         /\ \A i \in DOMAIN queue[d] : i # 1 => i - 1 \in DOMAIN queue'[d] /\ queue'[d][i - 1] = queue[d][i]
<1>1. queue[d] \in Seq(Nat) /\ queue'[d] = Tail(queue[d]) /\ \A e \in Devices \ {d} : queue'[e] = queue[e]
  BY DEF Inv, IInv, StateInv
<1>2. \A s \in Seq(Nat) : s # <<>> =>
        /\ Head(s) = s[1] /\ 1 \in DOMAIN s
        /\ \A i \in DOMAIN Tail(s) :
             /\ i + 1 \in DOMAIN s /\ 1 < i + 1 /\ Tail(s)[i] = s[i + 1]
             /\ \A j \in DOMAIN Tail(s) : i < j <=> i + 1 < j + 1
        /\ \A i \in DOMAIN s : i # 1 => i - 1 \in DOMAIN Tail(s) /\ Tail(s)[i - 1] = s[i]
  BY TailFacts
<1>3. PICK s \in Seq(Nat) : s = queue[d] /\ s # <<>>  BY <1>1
<1>4. PICK r : r = Tail(s)  OBVIOUS
<1>5. queue'[d] = r  BY <1>1, <1>3, <1>4
<1>6. /\ Head(s) = s[1] /\ 1 \in DOMAIN s
      /\ \A i \in DOMAIN r :
             /\ i + 1 \in DOMAIN s /\ 1 < i + 1 /\ r[i] = s[i + 1]
             /\ \A j \in DOMAIN r : i < j <=> i + 1 < j + 1
      /\ \A i \in DOMAIN s : i # 1 => i - 1 \in DOMAIN r /\ r[i - 1] = s[i]
  BY <1>2, <1>3, <1>4
<1>q. QED  BY <1>1, <1>3, <1>5, <1>6, ZenonT(40)

(* Requests are answered in order, whether performed, aborted or forgotten.*)
LEMMA QueueAnswered ==
  ASSUME Inv, NEW d \in Devices, queue[d] # <<>>, queue' = [queue EXCEPT ![d] = Tail(@)],
         nextID' = nextID, owned' = owned,
         \A e \in Devices : DOMAIN pending'[e] \subseteq DOMAIN pending[e],
         \A e \in Devices \ {d} :
           (Performs(e)' <=> Performs(e)) /\ (Performs(e) => Frame(Hal, 1)' = Frame(Hal, 1)),
         \/ /\ ~Performs(d) /\ Performs(d)' /\ Frame(Hal, 1)'.id = Head(queue[d])
         \/ /\ (Performs(d)' <=> Performs(d)) /\ (Performs(d) => Frame(Hal, 1)' = Frame(Hal, 1))
            /\ d \notin owned \/ Head(queue[d]) \notin DOMAIN pending'[d]
  PROVE  QueueInv'
<1>1. /\ \A e \in Devices \ {d} : queue'[e] = queue[e]
      /\ Head(queue[d]) = queue[d][1] /\ 1 \in DOMAIN queue[d]
      /\ \A i \in DOMAIN queue'[d] :
              /\ i + 1 \in DOMAIN queue[d] /\ 1 < i + 1 /\ queue'[d][i] = queue[d][i + 1]
              /\ \A j \in DOMAIN queue'[d] : i < j <=> i + 1 < j + 1
      /\ \A i \in DOMAIN queue[d] : i # 1 => i - 1 \in DOMAIN queue'[d] /\ queue'[d][i - 1] = queue[d][i]
  BY QueueTail
<1>2. ASSUME NEW e \in Devices, e # d
      PROVE  /\ \A i \in DOMAIN queue'[e] :
                  /\ queue'[e][i] < nextID'[e]
                  /\ \A j \in DOMAIN queue'[e] : i < j => queue'[e][i] < queue'[e][j]
                  /\ Performs(e)' => Frame(Hal, 1)'.id < queue'[e][i]
             /\ Performs(e)' => Frame(Hal, 1)'.id < nextID'[e]
             /\ e \in owned' => \A id \in DOMAIN pending'[e] :
                 \/ \E i \in DOMAIN queue'[e] : queue'[e][i] = id
                 \/ Performs(e)' /\ Frame(Hal, 1)'.id = id
  <2>1. /\ queue'[e] = queue[e] /\ nextID'[e] = nextID[e] /\ (e \in owned' <=> e \in owned)
        /\ DOMAIN pending'[e] \subseteq DOMAIN pending[e]
    BY <1>1, <1>2
  <2>2. (Performs(e)' <=> Performs(e)) /\ (Performs(e) => Frame(Hal, 1)' = Frame(Hal, 1))
    BY <1>2
  <2>3. /\ \A i \in DOMAIN queue[e] :
                  /\ queue[e][i] < nextID[e]
                  /\ \A j \in DOMAIN queue[e] : i < j => queue[e][i] < queue[e][j]
                  /\ Performs(e) => Frame(Hal, 1).id < queue[e][i]
        /\ Performs(e) => Frame(Hal, 1).id < nextID[e]
        /\ e \in owned => \A id \in DOMAIN pending[e] :
             \/ \E i \in DOMAIN queue[e] : queue[e][i] = id
             \/ Performs(e) /\ Frame(Hal, 1).id = id
    BY DEF Inv, IInv, QueueInv
  <2>q. QED  BY <2>1, <2>2, <2>3
<1>3. ASSUME NEW i \in DOMAIN queue'[d]
      PROVE  /\ queue'[d][i] < nextID'[d]
             /\ \A j \in DOMAIN queue'[d] : i < j => queue'[d][i] < queue'[d][j]
             /\ Head(queue[d]) < queue'[d][i]
  BY <1>1 DEF Inv, IInv, QueueInv
<1>4. Head(queue[d]) < nextID[d]  BY <1>1 DEF Inv, IInv, QueueInv
<1>5. Performs(d)' => /\ Frame(Hal, 1)'.id < nextID'[d]
                      /\ \A i \in DOMAIN queue'[d] : Frame(Hal, 1)'.id < queue'[d][i]
  <2>1. CASE ~Performs(d) /\ Frame(Hal, 1)'.id = Head(queue[d])  BY <1>3, <1>4, <2>1
  <2>2. CASE Performs(d) /\ Frame(Hal, 1)' = Frame(Hal, 1)
    BY <1>1, <2>2 DEF Inv, IInv, QueueInv
  <2>q. QED  BY <2>1, <2>2
<1>6. ASSUME d \in owned', NEW id \in DOMAIN pending'[d]
      PROVE  \/ \E i \in DOMAIN queue'[d] : queue'[d][i] = id
             \/ Performs(d)' /\ Frame(Hal, 1)'.id = id
  <2>1. d \in owned /\ id \in DOMAIN pending[d]  BY <1>6
  <2>2. CASE \E i \in DOMAIN queue[d] : queue[d][i] = id
    <3>1. PICK i \in DOMAIN queue[d] : queue[d][i] = id  BY <2>2
    <3>2. CASE i = 1
      <4>1. id = Head(queue[d])  BY <1>1, <3>1, <3>2
      <4>q. QED  BY <1>6, <2>1, <4>1
    <3>3. CASE i # 1  BY <1>1, <3>1, <3>3
    <3>q. QED  BY <3>2, <3>3
  <2>3. CASE Performs(d) /\ Frame(Hal, 1).id = id  BY <2>3
  <2>q. QED  BY <2>1, <2>2, <2>3 DEF Inv, IInv, QueueInv
<1>q. QED  BY <1>2, <1>3, <1>5, <1>6 DEF QueueInv

LEMMA QueueEnqueued ==
  ASSUME Inv, NEW t \in Threads, RequestEnqueue(t)
  PROVE  QueueInv'
<1>0. PICK d : d = Top(t).device  OBVIOUS
<1>1. /\ d \in Devices /\ Top(t).change \in Changes /\ Enqueues(d, Top(t).change)
      /\ nextID' = [nextID EXCEPT ![d] = @ + 1]
      /\ queue' = [queue EXCEPT ![d] = Append(@, nextID[d])]
      /\ owned' = owned
  BY <1>0, RequestEnqueueEffect, TopFacts
<1>2. HalKept  BY RequestOuter DEF OuterKept
<1>3. /\ queue[d] \in Seq(Nat) /\ nextID[d] \in Nat /\ nextID'[d] = nextID[d] + 1
      /\ queue'[d] = Append(queue[d], nextID[d])
      /\ \A e \in Devices \ {d} : queue'[e] = queue[e] /\ nextID'[e] = nextID[e]
  BY <1>1 DEF Inv, IInv, StateInv
<1>4. /\ Len(queue[d]) \in Nat
      /\ DOMAIN queue[d] = 1 .. Len(queue[d]) /\ DOMAIN queue'[d] = 1 .. Len(queue[d]) + 1
      /\ \A i \in 1 .. Len(queue[d]) :
           queue'[d][i] = queue[d][i] /\ queue[d][i] \in Nat /\ i # Len(queue[d]) + 1
      /\ \A i : i = Len(queue[d]) + 1 => queue'[d][i] = nextID[d]
  BY <1>3, Appended, ElementOfSeq
<1>5. /\ \A e \in Devices \ {d} : pending'[e] = pending[e]
      /\ DOMAIN pending'[d] = DOMAIN pending[d] \union {nextID[d]}
  BY <1>1, EnqueueFacts
<1>6. ASSUME NEW e \in Devices, e # d
      PROVE  /\ \A i \in DOMAIN queue'[e] :
                  /\ queue'[e][i] < nextID'[e]
                  /\ \A j \in DOMAIN queue'[e] : i < j => queue'[e][i] < queue'[e][j]
                  /\ Performs(e)' => Frame(Hal, 1)'.id < queue'[e][i]
             /\ Performs(e)' => Frame(Hal, 1)'.id < nextID'[e]
             /\ e \in owned' => \A id \in DOMAIN pending'[e] :
                 \/ \E i \in DOMAIN queue'[e] : queue'[e][i] = id
                 \/ Performs(e)' /\ Frame(Hal, 1)'.id = id
  <2>1. /\ queue'[e] = queue[e] /\ nextID'[e] = nextID[e] /\ pending'[e] = pending[e]
    BY <1>3, <1>5, <1>6
  <2>2. (Performs(e)' <=> Performs(e)) /\ (Performs(e) => Frame(Hal, 1)' = Frame(Hal, 1))
    BY <1>2 DEF HalKept
  <2>3. /\ \A i \in DOMAIN queue[e] :
                  /\ queue[e][i] < nextID[e]
                  /\ \A j \in DOMAIN queue[e] : i < j => queue[e][i] < queue[e][j]
                  /\ Performs(e) => Frame(Hal, 1).id < queue[e][i]
        /\ Performs(e) => Frame(Hal, 1).id < nextID[e]
        /\ e \in owned => \A id \in DOMAIN pending[e] :
             \/ \E i \in DOMAIN queue[e] : queue[e][i] = id
             \/ Performs(e) /\ Frame(Hal, 1).id = id
    BY DEF Inv, IInv, QueueInv
  <2>q. QED  BY <1>1, <2>1, <2>2, <2>3
<1>7. /\ \A i \in DOMAIN queue[d] :
           /\ queue[d][i] < nextID[d]
           /\ \A j \in DOMAIN queue[d] : i < j => queue[d][i] < queue[d][j]
           /\ Performs(d) => Frame(Hal, 1).id < queue[d][i]
      /\ Performs(d) => Frame(Hal, 1).id < nextID[d] /\ Frame(Hal, 1).id \in Nat
      /\ d \in owned => \A id \in DOMAIN pending[d] :
           (\E i \in DOMAIN queue[d] : queue[d][i] = id) \/ (Performs(d) /\ Frame(Hal, 1).id = id)
  <2>1. Performs(d) => Frame(Hal, 1).id \in Nat
    <3>1. Performs(d) => Hal \in Threads /\ ~Idle(Hal)  BY DEF Performs, Threads
    <3>2. \A f \in Frames : f.id \in Nat  BY DEF Frames
    <3>q. QED  BY <3>1, <3>2, FirstFacts
  <2>q. QED  BY <1>1, <2>1 DEF Inv, IInv, QueueInv
<1>8. ASSUME NEW i \in DOMAIN queue'[d]
      PROVE  /\ queue'[d][i] < nextID'[d]
             /\ \A j \in DOMAIN queue'[d] : i < j => queue'[d][i] < queue'[d][j]
             /\ Performs(d)' => Frame(Hal, 1)'.id < queue'[d][i]
  <2>1. (Performs(d)' <=> Performs(d)) /\ (Performs(d) => Frame(Hal, 1)' = Frame(Hal, 1))
    BY <1>2 DEF HalKept
  <2>2. CASE i \in 1 .. Len(queue[d])
    <3>1. queue'[d][i] = queue[d][i] /\ queue[d][i] < nextID[d] /\ queue[d][i] \in Nat
          /\ i \in DOMAIN queue[d]
      BY <1>4, <1>7, <2>2
    <3>2. ASSUME NEW j \in DOMAIN queue'[d], i < j  PROVE queue'[d][i] < queue'[d][j]
      <4>1. CASE j \in 1 .. Len(queue[d])  BY <1>4, <1>7, <2>2, <3>1, <3>2, <4>1
      <4>2. CASE j = Len(queue[d]) + 1  BY <1>4, <3>1, <4>2
      <4>q. QED  BY <1>4, <4>1, <4>2
    <3>3. queue'[d][i] < nextID'[d]  BY <1>3, <3>1
    <3>q. QED  BY <1>7, <2>1, <3>1, <3>2, <3>3
  <2>3. CASE i = Len(queue[d]) + 1
    <3>1. queue'[d][i] = nextID[d] /\ nextID[d] < nextID'[d]  BY <1>3, <1>4, <2>3
    <3>2. \A j \in DOMAIN queue'[d] : ~(i < j)  BY <1>4, <2>3
    <3>q. QED  BY <1>7, <2>1, <3>1, <3>2
  <2>q. QED  BY <1>4, <2>2, <2>3
<1>9. Performs(d)' => Frame(Hal, 1)'.id < nextID'[d]
  BY <1>2, <1>3, <1>7 DEF HalKept
<1>10. ASSUME d \in owned', NEW id \in DOMAIN pending'[d]
       PROVE  \/ \E i \in DOMAIN queue'[d] : queue'[d][i] = id
              \/ Performs(d)' /\ Frame(Hal, 1)'.id = id
  <2>1. CASE id = nextID[d]
    <3>1. Len(queue[d]) + 1 \in DOMAIN queue'[d]  BY <1>4
    <3>q. QED  BY <1>4, <2>1, <3>1
  <2>2. CASE id \in DOMAIN pending[d]
    <3>1. \A i \in DOMAIN queue[d] : i \in DOMAIN queue'[d]  BY <1>4
    <3>2. \/ \E i \in DOMAIN queue[d] : queue[d][i] = id
          \/ Performs(d) /\ Frame(Hal, 1).id = id
      BY <1>1, <1>7, <1>10, <2>2
    <3>3. CASE \E i \in DOMAIN queue[d] : queue[d][i] = id  BY <1>4, <3>1, <3>3
    <3>4. CASE Performs(d) /\ Frame(Hal, 1).id = id  BY <1>2, <3>4 DEF HalKept
    <3>q. QED  BY <3>2, <3>3, <3>4
  <2>q. QED  BY <1>5, <1>10, <2>1, <2>2
<1>q. QED  BY <1>6, <1>8, <1>9, <1>10 DEF QueueInv

LEMMA QueueStep ==
  ASSUME Inv, Next
  PROVE  QueueInv'
<1>1. ASSUME NEW t \in Threads,
             RunStep(t) \/ RequestEnter(t) \/ RequestInPlace(t) \/ RequestReturn(t)
      PROVE  QueueInv'
  <2>1. owned' = owned /\ queue' = queue /\ nextID' = nextID /\ pending' = pending
    BY <1>1, RunStepEffect, RequestEnterEffect, RequestInPlaceEffect, RequestReturnEffect
  <2>q. QED  BY <1>1, <2>1, RequestOuter, QueueHalKept DEF OuterKept
<1>2. ASSUME NEW t \in Threads, PerformEnter(t)  PROVE QueueInv'
  <2>1. owned' = owned /\ queue' = queue /\ nextID' = nextID /\ pending' = pending
    BY <1>2, PerformEnterEffect
  <2>2. /\ \A d : Performs(d)' <=> Performs(d)
        /\ Frame(Hal, 1)'.id = Frame(Hal, 1).id
    BY <1>2, PerformEnterOuter
  <2>q. QED  BY <2>1, <2>2, QueueKept
<1>3. ASSUME NEW t \in Threads, PerformReturn(t)  PROVE QueueInv'
  <2>1. /\ owned' = owned /\ queue' = queue /\ nextID' = nextID /\ Top(t).device \in Devices
        /\ Erase(Top(t).device, Top(t).id)
    BY <1>3, PerformReturnEffect, TopFacts
  <2>2. /\ \A d : ~Performs(d)' /\ (Performs(d) <=> d = Top(t).device)
        /\ Frame(Hal, 1) = Top(t)
    BY <1>3, PerformReturnOuter
  <2>3. ASSUME NEW d \in Devices, NEW id \in DOMAIN pending'[d]
        PROVE  /\ id \in DOMAIN pending[d]
               /\ Performs(d) /\ Frame(Hal, 1).id = id => Performs(d)'
    BY <2>1, <2>2, EraseFacts
  <2>q. QED  BY <2>1, <2>2, <2>3, QueueKept
<1>4. ASSUME NEW t \in Threads, AddEnter(t) \/ RemoveEnter(t)  PROVE QueueInv'
  <2>1. owned' = owned /\ queue' = queue /\ nextID' = nextID /\ pending' = pending
    BY <1>4, AddEnterEffect, RemoveEnterEffect
  <2>q. QED  BY <1>4, <2>1, MoveOuter, QueueHalKept DEF OuterKept
<1>5. ASSUME NEW t \in Threads, AddAttach(t)  PROVE QueueInv'
  <2> DEFINE dev == Top(t).device
  <2>1. /\ owned' = owned \union {dev} /\ queue' = queue /\ nextID' = nextID
        /\ pending' = pending /\ dev \in Devices /\ CanLockDevice(t, dev) /\ ~Idle(t)
        /\ Depth(t) = 1 /\ Top(t).op = "add"
    BY <1>5, AddAttachEffect
  <2>2. dev \in owned \/ DOMAIN pending[dev] = {}
    <3>1. ASSUME dev \notin owned, DOMAIN pending[dev] # {}  PROVE FALSE
      <4>1. PICK u \in Threads : Flushes(u, dev)  BY <2>1, <3>1 DEF Inv, IInv, OwnerInv
      <4>2. HoldsDevice(u, dev) /\ Frame(u, 1).op = "remove"  BY <4>1, Holders
      <4>3. u = t  BY <2>1, <4>2, Alone
      <4>4. Frame(t, 1) = Top(t)  BY <2>1, TopFacts
      <4>q. QED  BY <2>1, <4>2, <4>3, <4>4
    <3>q. QED  BY <3>1
  <2> HIDE DEF dev
  <2>3. \A d \in Devices : d \in owned' => d \in owned \/ DOMAIN pending[d] = {}
    BY <2>1, <2>2
  <2>q. QED  BY <1>5, <2>1, <2>3, MoveOuter, QueueHalKept DEF OuterKept
<1>6. ASSUME NEW t \in Threads, RemoveDetach(t) \/ RemoveFlush(t) \/ RemoveReturn(t)
      PROVE  QueueInv'
  <2>1. owned' \subseteq owned /\ queue' = queue /\ nextID' = nextID /\ pending' = pending
    BY <1>6, RemoveDetachEffect, RemoveFlushEffect, RemoveReturnEffect
  <2>2. HalKept  BY <1>6, RemoveDetachOuter, RemoveFlushOuter, RemoveReturnOuter
  <2>q. QED  BY <2>1, <2>2, QueueHalKept
<1>7. ASSUME NEW t \in Threads, RemoveErase(t)  PROVE QueueInv'
  <2>1. /\ owned' = owned /\ queue' = queue /\ nextID' = nextID
        /\ \A d \in Devices : DOMAIN pending'[d] \subseteq DOMAIN pending[d]
    BY <1>7, RemoveEraseEffect, EraseFacts
  <2>2. HalKept  BY <1>7, RemoveEraseOuter
  <2>q. QED  BY <2>1, <2>2, QueueHalKept
<1>8. ASSUME NEW t \in Users,
             (\E c \in Changes : UserRequests(t, c)) \/ (\E d \in Devices : UserMoves(t, d))
      PROVE  QueueInv'
  <2>1. owned' = owned /\ queue' = queue /\ nextID' = nextID /\ pending' = pending
    BY <1>8, UserRequestsEffect, UserMovesEffect
  <2>2. HalKept  BY <1>8, BeginOuter DEF OuterKept
  <2>q. QED  BY <2>1, <2>2, QueueHalKept
<1>9. ASSUME HalConnects  PROVE QueueInv'
  BY <1>9, HalConnectsEffect, OuterSame, QueueHalKept DEF OuterKept
<1>10. ASSUME NEW d \in Devices, HalPerforms(d)  PROVE QueueInv'
  <2>1. /\ queue[d] # <<>> /\ queue' = [queue EXCEPT ![d] = Tail(@)]
        /\ owned' = owned /\ nextID' = nextID /\ pending' = pending
    BY <1>10, HalPerformsEffect
  <2>2. /\ \A e : ~Performs(e) /\ (Performs(e)' <=> e = d)
        /\ Frame(Hal, 1)'.id = Head(queue[d])
    BY <1>10, HalPerformsOuter
  <2>q. QED  BY <2>1, <2>2, QueueAnswered
<1>11. ASSUME NEW d \in Devices, HalAborts(d) \/ HalForgets(d)  PROVE QueueInv'
  <2>1. /\ queue[d] # <<>> /\ queue' = [queue EXCEPT ![d] = Tail(@)]
        /\ owned' = owned /\ nextID' = nextID /\ stack' = stack
    BY <1>11, HalAbortsEffect, HalForgetsEffect
  <2>2. HalKept  BY <2>1, OuterSame DEF OuterKept
  <2>3. CASE HalForgets(d)
    <3>1. pending' = pending /\ d \notin owned  BY <2>3, HalForgetsEffect
    <3>q. QED  BY <2>1, <2>2, <3>1, QueueAnswered DEF HalKept
  <2>4. CASE HalAborts(d)
    <3>1. Erase(d, Head(queue[d]))  BY <2>4, HalAbortsEffect
    <3>2. /\ \A e \in Devices : DOMAIN pending'[e] \subseteq DOMAIN pending[e]
          /\ Head(queue[d]) \notin DOMAIN pending'[d]
      BY <3>1, EraseFacts
    <3>q. QED  BY <2>1, <2>2, <3>2, QueueAnswered DEF HalKept
  <2>q. QED  BY <1>11, <2>3, <2>4
<1>12. ASSUME NEW t \in Threads, Step(t)  PROVE QueueInv'
  BY <1>1, <1>2, <1>3, <1>4, <1>5, <1>6, <1>7, <1>12, QueueEnqueued DEF Step
<1>q. QED  BY <1>8, <1>9, <1>10, <1>11, <1>12 DEF Next

-----------------------------------------------------------------------------
(* Which change a thread decides about.                                    *)

LEMMA TopNext ==
  ASSUME NEW t \in Threads, stack'[t] \in Seq(Frames)
  PROVE  /\ Depth(t)' \in Nat /\ (Idle(t)' <=> Depth(t)' = 0)
         /\ \A p : p = Depth(t)' /\ p # 0 => Top(t)' = Frame(t, p)'
<1>1. PICK s \in Seq(Frames) : s = stack'[t]  OBVIOUS
<1>2. Len(s) \in Nat /\ (s = <<>> <=> Len(s) = 0)  BY EmptySeq, LenProperties
<1>3. Len(s) # 0 => Head(s) = s[1] /\ Len(s) + 1 - Len(s) = 1
  BY <1>2, HeadTailProperties
<1>q. QED  BY <1>1, <1>2, <1>3 DEF Depth, Idle, Top, Frame

LEMMA TopWent ==
  ASSUME Inv, NEW t \in Threads, NEW f, Went(t, f)
  PROVE  ~Idle(t)' /\ Top(t)' = f
<1>1. /\ stack'[t] \in Seq(Frames) /\ Depth(t)' = Depth(t) /\ Depth(t) \in Nat \ {0}
      /\ Depth(t) \in 1 .. Depth(t)
  BY StackFacts DEF Went
<1>2. ~Idle(t)'  BY <1>1, TopNext
<1>3. PICK n : n = Depth(t)  OBVIOUS
<1>4. Frame(t, n)' = f  BY <1>1, <1>3 DEF Went
<1>5. n = Depth(t)' /\ n # 0  BY <1>1, <1>3
<1>q. QED  BY <1>1, <1>2, <1>4, <1>5, TopNext

LEMMA TopCalled ==
  ASSUME Inv, NEW t \in Threads, NEW f, NEW c, Called(t, f, c)
  PROVE  ~Idle(t)' /\ Top(t)' = c
<1>1. stack'[t] \in Seq(Frames) /\ Depth(t)' = Depth(t) + 1 /\ Depth(t) \in Nat
  BY StackFacts DEF Called
<1>2. PICK n : n = Depth(t) + 1  OBVIOUS
<1>3. Frame(t, n)' = c /\ n # 0 /\ n = Depth(t)'  BY <1>1, <1>2 DEF Called
<1>q. QED  BY <1>1, <1>3, TopNext

LEMMA TopReturned ==
  ASSUME Inv, NEW t \in Threads, Returned(t)
  PROVE  Idle(t)' \/ Waiting(Top(t)')
<1>1. stack'[t] \in Seq(Frames) /\ Depth(t)' = Depth(t) - 1 /\ Depth(t) \in Nat \ {0}
  BY StackFacts DEF Returned
<1>2. PICK n : n = Depth(t) - 1  OBVIOUS
<1>3. CASE n = 0  BY <1>1, <1>2, <1>3, TopNext
<1>4. CASE n # 0
  <2>1. n \in 1 .. Depth(t) - 1 /\ n \in 1 .. Depth(t) /\ n # Depth(t)  BY <1>1, <1>2, <1>4
  <2>2. Frame(t, n)' = Frame(t, n) /\ Waiting(Frame(t, n))  BY <2>1, Below DEF Returned
  <2>3. Top(t)' = Frame(t, n)'  BY <1>1, <1>2, <1>4, TopNext
  <2>q. QED  BY <2>2, <2>3
<1>q. QED  BY <1>3, <1>4

LEMMA TopBegan ==
  ASSUME Inv, NEW t \in Threads, NEW c, Began(t, c)
  PROVE  ~Idle(t)' /\ Top(t)' = c
<1>1. stack'[t] \in Seq(Frames) /\ Depth(t)' = 1 /\ Frame(t, 1)' = c  BY DEF Began
<1>q. QED  BY <1>1, TopNext

DecidingKept == \A u \in Threads : \A c : Deciding(u, c)' <=> Deciding(u, c)

LEMMA DecidingApart ==
  ASSUME NEW t \in Threads, Others(t), \A c : ~Deciding(t, c), \A c : ~Deciding(t, c)'
  PROVE  DecidingKept
BY Apart DEF DecidingKept

(* A thread that is at another place decides about no change.              *)
LEMMA Undecided ==
  ASSUME Inv, NEW t \in Threads,
         Idle(t) \/ Top(t).op # "request" \/ Top(t).at # "decide",
         \/ Returned(t)
         \/ \E f : Went(t, f) /\ (f.op # "request" \/ f.at # "decide")
         \/ \E f, c : Called(t, f, c) /\ c.at = "enter"
         \/ \E c : Began(t, c) /\ c.at = "enter"
  PROVE  DecidingKept
<1>1. Others(t)  BY DEF Went, Called, Returned, Began
<1>2. \A c : ~Deciding(t, c)  BY DEF Deciding
<1>3. CASE Returned(t)
  <2>1. \A c : ~Deciding(t, c)'  BY <1>3, TopReturned DEF Deciding, Waiting
  <2>q. QED  BY <1>1, <1>2, <2>1, DecidingApart
<1>4. CASE \E f : Went(t, f) /\ (f.op # "request" \/ f.at # "decide")
  <2>1. \A c : ~Deciding(t, c)'  BY <1>4, TopWent DEF Deciding
  <2>q. QED  BY <1>1, <1>2, <2>1, DecidingApart
<1>5. CASE \E f, c : Called(t, f, c) /\ c.at = "enter"
  <2>1. \A c : ~Deciding(t, c)'  BY <1>5, TopCalled DEF Deciding
  <2>q. QED  BY <1>1, <1>2, <2>1, DecidingApart
<1>6. CASE \E c : Began(t, c) /\ c.at = "enter"
  <2>1. \A c : ~Deciding(t, c)'  BY <1>6, TopBegan DEF Deciding
  <2>q. QED  BY <1>1, <1>2, <2>1, DecidingApart
<1>q. QED  BY <1>3, <1>4, <1>5, <1>6

LEMMA DecidingRequest ==
  ASSUME Inv, NEW t \in Threads
  PROVE  /\ RunStep(t) \/ RequestReturn(t) => DecidingKept
         /\ RequestEnter(t) =>
              /\ \A c : ~Deciding(t, c)
              /\ \A u \in Threads : \A c :
                   Deciding(u, c)' <=> Deciding(u, c) \/ (u = t /\ c = Top(t).change)
         /\ RequestEnqueue(t) \/ RequestInPlace(t) =>
              /\ \A c : Deciding(t, c) <=> c = Top(t).change
              /\ \A u \in Threads : \A c : Deciding(u, c)' <=> Deciding(u, c) /\ u # t
<1>1. CASE RunStep(t)
  <2>1. Top(t).op # "request"  BY <1>1, RunStepEffect
  <2>2. Returned(t) \/ \E f, c : Called(t, f, c) /\ c.at = "enter"
    BY <1>1, RunStepEffect, ChangeCalls
  <2>q. QED  BY <2>1, <2>2, Undecided DEF RunStep, RequestEnter, RequestEnqueue, RequestInPlace, At
<1>2. CASE RequestReturn(t)
  <2>1. Top(t).at = "return" /\ Returned(t)  BY <1>2, RequestReturnEffect
  <2>q. QED  BY <2>1, Undecided DEF RunStep, RequestEnter, RequestEnqueue, RequestInPlace, At
<1>3. ASSUME RequestEnter(t)
      PROVE  /\ \A c : ~Deciding(t, c)
             /\ \A u \in Threads : \A c :
                  Deciding(u, c)' <=> Deciding(u, c) \/ (u = t /\ c = Top(t).change)
  <2>1. PICK g \in Frames : Moved(Top(t), g, "decide") /\ Went(t, g)  BY <1>3, RequestEnterEffect
  <2>2. Top(t).op = "request" /\ Top(t).at = "enter"  BY <1>3, RequestEnterEffect
  <2>3. Others(t) /\ \A c : ~Deciding(t, c)  BY <2>1, <2>2 DEF Went, Deciding
  <2>4. \A c : Deciding(t, c)' <=> c = Top(t).change
    BY <2>1, <2>2, TopWent DEF Deciding, Moved
  <2>q. QED  BY <2>3, <2>4, Apart
<1>4. ASSUME RequestEnqueue(t) \/ RequestInPlace(t)
      PROVE  /\ \A c : Deciding(t, c) <=> c = Top(t).change
             /\ \A u \in Threads : \A c : Deciding(u, c)' <=> Deciding(u, c) /\ u # t
  <2>1. ~Idle(t) /\ Top(t).op = "request" /\ Top(t).at = "decide"
    BY <1>4, RequestEnqueueEffect, RequestInPlaceEffect
  <2>2. \A c : Deciding(t, c) <=> c = Top(t).change  BY <2>1 DEF Deciding
  <2>3. CASE Returned(t)
    <3>1. Others(t) /\ \A c : ~Deciding(t, c)'
      BY <2>3, TopReturned DEF Deciding, Waiting, Returned
    <3>q. QED  BY <2>2, <3>1, Apart
  <2>4. CASE ~Returned(t)
    <3>1. PICK g \in Frames, c \in Changes : Called(t, g, FunctionCall(c))
      BY <1>4, <2>4, RequestEnqueueEffect, RequestInPlaceEffect
    <3>2. Others(t) /\ \A e : ~Deciding(t, e)'
      BY <3>1, TopCalled, ChangeCalls DEF Deciding, Called
    <3>q. QED  BY <2>2, <3>2, Apart
  <2>q. QED  BY <2>3, <2>4
<1>q. QED  BY <1>1, <1>2, <1>3, <1>4

LEMMA DecidingMove ==
  ASSUME Inv, NEW t \in Threads,
         \/ PerformEnter(t) \/ PerformReturn(t) \/ AddEnter(t) \/ AddAttach(t) \/ RemoveEnter(t)
         \/ RemoveDetach(t) \/ RemoveFlush(t) \/ RemoveErase(t) \/ RemoveReturn(t)
  PROVE  DecidingKept
<1>1. Top(t).op # "request"
  BY PerformEnterEffect, PerformReturnEffect, AddEnterEffect, AddAttachEffect, RemoveEnterEffect,
     RemoveDetachEffect, RemoveFlushEffect, RemoveEraseEffect, RemoveReturnEffect
<1>2. \/ Returned(t)
      \/ \E f : Went(t, f) /\ f.op # "request"
      \/ \E f, c : Called(t, f, c) /\ c.at = "enter"
  <2>1. CASE PerformReturn(t) \/ AddAttach(t) \/ RemoveReturn(t)
    BY <2>1, PerformReturnEffect, AddAttachEffect, RemoveReturnEffect
  <2>2. CASE PerformEnter(t)  BY <1>1, <2>2, PerformEnterEffect, ChangeCalls DEF Moved
  <2>3. CASE AddEnter(t)  BY <1>1, <2>3, AddEnterEffect DEF Moved
  <2>4. CASE RemoveEnter(t)  BY <1>1, <2>4, RemoveEnterEffect DEF Moved
  <2>5. CASE RemoveDetach(t)  BY <1>1, <2>5, RemoveDetachEffect DEF Moved
  <2>6. CASE RemoveFlush(t)  BY <2>6, RemoveFlushEffect, ChangeCalls
  <2>7. CASE RemoveErase(t)  BY <1>1, <2>7, RemoveEraseEffect DEF Moved
  <2>q. QED  BY <2>1, <2>2, <2>3, <2>4, <2>5, <2>6, <2>7
<1>q. QED  BY <1>1, <1>2, Undecided

LEMMA DecidingBegin ==
  ASSUME Inv,
         \/ \E t \in Users, c \in Changes : UserRequests(t, c)
         \/ \E t \in Users, d \in Devices : UserMoves(t, d)
         \/ \E d \in Devices : HalPerforms(d)
  PROVE  DecidingKept
<1>1. PICK t \in Threads : \E c : Began(t, c) /\ c.at = "enter"
  <2>1. CASE \E t \in Users, c \in Changes : UserRequests(t, c)
    BY <2>1, UserRequestsEffect, ChangeCalls
  <2>2. CASE \E t \in Users, d \in Devices : UserMoves(t, d)  BY <2>2, UserMovesEffect
  <2>3. CASE \E d \in Devices : HalPerforms(d)  BY <2>3, HalPerformsEffect
  <2>q. QED  BY <2>1, <2>2, <2>3
<1>2. Idle(t)  BY <1>1 DEF Began
<1>q. QED  BY <1>1, <1>2, Undecided

LEMMA DecidingSame ==
  ASSUME stack' = stack
  PROVE  DecidingKept
BY DEF DecidingKept, Deciding, Idle, Top

-----------------------------------------------------------------------------
(* FateInv, in parts.                                                      *)
AskedOnce == \A i, j \in DOMAIN asked : asked[i] = asked[j] => i = j
Fates ==
  /\ ToSet(applied) \union aborted \subseteq ToSet(asked)
  /\ aborted \intersect ToSet(applied) = {}
StoredInv ==
  \A d \in Devices : \A id \in DOMAIN pending[d] :
    LET c == pending[d][id] IN
    /\ Target[c] = d /\ c \in ToSet(asked) \ aborted
    /\ c \in ToSet(applied) <=> \E t \in Threads : Running(t, d, id)
    /\ \A other \in DOMAIN pending[d] : pending[d][other] = c => other = id
FatedInv ==
  \A c \in ToSet(asked) :
    \/ c \in ToSet(applied) \union aborted \union PendingChanges(Target[c])
    \/ \E t \in Threads : Deciding(t, c)
DecidingInv ==
  \A t \in Threads, c \in Changes :
    Deciding(t, c) => c \notin ToSet(applied) \union aborted \union PendingChanges(Target[c])

LEMMA FateParts ==
  /\ FateInv => AskedOnce /\ RunsOnce /\ Fates /\ StoredInv /\ FatedInv /\ DecidingInv
  /\ AskedOnce /\ RunsOnce /\ Fates /\ StoredInv /\ FatedInv /\ DecidingInv => FateInv
BY DEF FateInv, AskedOnce, RunsOnce, Fates, StoredInv, FatedInv, DecidingInv

LEMMA FateOf ==
  ASSUME Inv
  PROVE  /\ AskedOnce /\ RunsOnce /\ Fates /\ StoredInv /\ FatedInv /\ DecidingInv
         /\ asked \in Seq(Changes) /\ applied \in Seq(Changes)
         /\ ToSet(asked) \subseteq Changes
<1>1. asked \in Seq(Changes) /\ applied \in Seq(Changes)  BY DEF Inv, IInv, StateInv
<1>2. ToSet(asked) \subseteq Changes
  <2>1. \A i \in DOMAIN asked : asked[i] \in Changes  BY <1>1, LenProperties, ElementOfSeq
  <2>q. QED  BY <2>1 DEF ToSet
<1>q. QED  BY <1>1, <1>2, FateParts DEF Inv, IInv

LEMMA FatePartsNext ==
  ASSUME AskedOnce', RunsOnce', Fates', StoredInv', FatedInv', DecidingInv'
  PROVE  FateInv'
BY DEF FateInv, AskedOnce, RunsOnce, Fates, StoredInv, FatedInv, DecidingInv

(* A stored change, by itself and among those stored.                      *)
LEMMA StoredFacts ==
  ASSUME Inv, NEW d \in Devices, NEW id \in DOMAIN pending[d]
  PROVE  /\ pending[d][id] \in Changes /\ pending[d][id] \in PendingChanges(d)
         /\ Target[pending[d][id]] = d
         /\ pending[d][id] \in ToSet(asked) /\ pending[d][id] \notin aborted
         /\ pending[d][id] \in ToSet(applied) <=> \E t \in Threads : Running(t, d, id)
         /\ \A e \in Devices : \A x \in DOMAIN pending[e] :
              pending[e][x] = pending[d][id] => e = d /\ x = id
<1>1. pending[d][id] \in Changes  BY DEF Inv, IInv, StateInv
<1>2. StoredInv  BY FateOf
<1>3. pending[d][id] \in PendingChanges(d)  BY DEF PendingChanges
<1>q. QED  BY <1>1, <1>2, <1>3 DEF StoredInv

LEMMA PendingSame ==
  ASSUME pending' = pending
  PROVE  \A e : PendingChanges(e)' = PendingChanges(e)
BY DEF PendingChanges

LEMMA OnceAppended ==
  ASSUME NEW S, NEW s \in Seq(S), NEW x \in S, x \notin ToSet(s), NEW r, r = Append(s, x),
         \A i, j \in DOMAIN s : s[i] = s[j] => i = j
  PROVE  \A i, j \in DOMAIN r : r[i] = r[j] => i = j
<1>1. /\ Len(s) \in Nat /\ DOMAIN s = 1 .. Len(s) /\ DOMAIN r = 1 .. Len(s) + 1
      /\ \A i \in 1 .. Len(s) : r[i] = s[i]
      /\ \A i : i = Len(s) + 1 => r[i] = x
  BY Appended
<1>2. \A i \in 1 .. Len(s) : s[i] # x  BY <1>1 DEF ToSet
<1>3. \A i \in DOMAIN r : i \in 1 .. Len(s) \/ i = Len(s) + 1  BY <1>1
<1>q. QED  BY <1>1, <1>2, <1>3

LEMMA FateKept ==
  ASSUME Inv, asked' = asked, applied' = applied, aborted' = aborted, pending' = pending,
         DecidingKept,
         \A u \in Threads, d \in Devices : \A id \in DOMAIN pending[d] :
           Running(u, d, id)' <=> Running(u, d, id)
  PROVE  FateInv'
<1>1. AskedOnce' /\ RunsOnce' /\ Fates'  BY FateOf DEF AskedOnce, RunsOnce, Fates
<1>2. StoredInv'
  <2> SUFFICES ASSUME NEW d \in Devices, NEW id \in DOMAIN pending[d]
               PROVE  /\ Target[pending[d][id]] = d
                      /\ pending[d][id] \in ToSet(asked) \ aborted
                      /\ pending[d][id] \in ToSet(applied) <=> \E t \in Threads : Running(t, d, id)'
                      /\ \A other \in DOMAIN pending[d] :
                           pending[d][other] = pending[d][id] => other = id
    BY DEF StoredInv
  <2>q. QED  BY StoredFacts
<1>3. FatedInv'
  <2>1. \A c : PendingChanges(Target[c])' = PendingChanges(Target[c])  BY PendingSame
  <2>q. QED  BY <2>1, FateOf DEF FatedInv, DecidingKept
<1>4. DecidingInv'
  <2>1. \A c : PendingChanges(Target[c])' = PendingChanges(Target[c])  BY PendingSame
  <2>q. QED  BY <2>1, FateOf DEF DecidingInv, DecidingKept
<1>q. QED  BY <1>1, <1>2, <1>3, <1>4, FatePartsNext

LEMMA AppliedOnce ==
  ASSUME Inv, NEW c \in Changes, c \notin ToSet(applied), applied' = Append(applied, c)
  PROVE  RunsOnce' /\ ToSet(applied') = ToSet(applied) \union {c}
<1>1. applied \in Seq(Changes) /\ \A i, j \in DOMAIN applied : applied[i] = applied[j] => i = j
  BY FateOf DEF RunsOnce
<1>2. PICK s \in Seq(Changes) : s = applied  BY <1>1
<1>3. PICK r : r = applied'  OBVIOUS
<1>4. r = Append(s, c) /\ c \notin ToSet(s) /\ \A i, j \in DOMAIN s : s[i] = s[j] => i = j
  BY <1>1, <1>2, <1>3
<1>5. \A i, j \in DOMAIN r : r[i] = r[j] => i = j  BY <1>4, OnceAppended
<1>6. ToSet(r) = ToSet(s) \union {c}
  <2>1. ToSet(Append(s, c)) = ToSet(s) \union {c}  BY AppendedSet
  <2>q. QED  BY <1>4, <2>1
<1>q. QED  BY <1>2, <1>3, <1>5, <1>6 DEF RunsOnce

(* A stored change begins to run.                                          *)
LEMMA FateRuns ==
  ASSUME Inv, NEW t \in Threads, NEW d \in Devices, NEW id \in DOMAIN pending[d],
         asked' = asked, applied' = Append(applied, pending[d][id]), aborted' = aborted,
         pending' = pending, DecidingKept, \A u \in Threads : ~Running(u, d, id),
         \A u \in Threads : \A e, x :
           Running(u, e, x)' <=> Running(u, e, x) \/ (u = t /\ e = d /\ x = id)
  PROVE  FateInv'
<1>1. PICK c \in Changes : c = pending[d][id]  BY StoredFacts
<1>2. /\ c \in PendingChanges(d) /\ Target[c] = d /\ c \in ToSet(asked) /\ c \notin aborted
      /\ c \notin ToSet(applied)
  BY <1>1, StoredFacts
<1>3. ToSet(applied') = ToSet(applied) \union {c} /\ applied' = Append(applied, c)
  BY <1>1, <1>2, AppliedOnce
<1>4. AskedOnce' /\ Fates'  BY <1>2, <1>3, FateOf DEF AskedOnce, Fates
<1>5. RunsOnce'  BY <1>2, <1>3, AppliedOnce
<1>6. StoredInv'
  <2> SUFFICES ASSUME NEW e \in Devices, NEW x \in DOMAIN pending[e]
               PROVE  /\ Target[pending[e][x]] = e
                      /\ pending[e][x] \in ToSet(asked) \ aborted
                      /\ pending[e][x] \in ToSet(applied') <=> \E u \in Threads : Running(u, e, x)'
                      /\ \A other \in DOMAIN pending[e] :
                           pending[e][other] = pending[e][x] => other = x
    BY DEF StoredInv
  <2>1. /\ Target[pending[e][x]] = e /\ pending[e][x] \in ToSet(asked) \ aborted
        /\ pending[e][x] \in ToSet(applied) <=> \E u \in Threads : Running(u, e, x)
        /\ \A other \in DOMAIN pending[e] : pending[e][other] = pending[e][x] => other = x
    BY StoredFacts
  <2>2. pending[e][x] = c => e = d /\ x = id  BY <1>1, StoredFacts
  <2>3. CASE pending[e][x] = c  BY <1>3, <2>1, <2>2, <2>3
  <2>4. CASE pending[e][x] # c
    <3>1. ~(e = d /\ x = id)  BY <1>1, <2>4
    <3>q. QED  BY <1>3, <2>1, <2>4, <3>1
  <2>q. QED  BY <2>3, <2>4
<1>7. \A k : PendingChanges(Target[k])' = PendingChanges(Target[k])  BY PendingSame
<1>8. FatedInv'  BY <1>3, <1>7, FateOf DEF FatedInv, DecidingKept
<1>9. DecidingInv'
  <2> SUFFICES ASSUME NEW u \in Threads, NEW k \in Changes, Deciding(u, k)'
               PROVE  k \notin ToSet(applied') \union aborted \union PendingChanges(Target[k])
    BY <1>7 DEF DecidingInv
  <2>1. Deciding(u, k)  BY DEF DecidingKept
  <2>2. k \notin ToSet(applied) \union aborted \union PendingChanges(Target[k])
    BY <2>1, FateOf DEF DecidingInv
  <2>q. QED  BY <1>2, <1>3, <2>2
<1>q. QED  BY <1>4, <1>5, <1>6, <1>8, <1>9, FatePartsNext

LEMMA PendingErased ==
  ASSUME Inv, NEW d \in Devices, NEW id, Erase(d, id)
  PROVE  \A e \in Devices :
           /\ PendingChanges(e)' \subseteq PendingChanges(e)
           /\ \A k \in PendingChanges(e) :
                k \in PendingChanges(e)' \/ (e = d /\ id \in DOMAIN pending[d] /\ k = pending[d][id])
<1> SUFFICES ASSUME NEW e \in Devices
             PROVE  /\ PendingChanges(e)' \subseteq PendingChanges(e)
                    /\ \A k \in PendingChanges(e) :
                         \/ k \in PendingChanges(e)'
                         \/ e = d /\ id \in DOMAIN pending[d] /\ k = pending[d][id]
  OBVIOUS
<1>1. CASE e # d
  <2>1. pending'[e] = pending[e]  BY <1>1, EraseFacts
  <2>q. QED  BY <2>1 DEF PendingChanges
<1>2. CASE e = d
  <2>1. /\ DOMAIN pending'[d] = DOMAIN pending[d] \ {id}
        /\ \A x \in DOMAIN pending[d] \ {id} : pending'[d][x] = pending[d][x]
    BY EraseFacts
  <2>2. PendingChanges(d)' \subseteq PendingChanges(d)  BY <2>1 DEF PendingChanges
  <2>3. ASSUME NEW k \in PendingChanges(d)
        PROVE  k \in PendingChanges(d)' \/ (id \in DOMAIN pending[d] /\ k = pending[d][id])
    <3>1. PICK x \in DOMAIN pending[d] : k = pending[d][x]  BY DEF PendingChanges
    <3>2. CASE x = id  BY <3>1, <3>2
    <3>3. CASE x # id
      <4>1. x \in DOMAIN pending'[d] /\ pending'[d][x] = k  BY <2>1, <3>1, <3>3
      <4>q. QED  BY <4>1 DEF PendingChanges
    <3>q. QED  BY <3>2, <3>3
  <2>q. QED  BY <1>2, <2>2, <2>3
<1>q. QED  BY <1>1, <1>2

(* A stored change has run and is erased.                                  *)
LEMMA FateErased ==
  ASSUME Inv, NEW t \in Threads, NEW d \in Devices, NEW id, Erase(d, id),
         asked' = asked, applied' = applied, aborted' = aborted, DecidingKept,
         \A e, x : Running(t, e, x) <=> e = d /\ x = id,
         \A u \in Threads : \A e, x : Running(u, e, x)' <=> Running(u, e, x) /\ u # t
  PROVE  FateInv'
<1>1. AskedOnce' /\ RunsOnce' /\ Fates'  BY FateOf DEF AskedOnce, RunsOnce, Fates
<1>2. /\ DOMAIN pending'[d] = DOMAIN pending[d] \ {id}
      /\ \A x \in DOMAIN pending[d] \ {id} : pending'[d][x] = pending[d][x]
      /\ \A e \in Devices \ {d} : pending'[e] = pending[e]
  BY EraseFacts
<1>3. StoredInv'
  <2> SUFFICES ASSUME NEW e \in Devices, NEW x \in DOMAIN pending'[e]
               PROVE  /\ Target[pending'[e][x]] = e
                      /\ pending'[e][x] \in ToSet(asked) \ aborted
                      /\ pending'[e][x] \in ToSet(applied) <=> \E u \in Threads : Running(u, e, x)'
                      /\ \A other \in DOMAIN pending'[e] :
                           pending'[e][other] = pending'[e][x] => other = x
    BY DEF StoredInv
  <2>1. /\ x \in DOMAIN pending[e] /\ pending'[e][x] = pending[e][x] /\ ~(e = d /\ x = id)
        /\ \A o \in DOMAIN pending'[e] : o \in DOMAIN pending[e] /\ pending'[e][o] = pending[e][o]
    <3>1. CASE e = d  BY <1>2, <3>1
    <3>2. CASE e # d  BY <1>2, <3>2
    <3>q. QED  BY <3>1, <3>2
  <2>2. /\ Target[pending[e][x]] = e /\ pending[e][x] \in ToSet(asked) \ aborted
        /\ pending[e][x] \in ToSet(applied) <=> \E u \in Threads : Running(u, e, x)
        /\ \A other \in DOMAIN pending[e] : pending[e][other] = pending[e][x] => other = x
    BY <2>1, StoredFacts
  <2>3. \A u \in Threads : Running(u, e, x)' <=> Running(u, e, x)  BY <2>1
  <2>q. QED  BY <2>1, <2>2, <2>3
<1>4. \A e \in Devices :
        /\ PendingChanges(e)' \subseteq PendingChanges(e)
        /\ \A k \in PendingChanges(e) : k \in PendingChanges(e)' \/ k \in ToSet(applied)
  <2>1. id \in DOMAIN pending[d] => pending[d][id] \in ToSet(applied)
    <3>1. Running(t, d, id)  OBVIOUS
    <3>q. QED  BY <3>1, StoredFacts
  <2>q. QED  BY <2>1, PendingErased
<1>5. \A k \in Changes : Target[k] \in Devices  BY ChangeCalls
<1>6. FatedInv'
  <2>1. FatedInv /\ ToSet(asked) \subseteq Changes  BY FateOf
  <2>2. \A k \in ToSet(asked) : PendingChanges(Target[k]) \subseteq PendingChanges(Target[k])' \union ToSet(applied)
    BY <1>4, <1>5, <2>1
  <2>q. QED  BY <2>1, <2>2 DEF FatedInv, DecidingKept
<1>7. DecidingInv'
  <2>1. DecidingInv  BY FateOf
  <2>2. \A k \in Changes : PendingChanges(Target[k])' \subseteq PendingChanges(Target[k])
    BY <1>4, <1>5
  <2>q. QED  BY <2>1, <2>2 DEF DecidingInv, DecidingKept
<1>q. QED  BY <1>1, <1>3, <1>6, <1>7, FatePartsNext

(* A stored change is aborted, and no other thread is running one.         *)
LEMMA FateAborted ==
  ASSUME Inv, NEW d \in Devices, NEW id, Erase(d, id), stack' = stack,
         asked' = asked, applied' = applied,
         aborted' = aborted \union (IF id \in DOMAIN pending[d] THEN {pending[d][id]} ELSE {}),
         \A u \in Threads : ~Running(u, d, id)
  PROVE  FateInv'
<1>1. /\ DOMAIN pending'[d] = DOMAIN pending[d] \ {id}
      /\ \A x \in DOMAIN pending[d] \ {id} : pending'[d][x] = pending[d][x]
      /\ \A e \in Devices \ {d} : pending'[e] = pending[e]
  BY EraseFacts
<1>2. \A k \in aborted' : k \in aborted \/ (id \in DOMAIN pending[d] /\ k = pending[d][id])
  OBVIOUS
<1>3. id \in DOMAIN pending[d] =>
        /\ pending[d][id] \in ToSet(asked) /\ pending[d][id] \notin ToSet(applied)
        /\ pending[d][id] \in aborted' /\ pending[d][id] \in PendingChanges(d)
        /\ Target[pending[d][id]] = d
  BY StoredFacts
<1>4. AskedOnce' /\ RunsOnce'  BY FateOf DEF AskedOnce, RunsOnce
<1>5. Fates'  BY <1>2, <1>3, FateOf DEF Fates
<1>6. StoredInv'
  <2> SUFFICES ASSUME NEW e \in Devices, NEW x \in DOMAIN pending'[e]
               PROVE  /\ Target[pending'[e][x]] = e
                      /\ pending'[e][x] \in ToSet(asked) \ aborted'
                      /\ pending'[e][x] \in ToSet(applied) <=> \E u \in Threads : Running(u, e, x)'
                      /\ \A other \in DOMAIN pending'[e] :
                           pending'[e][other] = pending'[e][x] => other = x
    BY DEF StoredInv
  <2>1. /\ x \in DOMAIN pending[e] /\ pending'[e][x] = pending[e][x] /\ ~(e = d /\ x = id)
        /\ \A o \in DOMAIN pending'[e] : o \in DOMAIN pending[e] /\ pending'[e][o] = pending[e][o]
    <3>1. CASE e = d  BY <1>1, <3>1
    <3>2. CASE e # d  BY <1>1, <3>2
    <3>q. QED  BY <3>1, <3>2
  <2>2. /\ Target[pending[e][x]] = e /\ pending[e][x] \in ToSet(asked) \ aborted
        /\ pending[e][x] \in ToSet(applied) <=> \E u \in Threads : Running(u, e, x)
        /\ \A other \in DOMAIN pending[e] : pending[e][other] = pending[e][x] => other = x
    BY <2>1, StoredFacts
  <2>3. \A u \in Threads : Running(u, e, x)' <=> Running(u, e, x)  BY OuterSame DEF OuterKept
  <2>4. pending[e][x] \notin aborted'
    <3>1. id \in DOMAIN pending[d] => pending[e][x] # pending[d][id]
      BY <2>1, StoredFacts
    <3>q. QED  BY <1>2, <2>2, <3>1
  <2>q. QED  BY <2>1, <2>2, <2>3, <2>4
<1>7. \A e \in Devices :
        /\ PendingChanges(e)' \subseteq PendingChanges(e)
        /\ \A k \in PendingChanges(e) : k \in PendingChanges(e)' \/ k \in aborted'
  BY <1>3, PendingErased
<1>8. /\ \A k \in Changes : Target[k] \in Devices
      /\ DecidingKept /\ aborted \subseteq aborted'
  BY ChangeCalls, DecidingSame
<1>9. FatedInv'
  <2>1. FatedInv /\ ToSet(asked) \subseteq Changes  BY FateOf
  <2>2. \A k \in ToSet(asked) : PendingChanges(Target[k]) \subseteq PendingChanges(Target[k])' \union aborted'
    BY <1>7, <1>8, <2>1
  <2>q. QED  BY <1>8, <2>1, <2>2 DEF FatedInv, DecidingKept
<1>10. DecidingInv'
  <2> SUFFICES ASSUME NEW u \in Threads, NEW k \in Changes, Deciding(u, k)
               PROVE  k \notin ToSet(applied) \union aborted' \union PendingChanges(Target[k])'
    BY <1>8 DEF DecidingInv, DecidingKept
  <2>1. k \notin ToSet(applied) \union aborted \union PendingChanges(Target[k])
    BY FateOf DEF DecidingInv
  <2>2. PendingChanges(Target[k])' \subseteq PendingChanges(Target[k])  BY <1>7, <1>8
  <2>q. QED  BY <1>2, <1>3, <2>1, <2>2
<1>q. QED  BY <1>4, <1>5, <1>6, <1>9, <1>10, FatePartsNext

(* What RequestInv says of the innermost call of a thread.                 *)
LEMMA TopRequest ==
  ASSUME Inv, NEW t \in Threads, ~Idle(t)
  PROVE  /\ Top(t).op = "request" => (Top(t).at = "enter" <=> Top(t).change \notin ToSet(asked))
         /\ Top(t).op = "run" => Top(t).change \in ToSet(applied)
<1>1. Top(t) = Frame(t, Depth(t)) /\ Depth(t) \in 1 .. Depth(t)  BY TopFacts
<1>q. QED  BY <1>1 DEF Inv, IInv, RequestInv

LEMMA FateEntered ==
  ASSUME Inv, NEW t \in Threads, RequestEnter(t)
  PROVE  FateInv'
<1>1. ~Idle(t) /\ Top(t).op = "request" /\ Top(t).at = "enter"  BY RequestEnterEffect
<1>2. PICK c \in Changes : c = Top(t).change  BY <1>1, TopFacts
<1>3. c \notin ToSet(asked)  BY <1>1, <1>2, TopRequest
<1>4. /\ asked' = Append(asked, c) /\ pending' = pending
      /\ applied' = applied /\ aborted' = aborted
  BY <1>2, RequestEnterEffect
<1>5. ToSet(asked') = ToSet(asked) \union {c}  BY <1>4, AppendedSet, FateOf
<1>6. AskedOnce'
  <2>1. PICK s \in Seq(Changes) : s = asked  BY FateOf
  <2>2. PICK r : r = asked'  OBVIOUS
  <2>3. r = Append(s, c) /\ c \notin ToSet(s) /\ \A i, j \in DOMAIN s : s[i] = s[j] => i = j
    BY <1>3, <1>4, <2>1, <2>2, FateOf DEF AskedOnce
  <2>4. \A i, j \in DOMAIN r : r[i] = r[j] => i = j  BY <2>3, OnceAppended
  <2>q. QED  BY <2>2, <2>4 DEF AskedOnce
<1>7. RunsOnce' /\ Fates'  BY <1>4, <1>5, FateOf DEF RunsOnce, Fates
<1>8. \A u \in Threads : \A d, id : Running(u, d, id)' <=> Running(u, d, id)
  BY RequestOuter DEF OuterKept
<1>9. StoredInv'
  <2> SUFFICES ASSUME NEW d \in Devices, NEW id \in DOMAIN pending[d]
               PROVE  /\ Target[pending[d][id]] = d
                      /\ pending[d][id] \in ToSet(asked') \ aborted
                      /\ pending[d][id] \in ToSet(applied) <=> \E u \in Threads : Running(u, d, id)'
                      /\ \A other \in DOMAIN pending[d] :
                           pending[d][other] = pending[d][id] => other = id
    BY <1>4 DEF StoredInv
  <2>q. QED  BY <1>5, <1>8, StoredFacts
<1>10. \A e : PendingChanges(e)' = PendingChanges(e)  BY <1>4, PendingSame
<1>11. \A u \in Threads : \A k : Deciding(u, k)' <=> Deciding(u, k) \/ (u = t /\ k = c)
  BY <1>2, DecidingRequest
<1>12. FatedInv'
  <2>1. \A k : PendingChanges(Target[k])' = PendingChanges(Target[k])  BY <1>10
  <2>q. QED  BY <1>4, <1>5, <1>11, <2>1, FateOf DEF FatedInv
<1>13. c \notin PendingChanges(Target[c])
  <2>1. Target[c] \in Devices  BY ChangeCalls
  <2>q. QED  BY <1>3, <2>1, StoredFacts DEF PendingChanges
<1>14. DecidingInv'
  <2>1. \A k : PendingChanges(Target[k])' = PendingChanges(Target[k])  BY <1>10
  <2>2. c \notin ToSet(applied) \union aborted  BY <1>3, FateOf DEF Fates
  <2>q. QED  BY <1>4, <1>11, <1>13, <2>1, <2>2, FateOf DEF DecidingInv
<1>q. QED  BY <1>6, <1>7, <1>9, <1>12, <1>14, FatePartsNext

(* The thread that decides about a change of a device is alone with it.    *)
LEMMA Decider ==
  ASSUME Inv, NEW t \in Threads, ~Idle(t), Top(t).op = "request", Top(t).at = "decide"
  PROVE  /\ Top(t).change \in Changes /\ Target[Top(t).change] = Top(t).device
         /\ Top(t).device \in Devices /\ HoldsDevice(t, Top(t).device)
         /\ Top(t).change \in ToSet(asked) /\ Deciding(t, Top(t).change)
         /\ Top(t).change \notin
              ToSet(applied) \union aborted \union PendingChanges(Target[Top(t).change])
         /\ \A u \in Threads : Deciding(u, Top(t).change) => u = t
         /\ \A u \in Threads : \A id : Running(u, Top(t).device, id) => u = t
<1>1. PICK c \in Changes : c = Top(t).change /\ Target[c] = Top(t).device  BY TopFacts
<1>2. PICK d \in Devices : d = Top(t).device  BY TopFacts
<1>3. Deciding(t, c)  BY <1>1 DEF Deciding
<1>4. HoldsDevice(t, d) /\ Target[c] = d  BY <1>1, <1>2, <1>3, Holders
<1>5. c \in ToSet(asked)  BY <1>1, TopRequest
<1>6. c \notin ToSet(applied) \union aborted \union PendingChanges(Target[c])
  BY <1>3, FateOf DEF DecidingInv
<1>7. \A u \in Threads : HoldsDevice(u, d) => u = t  BY <1>4, Alone
<1>8. \A u \in Threads : Deciding(u, c) => u = t  BY <1>4, <1>7, Holders
<1>9. \A u \in Threads : \A id : Running(u, d, id) => u = t  BY <1>7, Holders
<1>q. QED  BY <1>1, <1>2, <1>3, <1>4, <1>5, <1>6, <1>8, <1>9

LEMMA FateEnqueued ==
  ASSUME Inv, NEW t \in Threads, RequestEnqueue(t)
  PROVE  FateInv'
<1>1. ~Idle(t) /\ Top(t).op = "request" /\ Top(t).at = "decide"  BY RequestEnqueueEffect
<1>2. PICK d \in Devices : d = Top(t).device  BY <1>1, Decider
<1>3. PICK c \in Changes : c = Top(t).change  BY <1>1, Decider
<1>4. /\ Target[c] = d /\ c \in ToSet(asked)
      /\ c \notin ToSet(applied) \union aborted \union PendingChanges(d)
      /\ \A u \in Threads : \A id : Running(u, d, id) => u = t
  BY <1>1, <1>2, <1>3, Decider
<1>5. /\ Enqueues(d, c) /\ d \in owned /\ inside[d] = 0
      /\ asked' = asked /\ applied' = applied /\ aborted' = aborted
  BY <1>2, <1>3, RequestEnqueueEffect
<1>6. /\ DOMAIN pending'[d] = DOMAIN pending[d] \union {nextID[d]}
      /\ \A x \in DOMAIN pending[d] : pending'[d][x] = pending[d][x]
      /\ \A x : x = nextID[d] => pending'[d][x] = c
      /\ nextID[d] \notin DOMAIN pending[d]
      /\ \A e \in Devices \ {d} : pending'[e] = pending[e]
  BY <1>5, EnqueueFacts
<1>7. AskedOnce' /\ RunsOnce' /\ Fates'  BY <1>5, FateOf DEF AskedOnce, RunsOnce, Fates
<1>8. \A u \in Threads : \A id : ~Running(u, d, id)
  <2> SUFFICES ASSUME NEW u \in Threads, NEW id, Running(u, d, id)  PROVE FALSE
    OBVIOUS
  <2>1. CASE u = Hal /\ Performs(d) /\ Frame(Hal, 1).at = "return"
    <3>1. inside[d] = 1  BY <2>1 DEF Inv, IInv, OwnerInv
    <3>q. QED  BY <1>5, <3>1
  <2>2. CASE Flushes(u, d)
    <3>1. d \notin owned  BY <2>2 DEF Inv, IInv, OwnerInv
    <3>q. QED  BY <1>5, <3>1
  <2>q. QED  BY <2>1, <2>2, Holders
<1>9. \A u \in Threads : \A e, id : Running(u, e, id)' <=> Running(u, e, id)
  BY RequestOuter DEF OuterKept
<1>10. StoredInv'
  <2> SUFFICES ASSUME NEW e \in Devices, NEW x \in DOMAIN pending'[e]
               PROVE  /\ Target[pending'[e][x]] = e
                      /\ pending'[e][x] \in ToSet(asked) \ aborted
                      /\ pending'[e][x] \in ToSet(applied) <=> \E u \in Threads : Running(u, e, x)'
                      /\ \A other \in DOMAIN pending'[e] :
                           pending'[e][other] = pending'[e][x] => other = x
    BY <1>5 DEF StoredInv
  <2>1. CASE e = d /\ x = nextID[d]
    <3>1. pending'[e][x] = c  BY <1>6, <2>1
    <3>2. \A other \in DOMAIN pending[d] : pending'[d][other] # c
      BY <1>4, <1>6 DEF PendingChanges
    <3>3. \A other \in DOMAIN pending'[e] : pending'[e][other] = c => other = x
      BY <1>6, <2>1, <3>2
    <3>4. \A u \in Threads : ~Running(u, e, x)'  BY <1>8, <1>9, <2>1
    <3>q. QED  BY <1>4, <2>1, <3>1, <3>3, <3>4
  <2>2. CASE ~(e = d /\ x = nextID[d])
    <3>1. x \in DOMAIN pending[e] /\ pending'[e][x] = pending[e][x]  BY <1>6, <2>2
    <3>2. /\ Target[pending[e][x]] = e /\ pending[e][x] \in ToSet(asked) \ aborted
          /\ pending[e][x] \in ToSet(applied) <=> \E u \in Threads : Running(u, e, x)
          /\ \A other \in DOMAIN pending[e] : pending[e][other] = pending[e][x] => other = x
      BY <3>1, StoredFacts
    <3>3. pending[e][x] # c
      <4>1. pending[e][x] \in PendingChanges(e)  BY <3>1 DEF PendingChanges
      <4>q. QED  BY <1>4, <3>2, <4>1
    <3>4. \A other \in DOMAIN pending'[e] :
            \/ other \in DOMAIN pending[e] /\ pending'[e][other] = pending[e][other]
            \/ pending'[e][other] = c
      BY <1>6
    <3>q. QED  BY <1>9, <3>1, <3>2, <3>3, <3>4
  <2>q. QED  BY <2>1, <2>2
<1>11. \A e \in Devices : \A k : k \in PendingChanges(e)' <=>
         k \in PendingChanges(e) \/ (e = d /\ k = c)
  <2> SUFFICES ASSUME NEW e \in Devices
               PROVE  \A k : k \in PendingChanges(e)' <=>
                        k \in PendingChanges(e) \/ (e = d /\ k = c)
    OBVIOUS
  <2>1. CASE e = d
    <3>1. nextID[d] \in DOMAIN pending'[d] /\ pending'[d][nextID[d]] = c  BY <1>6
    <3>2. \A k : k \in PendingChanges(d)' => k \in PendingChanges(d) \/ k = c
      BY <1>6 DEF PendingChanges
    <3>3. \A k : k \in PendingChanges(d) => k \in PendingChanges(d)'
      BY <1>6 DEF PendingChanges
    <3>4. c \in PendingChanges(d)'  BY <3>1 DEF PendingChanges
    <3>q. QED  BY <2>1, <3>2, <3>3, <3>4
  <2>2. CASE e # d
    <3>1. pending'[e] = pending[e]  BY <1>6, <2>2
    <3>q. QED  BY <2>2, <3>1 DEF PendingChanges
  <2>q. QED  BY <2>1, <2>2
<1>12. \A k \in Changes : Target[k] \in Devices  BY ChangeCalls
<1>13. /\ \A k : Deciding(t, k) <=> k = c
       /\ \A u \in Threads : \A k : Deciding(u, k)' <=> Deciding(u, k) /\ u # t
  BY <1>3, DecidingRequest
<1>14. FatedInv'
  <2> SUFFICES ASSUME NEW k \in ToSet(asked)
               PROVE  \/ k \in ToSet(applied) \union aborted \union PendingChanges(Target[k])'
                      \/ \E u \in Threads : Deciding(u, k)'
    BY <1>5 DEF FatedInv
  <2>1. k \in Changes  BY FateOf
  <2>2. CASE k = c  BY <1>4, <1>11, <1>12, <2>1, <2>2
  <2>3. CASE k # c
    <3>1. \/ k \in ToSet(applied) \union aborted \union PendingChanges(Target[k])
          \/ \E u \in Threads : Deciding(u, k)
      BY FateOf DEF FatedInv
    <3>q. QED  BY <1>11, <1>12, <1>13, <2>1, <2>3, <3>1
  <2>q. QED  BY <2>2, <2>3
<1>15. DecidingInv'
  <2> SUFFICES ASSUME NEW u \in Threads, NEW k \in Changes, Deciding(u, k), u # t
               PROVE  k \notin ToSet(applied) \union aborted \union PendingChanges(Target[k])'
    BY <1>5, <1>13 DEF DecidingInv
  <2>1. k \notin ToSet(applied) \union aborted \union PendingChanges(Target[k])
    BY FateOf DEF DecidingInv
  <2>2. k # c  BY <1>1, <1>3, Decider
  <2>q. QED  BY <1>11, <1>12, <2>1, <2>2
<1>q. QED  BY <1>7, <1>10, <1>14, <1>15, FatePartsNext

LEMMA FateInPlace ==
  ASSUME Inv, NEW t \in Threads, RequestInPlace(t)
  PROVE  FateInv'
<1>1. ~Idle(t) /\ Top(t).op = "request" /\ Top(t).at = "decide"  BY RequestInPlaceEffect
<1>2. PICK c \in Changes : c = Top(t).change  BY <1>1, Decider
<1>3. /\ c \in ToSet(asked) /\ Target[c] \in Devices
      /\ c \notin ToSet(applied) \union aborted \union PendingChanges(Target[c])
  BY <1>1, <1>2, Decider
<1>4. /\ applied' = Append(applied, c) /\ pending' = pending
      /\ asked' = asked /\ aborted' = aborted
  BY <1>2, RequestInPlaceEffect
<1>5. RunsOnce' /\ ToSet(applied') = ToSet(applied) \union {c}
  BY <1>3, <1>4, AppliedOnce
<1>6. AskedOnce' /\ Fates'  BY <1>3, <1>4, <1>5, FateOf DEF AskedOnce, Fates
<1>7. \A u \in Threads : \A e, id : Running(u, e, id)' <=> Running(u, e, id)
  BY RequestOuter DEF OuterKept
<1>8. StoredInv'
  <2> SUFFICES ASSUME NEW e \in Devices, NEW x \in DOMAIN pending[e]
               PROVE  /\ Target[pending[e][x]] = e
                      /\ pending[e][x] \in ToSet(asked) \ aborted
                      /\ pending[e][x] \in ToSet(applied') <=> \E u \in Threads : Running(u, e, x)'
                      /\ \A other \in DOMAIN pending[e] :
                           pending[e][other] = pending[e][x] => other = x
    BY <1>4 DEF StoredInv
  <2>1. /\ Target[pending[e][x]] = e /\ pending[e][x] \in PendingChanges(e)  BY StoredFacts
  <2>2. pending[e][x] # c  BY <1>3, <2>1
  <2>q. QED  BY <1>5, <1>7, <2>2, StoredFacts
<1>9. \A k : PendingChanges(Target[k])' = PendingChanges(Target[k])  BY <1>4, PendingSame
<1>10. /\ \A k : Deciding(t, k) <=> k = c
       /\ \A u \in Threads : \A k : Deciding(u, k)' <=> Deciding(u, k) /\ u # t
  BY <1>2, DecidingRequest
<1>11. FatedInv'
  <2> SUFFICES ASSUME NEW k \in ToSet(asked)
               PROVE  \/ k \in ToSet(applied') \union aborted \union PendingChanges(Target[k])
                      \/ \E u \in Threads : Deciding(u, k)'
    BY <1>4, <1>9 DEF FatedInv
  <2>1. \/ k \in ToSet(applied) \union aborted \union PendingChanges(Target[k])
        \/ \E u \in Threads : Deciding(u, k)
    BY FateOf DEF FatedInv
  <2>q. QED  BY <1>5, <1>10, <2>1
<1>12. DecidingInv'
  <2> SUFFICES ASSUME NEW u \in Threads, NEW k \in Changes, Deciding(u, k), u # t
               PROVE  k \notin ToSet(applied') \union aborted \union PendingChanges(Target[k])
    BY <1>4, <1>9, <1>10 DEF DecidingInv
  <2>1. k \notin ToSet(applied) \union aborted \union PendingChanges(Target[k])
    BY FateOf DEF DecidingInv
  <2>2. k # c  BY <1>1, <1>2, Decider
  <2>q. QED  BY <1>5, <2>1, <2>2
<1>q. QED  BY <1>5, <1>6, <1>8, <1>11, <1>12, FatePartsNext

LEMMA FateStep ==
  ASSUME Inv, Next
  PROVE  FateInv'
<1>1. ASSUME NEW t \in Threads, RunStep(t) \/ RequestReturn(t)  PROVE FateInv'
  <2>1. asked' = asked /\ applied' = applied /\ aborted' = aborted /\ pending' = pending
    BY <1>1, RunStepEffect, RequestReturnEffect
  <2>q. QED  BY <1>1, <2>1, RequestOuter, DecidingRequest, FateKept DEF OuterKept
<1>2. ASSUME NEW t \in Threads, RequestEnter(t) \/ RequestEnqueue(t) \/ RequestInPlace(t)
      PROVE  FateInv'
  BY <1>2, FateEntered, FateEnqueued, FateInPlace
<1>3. ASSUME NEW t \in Threads, AddEnter(t) \/ AddAttach(t) \/ RemoveEnter(t)  PROVE FateInv'
  <2>1. asked' = asked /\ applied' = applied /\ aborted' = aborted /\ pending' = pending
    BY <1>3, AddEnterEffect, AddAttachEffect, RemoveEnterEffect
  <2>q. QED  BY <1>3, <2>1, MoveOuter, DecidingMove, FateKept DEF OuterKept
<1>4. ASSUME NEW t \in Threads, RemoveDetach(t) \/ RemoveReturn(t)  PROVE FateInv'
  <2>1. asked' = asked /\ applied' = applied /\ aborted' = aborted /\ pending' = pending
    BY <1>4, RemoveDetachEffect, RemoveReturnEffect
  <2>2. \A u \in Threads : \A d, id : Running(u, d, id)' <=> Running(u, d, id)
    BY <1>4, RemoveDetachOuter, RemoveReturnOuter
  <2>q. QED  BY <1>4, <2>1, <2>2, DecidingMove, FateKept
<1>5. ASSUME NEW t \in Threads, PerformEnter(t)  PROVE FateInv'
  <2>1. /\ asked' = asked /\ aborted' = aborted /\ pending' = pending /\ DecidingKept
        /\ ~Idle(t)
    BY <1>5, PerformEnterEffect, DecidingMove
  <2>2. PICK d \in Devices : d = Top(t).device  BY <2>1, TopFacts
  <2>3. PICK id : id = Top(t).id  OBVIOUS
  <2>4. /\ \A e, x : ~Running(t, e, x)
        /\ \A u \in Threads : \A e, x :
             Running(u, e, x)' <=> Running(u, e, x) \/ (u = t /\ e = d /\ x = id)
    BY <1>5, <2>2, <2>3, PerformEnterOuter
  <2>5. CanLockDevice(t, d)  BY <1>5, <2>2, PerformEnterEffect
  <2>6. CASE id \in DOMAIN pending[d]
    <3>1. applied' = Append(applied, pending[d][id])
      BY <1>5, <2>2, <2>3, <2>6, PerformEnterEffect
    <3>2. \A u \in Threads : ~Running(u, d, id)  BY <2>4, <2>5, Holders, Alone
    <3>q. QED  BY <2>1, <2>4, <2>6, <3>1, <3>2, FateRuns
  <2>7. CASE id \notin DOMAIN pending[d]
    <3>1. applied' = applied  BY <1>5, <2>2, <2>3, <2>7, PerformEnterEffect
    <3>2. \A u \in Threads, e \in Devices : \A x \in DOMAIN pending[e] :
            Running(u, e, x)' <=> Running(u, e, x)
      BY <2>4, <2>7
    <3>q. QED  BY <2>1, <3>1, <3>2, FateKept
  <2>q. QED  BY <2>6, <2>7
<1>6. ASSUME NEW t \in Threads, RemoveFlush(t)  PROVE FateInv'
  <2>1. asked' = asked /\ aborted' = aborted /\ pending' = pending /\ DecidingKept
    BY <1>6, RemoveFlushEffect, DecidingMove
  <2>2. PICK d \in Devices : d = Top(t).device  BY <1>6, RemoveFlushEffect
  <2>3. PICK id : id = FirstPending(d)  OBVIOUS
  <2>4. id \in DOMAIN pending[d] /\ applied' = Append(applied, pending[d][id])
    BY <1>6, <2>2, <2>3, RemoveFlushEffect
  <2>5. /\ \A e, x : ~Running(t, e, x)
        /\ \A u \in Threads : \A e, x :
             Running(u, e, x)' <=> Running(u, e, x) \/ (u = t /\ e = d /\ x = id)
        /\ Flushes(t, d)
    BY <1>6, <2>2, <2>3, RemoveFlushOuter
  <2>6. HoldsDevice(t, d)  BY <2>5, Holders
  <2>7. \A u \in Threads : ~Running(u, d, id)  BY <2>5, <2>6, Holders, Alone
  <2>q. QED  BY <2>1, <2>4, <2>5, <2>7, FateRuns
<1>7. ASSUME NEW t \in Threads, PerformReturn(t) \/ RemoveErase(t)  PROVE FateInv'
  <2>1. /\ asked' = asked /\ applied' = applied /\ aborted' = aborted /\ DecidingKept
        /\ ~Idle(t)
    BY <1>7, PerformReturnEffect, RemoveEraseEffect, DecidingMove
  <2>2. PICK d \in Devices : d = Top(t).device  BY <2>1, TopFacts
  <2>3. PICK id : id = Top(t).id  OBVIOUS
  <2>4. Erase(d, id)  BY <1>7, <2>2, <2>3, PerformReturnEffect, RemoveEraseEffect
  <2>5. /\ \A e, x : Running(t, e, x) <=> e = d /\ x = id
        /\ \A u \in Threads : \A e, x : Running(u, e, x)' <=> Running(u, e, x) /\ u # t
    BY <1>7, <2>2, <2>3, PerformReturnOuter, RemoveEraseOuter
  <2>q. QED  BY <2>1, <2>4, <2>5, FateErased
<1>8. ASSUME NEW t \in Users,
             (\E c \in Changes : UserRequests(t, c)) \/ (\E d \in Devices : UserMoves(t, d))
      PROVE  FateInv'
  <2>1. asked' = asked /\ applied' = applied /\ aborted' = aborted /\ pending' = pending
    BY <1>8, UserRequestsEffect, UserMovesEffect
  <2>2. OuterKept /\ DecidingKept  BY <1>8, BeginOuter, DecidingBegin
  <2>q. QED  BY <2>1, <2>2, FateKept DEF OuterKept
<1>9. ASSUME HalConnects  PROVE FateInv'
  <2>1. /\ asked' = asked /\ applied' = applied /\ aborted' = aborted /\ pending' = pending
        /\ stack' = stack
    BY <1>9, HalConnectsEffect
  <2>2. OuterKept /\ DecidingKept  BY <2>1, OuterSame, DecidingSame
  <2>q. QED  BY <2>1, <2>2, FateKept DEF OuterKept
<1>10. ASSUME NEW d \in Devices, HalPerforms(d)  PROVE FateInv'
  <2>1. asked' = asked /\ applied' = applied /\ aborted' = aborted /\ pending' = pending
    BY <1>10, HalPerformsEffect
  <2>2. /\ DecidingKept
        /\ \A u \in Threads : \A e, id : Running(u, e, id)' <=> Running(u, e, id)
    BY <1>10, HalPerformsOuter, DecidingBegin
  <2>q. QED  BY <2>1, <2>2, FateKept
<1>11. ASSUME NEW d \in Devices, HalAborts(d)  PROVE FateInv'
  <2>1. PICK id : id = Head(queue[d])  OBVIOUS
  <2>2. /\ Hal \in Threads /\ Idle(Hal) /\ CanLockDevice(Hal, d)
        /\ Erase(d, id) /\ stack' = stack /\ asked' = asked /\ applied' = applied
        /\ aborted' = aborted \union (IF id \in DOMAIN pending[d] THEN {pending[d][id]} ELSE {})
    BY <1>11, <2>1, HalAbortsEffect
  <2>3. \A u \in Threads : ~Running(u, d, id)
    <3>1. \A u \in Threads : HoldsDevice(u, d) => u = Hal  BY <2>2, Alone
    <3>q. QED  BY <2>2, <3>1, Holders
  <2>q. QED  BY <2>2, <2>3, FateAborted
<1>12. ASSUME NEW d \in Devices, HalForgets(d)  PROVE FateInv'
  <2>1. /\ asked' = asked /\ applied' = applied /\ aborted' = aborted /\ pending' = pending
        /\ stack' = stack
    BY <1>12, HalForgetsEffect
  <2>2. OuterKept /\ DecidingKept  BY <2>1, OuterSame, DecidingSame
  <2>q. QED  BY <2>1, <2>2, FateKept DEF OuterKept
<1>13. ASSUME NEW t \in Threads, Step(t)  PROVE FateInv'
  BY <1>1, <1>2, <1>3, <1>4, <1>5, <1>6, <1>7, <1>13 DEF Step
<1>q. QED  BY <1>8, <1>9, <1>10, <1>11, <1>12, <1>13 DEF Next

-----------------------------------------------------------------------------
(* RequestInv, in parts.                                                   *)
Requests(f) == f.op \in {"request", "run"}
AskedInv ==
  \A t \in Threads : \A p \in 1 .. Depth(t) :
    Frame(t, p).op = "request" =>
      (Frame(t, p).at = "enter" <=> Frame(t, p).change \notin ToSet(asked))
RunInv ==
  \A t \in Threads : \A p \in 1 .. Depth(t) :
    Frame(t, p).op = "run" => Frame(t, p).change \in ToSet(applied)
UniqueInv ==
  \A t \in Threads : \A p \in 1 .. Depth(t) :
    Requests(Frame(t, p)) =>
      \A u \in Threads : \A q \in 1 .. Depth(u) :
        Has(u, q, Frame(t, p).op, Frame(t, p).change) => u = t /\ q = p
Asks(n) ==
  n \in ToSet(asked) \/ \E t \in Threads : \E p \in 1 .. Depth(t) : Has(t, p, "request", n)
Passed(c, k) ==
  /\ c \in ToSet(applied)
  /\ \A t \in Threads : \A p \in 1 .. Depth(t) : Has(t, p, "run", c) => Frame(t, p).id > k
BodyInv ==
  \A c \in Changes : \A k \in DOMAIN Body[c] : Asks(Body[c][k].change) => Passed(c, k)

LEMMA RequestOf ==
  ASSUME Inv
  PROVE  AskedInv /\ RunInv /\ UniqueInv /\ BodyInv
<1>1. RequestInv  BY DEF Inv, IInv
<1>2. AskedInv /\ RunInv  BY <1>1 DEF RequestInv, AskedInv, RunInv
<1>3. UniqueInv  BY <1>1 DEF RequestInv, UniqueInv, Requests
<1>4. BodyInv  BY <1>1 DEF RequestInv, BodyInv, Asks, Passed
<1>q. QED  BY <1>2, <1>3, <1>4

LEMMA RequestPartsNext ==
  ASSUME AskedInv', RunInv', UniqueInv', BodyInv'
  PROVE  RequestInv'
BY DEF RequestInv, AskedInv, RunInv, UniqueInv, BodyInv, Requests, Asks, Passed

(* A frame of a request or a function that was there before.               *)
Kept(u, p) ==
  Requests(Frame(u, p)') =>
    /\ p \in 1 .. Depth(u) /\ Frame(u, p)'.op = Frame(u, p).op
    /\ Frame(u, p)'.change = Frame(u, p).change
    /\ Frame(u, p)'.op = "run" =>
         Frame(u, p)'.id = Frame(u, p).id \/ Frame(u, p)'.id = Frame(u, p).id + 1
Stays(u, p) ==
  Frame(u, p)'.op = "request" => (Frame(u, p)'.at = "enter" <=> Frame(u, p).at = "enter")
(* A frame of change c that was not there.                                 *)
New(u, p, op, c) == Frame(u, p)'.op = op /\ Frame(u, p)'.change = c /\ Frame(u, p)'.at = "enter"
Extended(t, s, op, c) ==
  \A u \in Threads : \A p \in 1 .. Depth(u)' :
    (Kept(u, p) /\ Stays(u, p)) \/ (u = t /\ p = s /\ New(u, p, op, c))
Fresh(op, c) == \A u \in Threads : \A p \in 1 .. Depth(u) : ~Has(u, p, op, c)

LEMMA UniqueKept ==
  ASSUME Inv, \A u \in Threads : \A p \in 1 .. Depth(u)' : Kept(u, p)
  PROVE  UniqueInv'
<1> SUFFICES ASSUME NEW u \in Threads, NEW p \in 1 .. Depth(u)', Requests(Frame(u, p)'),
                    NEW v \in Threads, NEW q \in 1 .. Depth(v)',
                    Frame(v, q)'.op = Frame(u, p)'.op, Frame(v, q)'.change = Frame(u, p)'.change
             PROVE  v = u /\ q = p
  BY DEF UniqueInv, Has
<1>1. Requests(Frame(v, q)')  BY DEF Requests
<1>2. /\ p \in 1 .. Depth(u) /\ Frame(u, p)'.op = Frame(u, p).op
      /\ Frame(u, p)'.change = Frame(u, p).change
  BY DEF Kept
<1>3. /\ q \in 1 .. Depth(v) /\ Frame(v, q)'.op = Frame(v, q).op
      /\ Frame(v, q)'.change = Frame(v, q).change
  BY <1>1 DEF Kept
<1>4. Requests(Frame(u, p))  BY <1>2 DEF Requests
<1>5. Has(v, q, Frame(u, p).op, Frame(u, p).change)  BY <1>2, <1>3 DEF Has
<1>q. QED  BY <1>2, <1>3, <1>4, <1>5, RequestOf DEF UniqueInv

LEMMA UniqueNew ==
  ASSUME Inv, NEW t \in Threads, NEW s, NEW op, NEW c, Fresh(op, c),
         Extended(t, s, op, c)
  PROVE  UniqueInv'
<1> SUFFICES ASSUME NEW u \in Threads, NEW p \in 1 .. Depth(u)', Requests(Frame(u, p)'),
                    NEW v \in Threads, NEW q \in 1 .. Depth(v)',
                    Frame(v, q)'.op = Frame(u, p)'.op, Frame(v, q)'.change = Frame(u, p)'.change
             PROVE  v = u /\ q = p
  BY DEF UniqueInv, Has
<1>1. Requests(Frame(v, q)')  BY DEF Requests
<1>2. Kept(u, p) => /\ p \in 1 .. Depth(u) /\ Frame(u, p)'.op = Frame(u, p).op
                    /\ Frame(u, p)'.change = Frame(u, p).change
  BY DEF Kept
<1>3. Kept(v, q) => /\ q \in 1 .. Depth(v) /\ Frame(v, q)'.op = Frame(v, q).op
                    /\ Frame(v, q)'.change = Frame(v, q).change
  BY <1>1 DEF Kept
<1>8. /\ Kept(u, p) \/ (u = t /\ p = s /\ New(u, p, op, c))
      /\ Kept(v, q) \/ (v = t /\ q = s /\ New(v, q, op, c))
  BY DEF Extended
<1>4. CASE Kept(u, p) /\ Kept(v, q)
  <2>1. Requests(Frame(u, p))  BY <1>2, <1>4 DEF Requests
  <2>2. Has(v, q, Frame(u, p).op, Frame(u, p).change)  BY <1>2, <1>3, <1>4 DEF Has
  <2>q. QED  BY <1>2, <1>3, <1>4, <2>1, <2>2, RequestOf DEF UniqueInv
<1>5. CASE Kept(u, p) /\ ~Kept(v, q)
  <2>1. New(v, q, op, c)  BY <1>5, <1>8
  <2>2. Has(u, p, op, c) /\ p \in 1 .. Depth(u)  BY <1>2, <1>5, <2>1 DEF New, Has
  <2>q. QED  BY <2>2 DEF Fresh
<1>6. CASE ~Kept(u, p) /\ Kept(v, q)
  <2>1. New(u, p, op, c)  BY <1>6, <1>8
  <2>2. Has(v, q, op, c) /\ q \in 1 .. Depth(v)  BY <1>3, <1>6, <2>1 DEF New, Has
  <2>q. QED  BY <2>2 DEF Fresh
<1>7. CASE ~Kept(u, p) /\ ~Kept(v, q)  BY <1>7, <1>8
<1>q. QED  BY <1>4, <1>5, <1>6, <1>7

(* Functions that only went on.                                            *)
LEMMA PassedKept ==
  ASSUME Inv, NEW c \in Changes, NEW k \in DOMAIN Body[c], Passed(c, k),
         ToSet(applied) \subseteq ToSet(applied'),
         \A u \in Threads : \A p \in 1 .. Depth(u)' :
           Kept(u, p) \/ ~Has(u, p, "run", c)'
  PROVE  Passed(c, k)'
<1>1. k \in Nat  BY BodyFacts
<1>3. ASSUME NEW u \in Threads, NEW p \in 1 .. Depth(u)', Has(u, p, "run", c)'
      PROVE  Frame(u, p)'.id > k
  <2>1. /\ p \in 1 .. Depth(u) /\ Has(u, p, "run", c)
        /\ Frame(u, p)'.id = Frame(u, p).id \/ Frame(u, p)'.id = Frame(u, p).id + 1
    BY <1>3 DEF Kept, Has, Requests
  <2>2. Frame(u, p).id \in Nat  BY <2>1, StackFacts DEF Frames
  <2>3. Frame(u, p).id > k  BY <2>1 DEF Passed
  <2>q. QED  BY <1>1, <2>1, <2>2, <2>3
<1>q. QED  BY <1>3 DEF Passed

LEMMA RequestKept ==
  ASSUME Inv, \A u \in Threads : \A p \in 1 .. Depth(u)' : Kept(u, p) /\ Stays(u, p),
         asked' = asked, ToSet(applied) \subseteq ToSet(applied')
  PROVE  RequestInv'
<1>1. AskedInv'  BY RequestOf DEF AskedInv, Kept, Stays, Requests
<1>2. RunInv'  BY RequestOf DEF RunInv, Kept, Requests
<1>3. UniqueInv'  BY UniqueKept
<1>4. BodyInv'
  <2> SUFFICES ASSUME NEW c \in Changes, NEW k \in DOMAIN Body[c], Asks(Body[c][k].change)'
               PROVE  Passed(c, k)'
    BY DEF BodyInv
  <2>1. PICK n : n = Body[c][k].change  OBVIOUS
  <2>2. Asks(n)'  BY <2>1
  <2>3. Asks(n)  BY <2>2 DEF Asks, Has, Kept, Requests
  <2>4. Passed(c, k)  BY <2>1, <2>3, RequestOf DEF BodyInv
  <2>q. QED  BY <2>4, PassedKept
<1>q. QED  BY <1>1, <1>2, <1>3, <1>4, RequestPartsNext

(* The function of a change begins to run.                                 *)
LEMMA RequestRuns ==
  ASSUME Inv, NEW t \in Threads, NEW s, NEW c \in Changes, c \notin ToSet(applied),
         Extended(t, s, "run", c),
         asked' = asked, applied' = Append(applied, c)
  PROVE  RequestInv'
<1>1. ToSet(applied') = ToSet(applied) \union {c}  BY AppliedOnce
<1>2. Fresh("run", c)  BY RequestOf DEF Fresh, RunInv, Has
<1>3. AskedInv'  BY RequestOf DEF AskedInv, Extended, Kept, Stays, New, Requests
<1>4. RunInv'  BY <1>1, RequestOf DEF RunInv, Extended, Kept, New, Requests
<1>5. UniqueInv'  BY <1>2, UniqueNew
<1>6. BodyInv'
  <2> SUFFICES ASSUME NEW e \in Changes, NEW k \in DOMAIN Body[e], Asks(Body[e][k].change)'
               PROVE  Passed(e, k)'
    BY DEF BodyInv
  <2>1. PICK n : n = Body[e][k].change  OBVIOUS
  <2>2. Asks(n)'  BY <2>1
  <2>3. Asks(n)  BY <2>2 DEF Asks, Extended, Has, Kept, New, Requests
  <2>4. Passed(e, k)  BY <2>1, <2>3, RequestOf DEF BodyInv
  <2>5. e # c  BY <2>4 DEF Passed
  <2>6. \A u \in Threads : \A p \in 1 .. Depth(u)' : Kept(u, p) \/ ~Has(u, p, "run", e)'
    BY <2>5 DEF Extended, New, Has
  <2>q. QED  BY <1>1, <2>4, <2>6, PassedKept
<1>q. QED  BY <1>3, <1>4, <1>5, <1>6, RequestPartsNext

(* A request is called.                                                    *)
LEMMA RequestCalled ==
  ASSUME Inv, NEW t \in Threads, NEW s, NEW n \in Changes, ~Asks(n),
         Extended(t, s, "request", n),
         asked' = asked, applied' = applied,
         \A c \in Changes : \A k \in DOMAIN Body[c] : Body[c][k].change = n => Passed(c, k)'
  PROVE  RequestInv'
<1>1. Fresh("request", n) /\ n \notin ToSet(asked)  BY DEF Asks, Fresh
<1>2. AskedInv'  BY <1>1, RequestOf DEF AskedInv, Extended, Kept, Stays, New, Requests
<1>3. RunInv'  BY RequestOf DEF RunInv, Extended, Kept, New, Requests
<1>4. UniqueInv'  BY <1>1, UniqueNew
<1>5. BodyInv'
  <2> SUFFICES ASSUME NEW e \in Changes, NEW k \in DOMAIN Body[e], Asks(Body[e][k].change)',
                      Body[e][k].change # n
               PROVE  Passed(e, k)'
    BY DEF BodyInv
  <2>1. PICK m : m = Body[e][k].change  OBVIOUS
  <2>2. Asks(m)' /\ m # n  BY <2>1
  <2>3. Asks(m)  BY <2>2 DEF Asks, Extended, Has, Kept, New, Requests
  <2>4. Passed(e, k)  BY <2>1, <2>3, RequestOf DEF BodyInv
  <2>5. \A u \in Threads : \A p \in 1 .. Depth(u)' : Kept(u, p) \/ ~Has(u, p, "run", e)'
    BY DEF Extended, New, Has
  <2>q. QED  BY <2>4, <2>5, PassedKept
<1>q. QED  BY <1>2, <1>3, <1>4, <1>5, RequestPartsNext

LEMMA KeptOthers ==
  ASSUME Inv, NEW t \in Threads, Others(t), NEW u \in Threads, u # t, NEW p \in 1 .. Depth(u)'
  PROVE  Kept(u, p) /\ Stays(u, p)
<1>1. stack'[u] = stack[u]  BY DEF Others
<1>2. Depth(u)' = Depth(u) /\ Frame(u, p)' = Frame(u, p)  BY <1>1, Unmoved
<1>q. QED  BY <1>2 DEF Kept, Stays

(* The frame g that replaces the innermost one, f.                         *)
Follows(f, g) ==
  Requests(g) =>
    /\ g.op = f.op /\ g.change = f.change
    /\ g.op = "run" => g.id = f.id \/ g.id = f.id + 1
FollowsAt(f, g) == g.op = "request" => (g.at = "enter" <=> f.at = "enter")

LEMMA KeptWent ==
  ASSUME Inv, NEW t \in Threads, NEW g, Went(t, g), Follows(Top(t), g)
  PROVE  /\ \A u \in Threads : \A p \in 1 .. Depth(u)' : Kept(u, p)
         /\ FollowsAt(Top(t), g) => \A u \in Threads : \A p \in 1 .. Depth(u)' : Stays(u, p)
<1>1. Top(t) = Frame(t, Depth(t)) /\ Depth(t)' = Depth(t)  BY TopFacts DEF Went
<1>2. ASSUME NEW p \in 1 .. Depth(t)  PROVE Kept(t, p) /\ (FollowsAt(Top(t), g) => Stays(t, p))
  <2>1. CASE p = Depth(t)
    <3>1. Frame(t, p)' = g /\ Frame(t, p) = Top(t)  BY <1>1, <2>1 DEF Went
    <3>q. QED  BY <3>1 DEF Kept, Stays, Follows, FollowsAt
  <2>2. CASE p # Depth(t)
    <3>1. Frame(t, p)' = Frame(t, p)  BY <2>2 DEF Went
    <3>q. QED  BY <3>1 DEF Kept, Stays
  <2>q. QED  BY <2>1, <2>2
<1>q. QED  BY <1>1, <1>2, KeptOthers DEF Went

LEMMA KeptCalled ==
  ASSUME Inv, NEW t \in Threads, NEW g, NEW c, Called(t, g, c), Follows(Top(t), g),
         FollowsAt(Top(t), g)
  PROVE  \A u \in Threads : \A p \in 1 .. Depth(u)' :
           (Kept(u, p) /\ Stays(u, p)) \/ (u = t /\ p = Depth(t) + 1 /\ Frame(u, p)' = c)
<1>1. /\ Top(t) = Frame(t, Depth(t)) /\ Depth(t)' = Depth(t) + 1 /\ Depth(t) \in Nat
  BY TopFacts DEF Called
<1>2. ASSUME NEW p \in 1 .. Depth(t)  PROVE Kept(t, p) /\ Stays(t, p)
  <2>1. CASE p = Depth(t)
    <3>1. Frame(t, p)' = g /\ Frame(t, p) = Top(t)  BY <1>1, <2>1 DEF Called
    <3>q. QED  BY <3>1 DEF Kept, Stays, Follows, FollowsAt
  <2>2. CASE p # Depth(t)
    <3>1. Frame(t, p)' = Frame(t, p)  BY <2>2 DEF Called
    <3>q. QED  BY <3>1 DEF Kept, Stays
  <2>q. QED  BY <2>1, <2>2
<1>3. \A p \in 1 .. Depth(t)' : p \in 1 .. Depth(t) \/ p = Depth(t) + 1  BY <1>1
<1>4. \A p : p = Depth(t) + 1 => Frame(t, p)' = c  BY DEF Called
<1>q. QED  BY <1>2, <1>3, <1>4, KeptOthers DEF Called

LEMMA KeptReturned ==
  ASSUME Inv, NEW t \in Threads, Returned(t)
  PROVE  \A u \in Threads : \A p \in 1 .. Depth(u)' : Kept(u, p) /\ Stays(u, p)
<1>1. Depth(t)' = Depth(t) - 1 /\ Depth(t) \in Nat  BY StackFacts DEF Returned
<1>2. ASSUME NEW p \in 1 .. Depth(t)'  PROVE Kept(t, p) /\ Stays(t, p)
  <2>1. p \in 1 .. Depth(t) - 1 /\ p \in 1 .. Depth(t)  BY <1>1
  <2>2. Frame(t, p)' = Frame(t, p)  BY <2>1 DEF Returned
  <2>q. QED  BY <2>1, <2>2 DEF Kept, Stays
<1>q. QED  BY <1>2, KeptOthers DEF Returned

LEMMA KeptBegan ==
  ASSUME Inv, NEW t \in Threads, NEW c, Began(t, c)
  PROVE  \A u \in Threads : \A p \in 1 .. Depth(u)' :
           (Kept(u, p) /\ Stays(u, p)) \/ (u = t /\ p = 1 /\ Frame(u, p)' = c)
<1>1. Depth(t)' = 1 /\ Frame(t, 1)' = c /\ Others(t)  BY DEF Began
<1>2. \A p \in 1 .. Depth(t)' : p = 1  BY <1>1
<1>q. QED  BY <1>1, <1>2, KeptOthers

LEMMA KeptSame ==
  ASSUME stack' = stack
  PROVE  \A u \in Threads : \A p \in 1 .. Depth(u)' : Kept(u, p) /\ Stays(u, p)
BY DEF Kept, Stays, Frame, Depth

LEMMA RunRequests ==
  ASSUME Inv, NEW t \in Threads, RunStep(t)
  PROVE  RequestInv'
<1>1. ~Idle(t) /\ Top(t).op = "run" /\ Top(t).at = "enter" /\ asked' = asked /\ applied' = applied
  BY RunStepEffect
<1>2. CASE Returned(t)  BY <1>1, <1>2, KeptReturned, RequestKept
<1>3. CASE ~Returned(t)
  <2>1. PICK n \in Changes, g \in Frames :
          /\ n \in Nested /\ Top(t).id \in DOMAIN Body[Top(t).change]
          /\ Body[Top(t).change][Top(t).id] = RequestCall(n)
          /\ Moved(Top(t), g, "enter") /\ g.id = Top(t).id + 1
          /\ Called(t, g, RequestCall(n))
    BY <1>3, RunStepEffect
  <2>2. PICK e \in Changes : e = Top(t).change  BY <1>1, TopFacts
  <2>3. PICK k \in DOMAIN Body[e] : k = Top(t).id  BY <2>1, <2>2
  <2>4. Body[e][k].change = n /\ k \in Nat  BY <2>1, <2>2, <2>3, BodyFacts, ChangeCalls
  <2>5. Has(t, Depth(t), "run", e) /\ Depth(t) \in 1 .. Depth(t) /\ Frame(t, Depth(t)).id = k
    BY <1>1, <2>2, <2>3, TopFacts DEF Has
  <2>6. ~Asks(n)
    <3>1. ASSUME Asks(n)  PROVE FALSE
      <4>1. Passed(e, k)  BY <2>4, <3>1, RequestOf DEF BodyInv
      <4>2. k > k  BY <2>5, <4>1 DEF Passed
      <4>q. QED  BY <2>4, <4>2
    <3>q. QED  BY <3>1
  <2>7. Follows(Top(t), g) /\ FollowsAt(Top(t), g)
    BY <1>1, <2>1 DEF Moved, Follows, FollowsAt
  <2>8. \A u \in Threads : \A p \in 1 .. Depth(u)' :
          \/ Kept(u, p) /\ Stays(u, p)
          \/ u = t /\ p = Depth(t) + 1 /\ Frame(u, p)' = RequestCall(n)
    BY <2>1, <2>7, KeptCalled
  <2>9. PICK s : s = Depth(t) + 1  OBVIOUS
  <2>10. Extended(t, s, "request", n)
    BY <2>8, <2>9, ChangeCalls DEF Extended, New
  <2>11. Passed(e, k)'
    <3>1. e \in ToSet(applied)  BY <1>1, <2>2, TopRequest
    <3>2. ASSUME NEW u \in Threads, NEW p \in 1 .. Depth(u)', Has(u, p, "run", e)'
          PROVE  Frame(u, p)'.id > k
      <4>1. Kept(u, p)  BY <2>10, <3>2 DEF Extended, New, Has
      <4>2. p \in 1 .. Depth(u) /\ Has(u, p, "run", e)  BY <3>2, <4>1 DEF Kept, Requests, Has
      <4>3. Requests(Frame(t, Depth(t))) /\ Frame(t, Depth(t)).op = "run"
            /\ Frame(t, Depth(t)).change = e
        BY <2>5 DEF Has, Requests
      <4>4. u = t /\ p = Depth(t)  BY <2>5, <4>2, <4>3, RequestOf DEF UniqueInv
      <4>5. Frame(u, p)' = g  BY <2>1, <4>2, <4>4 DEF Called
      <4>q. QED  BY <2>1, <2>3, <2>4, <4>5
    <3>q. QED  BY <1>1, <3>1, <3>2 DEF Passed
  <2>12. \A c \in Changes : \A l \in DOMAIN Body[c] : Body[c][l].change = n => c = e /\ l = k
    BY <2>4, BodyFacts
  <2>13. \A c \in Changes : \A l \in DOMAIN Body[c] : Body[c][l].change = n => Passed(c, l)'
    BY <2>11, <2>12
  <2>q. QED  BY <1>1, <2>6, <2>10, <2>13, RequestCalled
<1>q. QED  BY <1>2, <1>3

LEMMA RequestEntered ==
  ASSUME Inv, NEW t \in Threads, RequestEnter(t)
  PROVE  RequestInv'
<1>1. ~Idle(t) /\ Top(t).op = "request" /\ applied' = applied  BY RequestEnterEffect
<1>2. PICK c \in Changes : c = Top(t).change  BY <1>1, TopFacts
<1>3. PICK g \in Frames : Moved(Top(t), g, "decide") /\ Went(t, g)  BY RequestEnterEffect
<1>4. ToSet(asked') = ToSet(asked) \union {c}
  <2>1. asked' = Append(asked, c)  BY <1>2, RequestEnterEffect
  <2>q. QED  BY <2>1, AppendedSet, FateOf
<1>5. Follows(Top(t), g)  BY <1>1, <1>3 DEF Moved, Follows
<1>6. \A u \in Threads : \A p \in 1 .. Depth(u)' : Kept(u, p)  BY <1>3, <1>5, KeptWent
<1>7. /\ Depth(t) \in 1 .. Depth(t) /\ Top(t) = Frame(t, Depth(t))
      /\ Has(t, Depth(t), "request", c) /\ Requests(Frame(t, Depth(t)))
  BY <1>1, <1>2, TopFacts DEF Has, Requests
<1>8. UniqueInv' /\ RunInv'
  <2>1. UniqueInv'  BY <1>6, UniqueKept
  <2>2. RunInv'  BY <1>1, <1>6, RequestOf DEF RunInv, Kept, Requests
  <2>q. QED  BY <2>1, <2>2
<1>9. AskedInv'
  <2> SUFFICES ASSUME NEW u \in Threads, NEW p \in 1 .. Depth(u)', Frame(u, p)'.op = "request"
               PROVE  Frame(u, p)'.at = "enter" <=> Frame(u, p)'.change \notin ToSet(asked')
    BY DEF AskedInv
  <2>1. CASE u = t /\ p = Depth(t)
    <3>1. Frame(u, p)' = g  BY <1>3, <1>7, <2>1 DEF Went
    <3>q. QED  BY <1>2, <1>3, <1>4, <3>1 DEF Moved
  <2>2. CASE ~(u = t /\ p = Depth(t))
    <3>1. p \in 1 .. Depth(u) /\ Frame(u, p)' = Frame(u, p)
      <4>1. CASE u = t  BY <1>3, <2>2, <4>1 DEF Went
      <4>2. CASE u # t
        <5>1. stack'[u] = stack[u]  BY <1>3, <4>2 DEF Went, Others
        <5>q. QED  BY <5>1, Unmoved
      <4>q. QED  BY <4>1, <4>2
    <3>2. Frame(u, p).change # c
      <4>1. ASSUME Frame(u, p).change = c  PROVE FALSE
        <5>1. Has(u, p, "request", c)  BY <3>1, <4>1 DEF Has
        <5>2. u = t /\ p = Depth(t)
          BY <1>7, <3>1, <5>1, RequestOf DEF UniqueInv, Has
        <5>q. QED  BY <2>2, <5>2
      <4>q. QED  BY <4>1
    <3>q. QED  BY <1>4, <3>1, <3>2, RequestOf DEF AskedInv
  <2>q. QED  BY <2>1, <2>2
<1>10. BodyInv'
  <2> SUFFICES ASSUME NEW e \in Changes, NEW k \in DOMAIN Body[e], Asks(Body[e][k].change)'
               PROVE  Passed(e, k)'
    BY DEF BodyInv
  <2>1. PICK n : n = Body[e][k].change  OBVIOUS
  <2>2. Asks(n)'  BY <2>1
  <2>3. Asks(n)
    <3>1. CASE n \in ToSet(asked')
      <4>1. CASE n = c  BY <1>7, <4>1 DEF Asks
      <4>2. CASE n # c  BY <1>4, <3>1, <4>2 DEF Asks
      <4>q. QED  BY <4>1, <4>2
    <3>2. CASE n \notin ToSet(asked')  BY <1>6, <2>2, <3>2 DEF Asks, Has, Kept, Requests
    <3>q. QED  BY <3>1, <3>2
  <2>4. Passed(e, k)  BY <2>1, <2>3, RequestOf DEF BodyInv
  <2>5. ToSet(applied) \subseteq ToSet(applied')  BY <1>1
  <2>q. QED  BY <1>6, <2>4, <2>5, PassedKept
<1>q. QED  BY <1>8, <1>9, <1>10, RequestPartsNext

LEMMA FunctionRuns ==
  ASSUME Inv, NEW t \in Threads, NEW g, NEW c \in Changes, c \notin ToSet(applied),
         Called(t, g, FunctionCall(c)), Follows(Top(t), g), FollowsAt(Top(t), g),
         asked' = asked, applied' = Append(applied, c)
  PROVE  RequestInv'
<1>1. \A u \in Threads : \A p \in 1 .. Depth(u)' :
        \/ Kept(u, p) /\ Stays(u, p)
        \/ u = t /\ p = Depth(t) + 1 /\ Frame(u, p)' = FunctionCall(c)
  BY KeptCalled
<1>2. PICK s : s = Depth(t) + 1  OBVIOUS
<1>3. Extended(t, s, "run", c)  BY <1>1, <1>2, ChangeCalls DEF Extended, New
<1>q. QED  BY <1>3, RequestRuns

LEMMA RequestPlain ==
  ASSUME Inv, NEW t \in Threads, asked' = asked, applied' = applied,
         \/ Returned(t)
         \/ \E g : Went(t, g) /\ ~Requests(g)
         \/ \E c : Began(t, c) /\ ~Requests(c)
  PROVE  RequestInv'
<1>1. CASE Returned(t)  BY <1>1, KeptReturned, RequestKept
<1>2. CASE \E g : Went(t, g) /\ ~Requests(g)
  <2>1. PICK g : Went(t, g) /\ ~Requests(g)  BY <1>2
  <2>2. Follows(Top(t), g) /\ FollowsAt(Top(t), g)  BY <2>1 DEF Follows, FollowsAt, Requests
  <2>3. \A u \in Threads : \A p \in 1 .. Depth(u)' : Kept(u, p) /\ Stays(u, p)
    BY <2>1, <2>2, KeptWent
  <2>q. QED  BY <2>3, RequestKept
<1>3. CASE \E c : Began(t, c) /\ ~Requests(c)
  <2>1. PICK c : Began(t, c) /\ ~Requests(c)  BY <1>3
  <2>2. \A u \in Threads : \A p \in 1 .. Depth(u)' :
          (Kept(u, p) /\ Stays(u, p)) \/ Frame(u, p)' = c
    BY <2>1, KeptBegan
  <2>3. \A u \in Threads : \A p \in 1 .. Depth(u)' : Kept(u, p) /\ Stays(u, p)
    BY <2>1, <2>2 DEF Kept, Stays, Requests
  <2>q. QED  BY <2>3, RequestKept
<1>q. QED  BY <1>1, <1>2, <1>3

LEMMA RequestStep ==
  ASSUME Inv, Next
  PROVE  RequestInv'
<1>1. ASSUME NEW t \in Threads, RequestInPlace(t)  PROVE RequestInv'
  <2>1. ~Idle(t) /\ Top(t).op = "request" /\ Top(t).at = "decide" /\ asked' = asked
    BY <1>1, RequestInPlaceEffect
  <2>2. PICK c \in Changes : c = Top(t).change  BY <2>1, Decider
  <2>3. c \notin ToSet(applied) /\ applied' = Append(applied, c)
    BY <1>1, <2>1, <2>2, Decider, RequestInPlaceEffect
  <2>4. PICK g \in Frames : Moved(Top(t), g, "return") /\ Called(t, g, FunctionCall(c))
    BY <1>1, <2>2, RequestInPlaceEffect
  <2>5. Follows(Top(t), g) /\ FollowsAt(Top(t), g)
    BY <2>1, <2>4 DEF Moved, Follows, FollowsAt
  <2>q. QED  BY <2>1, <2>3, <2>4, <2>5, FunctionRuns
<1>2. ASSUME NEW t \in Threads,
             \/ RequestEnqueue(t) \/ RequestReturn(t) \/ PerformReturn(t) \/ AddEnter(t)
             \/ AddAttach(t) \/ RemoveEnter(t) \/ RemoveDetach(t) \/ RemoveErase(t)
             \/ RemoveReturn(t)
      PROVE  RequestInv'
  <2>1. asked' = asked /\ applied' = applied
    BY <1>2, RequestEnqueueEffect, RequestReturnEffect, PerformReturnEffect, AddEnterEffect,
       AddAttachEffect, RemoveEnterEffect, RemoveDetachEffect, RemoveEraseEffect,
       RemoveReturnEffect
  <2>2. Returned(t) \/ \E g : Went(t, g) /\ ~Requests(g)
    <3>1. CASE \/ RequestEnqueue(t) \/ RequestReturn(t) \/ PerformReturn(t) \/ AddAttach(t)
               \/ RemoveReturn(t)
      BY <3>1, RequestEnqueueEffect, RequestReturnEffect, PerformReturnEffect,
         AddAttachEffect, RemoveReturnEffect
    <3>2. CASE AddEnter(t)  BY <3>2, AddEnterEffect DEF Moved, Requests
    <3>3. CASE RemoveEnter(t)  BY <3>3, RemoveEnterEffect DEF Moved, Requests
    <3>4. CASE RemoveDetach(t)  BY <3>4, RemoveDetachEffect DEF Moved, Requests
    <3>5. CASE RemoveErase(t)  BY <3>5, RemoveEraseEffect DEF Moved, Requests
    <3>q. QED  BY <1>2, <3>1, <3>2, <3>3, <3>4, <3>5
  <2>q. QED  BY <2>1, <2>2, RequestPlain
<1>3. ASSUME NEW t \in Threads, PerformEnter(t)  PROVE RequestInv'
  <2>1. asked' = asked /\ ~Idle(t) /\ Top(t).op = "perform"  BY <1>3, PerformEnterEffect
  <2>2. PICK d \in Devices : d = Top(t).device  BY <2>1, TopFacts
  <2>3. PICK id : id = Top(t).id  OBVIOUS
  <2>4. PICK g \in Frames :
          /\ Moved(Top(t), g, "return")
          /\ \/ /\ id \in DOMAIN pending[d] /\ pending[d][id] \in Changes
                /\ Called(t, g, FunctionCall(pending[d][id]))
                /\ applied' = Append(applied, pending[d][id])
             \/ /\ id \notin DOMAIN pending[d] /\ Went(t, g) /\ applied' = applied
    BY <1>3, <2>2, <2>3, PerformEnterEffect
  <2>5. ~Requests(g) /\ Follows(Top(t), g) /\ FollowsAt(Top(t), g)
    BY <2>1, <2>4 DEF Moved, Follows, FollowsAt, Requests
  <2>6. CASE id \in DOMAIN pending[d]
    <3>1. CanLockDevice(t, d) /\ \A e, x : ~Running(t, e, x)
      BY <1>3, <2>2, PerformEnterEffect, PerformEnterOuter
    <3>2. \A u \in Threads : ~Running(u, d, id)  BY <3>1, Holders, Alone
    <3>3. PICK c \in Changes : c = pending[d][id]  BY <2>6, StoredFacts
    <3>4. c \notin ToSet(applied)  BY <2>6, <3>2, <3>3, StoredFacts
    <3>5. Called(t, g, FunctionCall(c)) /\ applied' = Append(applied, c)  BY <2>4, <2>6, <3>3
    <3>q. QED  BY <2>1, <2>5, <3>4, <3>5, FunctionRuns
  <2>7. CASE id \notin DOMAIN pending[d]
    <3>1. Went(t, g) /\ applied' = applied  BY <2>4, <2>7
    <3>q. QED  BY <2>1, <2>5, <3>1, RequestPlain
  <2>q. QED  BY <2>6, <2>7
<1>4. ASSUME NEW t \in Threads, RemoveFlush(t)  PROVE RequestInv'
  <2>1. PICK d \in Devices : d = Top(t).device  BY <1>4, RemoveFlushEffect
  <2>2. PICK id : id = FirstPending(d)  OBVIOUS
  <2>3. asked' = asked /\ Top(t).op = "remove" /\ id \in DOMAIN pending[d]
    BY <1>4, <2>1, <2>2, RemoveFlushEffect
  <2>4. Flushes(t, d) /\ \A e, x : ~Running(t, e, x)  BY <1>4, <2>1, RemoveFlushOuter
  <2>5. HoldsDevice(t, d)  BY <2>4, Holders
  <2>6. \A u \in Threads : ~Running(u, d, id)  BY <2>4, <2>5, Holders, Alone
  <2>7. PICK c \in Changes : c = pending[d][id]  BY <2>3, StoredFacts
  <2>8. c \notin ToSet(applied)  BY <2>3, <2>6, <2>7, StoredFacts
  <2>9. PICK g \in Frames : Moved(Top(t), g, "flushing") /\ Called(t, g, FunctionCall(c))
    BY <1>4, <2>1, <2>2, <2>7, RemoveFlushEffect
  <2>10. applied' = Append(applied, c)  BY <1>4, <2>1, <2>2, <2>7, RemoveFlushEffect
  <2>11. Follows(Top(t), g) /\ FollowsAt(Top(t), g)
    BY <2>3, <2>9 DEF Moved, Follows, FollowsAt, Requests
  <2>q. QED  BY <2>3, <2>8, <2>9, <2>10, <2>11, FunctionRuns
<1>5. ASSUME NEW t \in Users, NEW c \in Changes, UserRequests(t, c)  PROVE RequestInv'
  <2>1. /\ t \in Threads /\ c \notin Nested /\ Began(t, RequestCall(c))
        /\ \A u \in Threads : \A p \in 1 .. Depth(u) : Frame(u, p).change # c
        /\ c \notin ToSet(asked) /\ asked' = asked /\ applied' = applied
    BY <1>5, UserRequestsEffect
  <2>2. ~Asks(c)  BY <2>1 DEF Asks, Has
  <2>3. PICK s : s = 1  OBVIOUS
  <2>4. Extended(t, s, "request", c)
    BY <2>1, <2>3, KeptBegan, ChangeCalls DEF Extended, New
  <2>5. \A e \in Changes : \A k \in DOMAIN Body[e] : Body[e][k].change # c
    BY <2>1, BodyFacts
  <2>q. QED  BY <2>1, <2>2, <2>4, <2>5, RequestCalled
<1>6. ASSUME NEW t \in Users, NEW d \in Devices, UserMoves(t, d)  PROVE RequestInv'
  <2>1. t \in Threads /\ asked' = asked /\ applied' = applied  BY <1>6, UserMovesEffect
  <2>2. \E c : Began(t, c) /\ ~Requests(c)  BY <1>6, UserMovesEffect DEF Requests
  <2>q. QED  BY <2>1, <2>2, RequestPlain
<1>7. ASSUME NEW d \in Devices, HalPerforms(d)  PROVE RequestInv'
  <2>1. Hal \in Threads /\ asked' = asked /\ applied' = applied  BY <1>7, HalPerformsEffect
  <2>2. \E c : Began(Hal, c) /\ ~Requests(c)  BY <1>7, HalPerformsEffect DEF Requests
  <2>q. QED  BY <2>1, <2>2, RequestPlain
<1>8. ASSUME HalConnects \/ \E d \in Devices : HalAborts(d) \/ HalForgets(d)
      PROVE  RequestInv'
  <2>1. stack' = stack /\ asked' = asked /\ applied' = applied
    BY <1>8, HalConnectsEffect, HalAbortsEffect, HalForgetsEffect
  <2>q. QED  BY <2>1, KeptSame, RequestKept
<1>9. ASSUME NEW t \in Threads, Step(t)  PROVE RequestInv'
  BY <1>1, <1>2, <1>3, <1>4, <1>9, RunRequests, RequestEntered DEF Step
<1>q. QED  BY <1>5, <1>6, <1>7, <1>8, <1>9 DEF Next

-----------------------------------------------------------------------------
(* OrderInv, by the order in which two changes were asked.                 *)
Before(a, b) == \E i, j \in DOMAIN asked : i < j /\ asked[i] = a /\ asked[j] = b
IdsOrdered ==
  \A d \in Devices : \A x, y \in DOMAIN pending[d] : \A a, b :
    a = pending[d][x] /\ b = pending[d][y] /\ Before(a, b) => x < y
LastDecides ==
  \A t \in Threads : \A a, b : Deciding(t, a) /\ Before(a, b) => Target[b] # Target[a]
AppliedInOrder ==
  \A a, b : \A n \in DOMAIN applied :
    Before(a, b) /\ Target[a] = Target[b] /\ b \notin Nested /\ applied[n] = b
    => a \in aborted \/ \E m \in 1 .. n - 1 : applied[m] = a

LEMMA OrderOf ==
  ASSUME Inv
  PROVE  IdsOrdered /\ LastDecides /\ AppliedInOrder
<1>1. OrderInv  BY DEF Inv, IInv
<1>2. IdsOrdered  BY <1>1 DEF OrderInv, IdsOrdered, Before
<1>3. LastDecides  BY <1>1 DEF OrderInv, LastDecides, Before
<1>4. AppliedInOrder  BY <1>1 DEF OrderInv, InOrder, AppliedInOrder, Before
<1>q. QED  BY <1>2, <1>3, <1>4

LEMMA OrderPartsNext ==
  ASSUME IdsOrdered', LastDecides', AppliedInOrder'
  PROVE  OrderInv'
BY DEF OrderInv, InOrder, IdsOrdered, LastDecides, AppliedInOrder, Before

LEMMA BeforeFacts ==
  ASSUME Inv, NEW a, NEW b, Before(a, b)
  PROVE  /\ a \in ToSet(asked) /\ b \in ToSet(asked) /\ a # b
         /\ a \in Changes /\ b \in Changes
<1>1. PICK i, j \in DOMAIN asked : i < j /\ asked[i] = a /\ asked[j] = b  BY DEF Before
<1>2. a \in ToSet(asked) /\ b \in ToSet(asked)  BY <1>1 DEF ToSet
<1>3. i \in Nat /\ j \in Nat
  <2>1. asked \in Seq(Changes)  BY FateOf
  <2>2. DOMAIN asked = 1 .. Len(asked) /\ Len(asked) \in Nat  BY <2>1, LenProperties
  <2>q. QED  BY <2>2
<1>4. a # b  BY <1>1, <1>3, FateOf DEF AskedOnce
<1>q. QED  BY <1>2, <1>4, FateOf

LEMMA BeforeSame ==
  ASSUME asked' = asked
  PROVE  \A a, b : Before(a, b)' <=> Before(a, b)
BY DEF Before

LEMMA OrderKept ==
  ASSUME Inv, asked' = asked, applied' = applied, aborted \subseteq aborted',
         \A u \in Threads : \A c : Deciding(u, c)' => Deciding(u, c),
         \A d \in Devices : \A x \in DOMAIN pending'[d] :
           x \in DOMAIN pending[d] /\ pending'[d][x] = pending[d][x]
  PROVE  OrderInv'
<1>1. \A a, b : Before(a, b)' <=> Before(a, b)  BY BeforeSame
<1>2. IdsOrdered'
  <2> SUFFICES ASSUME NEW d \in Devices, NEW x \in DOMAIN pending'[d], NEW y \in DOMAIN pending'[d],
                      NEW a, NEW b, a = pending'[d][x], b = pending'[d][y], Before(a, b)'
               PROVE  x < y
    BY DEF IdsOrdered
  <2>1. Before(a, b)  BY <1>1
  <2>q. QED  BY <2>1, OrderOf DEF IdsOrdered
<1>3. LastDecides'  BY <1>1, OrderOf DEF LastDecides
<1>4. AppliedInOrder'  BY <1>1, OrderOf DEF AppliedInOrder
<1>q. QED  BY <1>2, <1>3, <1>4, OrderPartsNext

(* The function of a change begins to run, after all that it must follow.  *)
LEMMA OrderRuns ==
  ASSUME Inv, NEW c \in Changes, asked' = asked, applied' = Append(applied, c),
         aborted' = aborted, pending' = pending,
         \A u \in Threads : \A k : Deciding(u, k)' => Deciding(u, k),
         \A a : Before(a, c) /\ Target[a] = Target[c] /\ c \notin Nested =>
           a \in aborted \/ a \in ToSet(applied)
  PROVE  OrderInv'
<1>1. \A a, b : Before(a, b)' <=> Before(a, b)  BY BeforeSame
<1>2. IdsOrdered'
  <2> SUFFICES ASSUME NEW d \in Devices, NEW x \in DOMAIN pending[d], NEW y \in DOMAIN pending[d],
                      NEW a, NEW b, a = pending[d][x], b = pending[d][y], Before(a, b)
               PROVE  x < y
    BY <1>1 DEF IdsOrdered
  <2>q. QED  BY OrderOf DEF IdsOrdered
<1>3. LastDecides'  BY <1>1, OrderOf DEF LastDecides
<1>4. PICK l : l = Len(applied)  OBVIOUS
<1>5. /\ l \in Nat /\ DOMAIN applied = 1 .. l /\ DOMAIN applied' = 1 .. l + 1
      /\ \A m \in 1 .. l : applied'[m] = applied[m]
      /\ \A m : m = l + 1 => applied'[m] = c
  <2>1. applied \in Seq(Changes)  BY FateOf
  <2>2. PICK r : r = applied' /\ r = Append(applied, c)  OBVIOUS
  <2>3. /\ Len(applied) \in Nat /\ DOMAIN applied = 1 .. Len(applied)
        /\ DOMAIN r = 1 .. Len(applied) + 1
        /\ \A i \in 1 .. Len(applied) : r[i] = applied[i]
        /\ \A i : i = Len(applied) + 1 => r[i] = c
    BY <2>1, <2>2, AppendProperties, LenProperties
  <2>q. QED  BY <1>4, <2>2, <2>3
<1>6. AppliedInOrder'
  <2> SUFFICES ASSUME NEW a, NEW b, NEW n \in DOMAIN applied', Before(a, b),
                      Target[a] = Target[b], b \notin Nested, applied'[n] = b
               PROVE  a \in aborted \/ \E m \in 1 .. n - 1 : applied'[m] = a
    BY <1>1 DEF AppliedInOrder
  <2>1. CASE n \in 1 .. l
    <3>1. applied[n] = b /\ n \in DOMAIN applied  BY <1>5, <2>1
    <3>2. a \in aborted \/ \E m \in 1 .. n - 1 : applied[m] = a
      BY <3>1, OrderOf DEF AppliedInOrder
    <3>3. \A m \in 1 .. n - 1 : applied'[m] = applied[m]  BY <1>5, <2>1
    <3>q. QED  BY <3>2, <3>3
  <2>2. CASE n \notin 1 .. l
    <3>1. n = l + 1 /\ b = c  BY <1>5, <2>2
    <3>2. a \in aborted \/ a \in ToSet(applied)  BY <3>1
    <3>3. CASE a \in ToSet(applied)
      <4>1. PICK m \in 1 .. l : applied[m] = a  BY <1>5, <3>3 DEF ToSet
      <4>2. m \in 1 .. n - 1 /\ applied'[m] = a  BY <1>5, <3>1, <4>1
      <4>q. QED  BY <4>2
    <3>q. QED  BY <3>2, <3>3
  <2>q. QED  BY <2>1, <2>2
<1>q. QED  BY <1>2, <1>3, <1>6, OrderPartsNext

LEMMA OrderEntered ==
  ASSUME Inv, NEW t \in Threads, RequestEnter(t)
  PROVE  OrderInv'
<1>1. /\ ~Idle(t) /\ Top(t).op = "request" /\ Top(t).at = "enter" /\ pending' = pending
      /\ applied' = applied /\ aborted' = aborted
  BY RequestEnterEffect
<1>2. PICK c \in Changes : c = Top(t).change /\ Target[c] = Top(t).device  BY <1>1, TopFacts
<1>3. /\ c \notin ToSet(asked) /\ asked' = Append(asked, c) /\ CanLockDevice(t, Target[c])
      /\ Target[c] \in Devices
  BY <1>1, <1>2, TopRequest, RequestEnterEffect, ChangeCalls
<1>4. \A a, b : Before(a, b)' => Before(a, b) \/ (b = c /\ a \in ToSet(asked))
  <2> SUFFICES ASSUME NEW a, NEW b, Before(a, b)'
               PROVE  Before(a, b) \/ (b = c /\ a \in ToSet(asked))
    OBVIOUS
  <2>1. PICK r : r = asked' /\ r = Append(asked, c)  BY <1>3
  <2>2. asked \in Seq(Changes)  BY FateOf
  <2>3. PICK l : l = Len(asked)  OBVIOUS
  <2>4. /\ l \in Nat /\ DOMAIN asked = 1 .. l /\ DOMAIN r = 1 .. l + 1
        /\ \A i \in 1 .. l : r[i] = asked[i]
        /\ \A i : i = l + 1 => r[i] = c
    BY <2>1, <2>2, <2>3, AppendProperties, LenProperties
  <2>5. PICK i \in 1 .. l + 1, j \in 1 .. l + 1 : i < j /\ r[i] = a /\ r[j] = b
    BY <2>1, <2>4 DEF Before
  <2>6. i \in 1 .. l /\ asked[i] = a  BY <2>4, <2>5
  <2>7. CASE j \in 1 .. l  BY <2>4, <2>5, <2>6, <2>7 DEF Before
  <2>8. CASE j \notin 1 .. l
    <3>1. j = l + 1 /\ b = c  BY <2>4, <2>5, <2>8
    <3>q. QED  BY <2>4, <2>6, <3>1 DEF ToSet
  <2>q. QED  BY <2>7, <2>8
<1>5. IdsOrdered'
  <2> SUFFICES ASSUME NEW d \in Devices, NEW x \in DOMAIN pending[d], NEW y \in DOMAIN pending[d],
                      NEW a, NEW b, a = pending[d][x], b = pending[d][y], Before(a, b)'
               PROVE  x < y
    BY <1>1 DEF IdsOrdered
  <2>1. b # c  BY <1>3, StoredFacts
  <2>2. Before(a, b)  BY <1>4, <2>1
  <2>q. QED  BY <2>2, OrderOf DEF IdsOrdered
<1>6. LastDecides'
  <2> SUFFICES ASSUME NEW u \in Threads, NEW a, NEW b, Deciding(u, a)', Before(a, b)'
               PROVE  Target[b] # Target[a]
    BY DEF LastDecides
  <2>1. /\ \A k : ~Deciding(t, k)
        /\ Deciding(u, a) \/ a = c
    BY <1>2, DecidingRequest
  <2>2. Before(a, b) \/ (b = c /\ a \in ToSet(asked))  BY <1>4
  <2>3. a \in ToSet(asked)  BY <2>2, BeforeFacts
  <2>4. Deciding(u, a)  BY <1>3, <2>1, <2>3
  <2>5. CASE Before(a, b)  BY <2>4, <2>5, OrderOf DEF LastDecides
  <2>6. CASE b = c
    <3>1. ASSUME Target[a] = Target[c]  PROVE FALSE
      <4>1. HoldsDevice(u, Target[c])  BY <2>4, <3>1, Holders
      <4>2. u = t  BY <1>3, <4>1, Alone
      <4>q. QED  BY <2>1, <2>4, <4>2
    <3>q. QED  BY <2>6, <3>1
  <2>q. QED  BY <2>2, <2>5, <2>6
<1>7. AppliedInOrder'
  <2> SUFFICES ASSUME NEW a, NEW b, NEW n \in DOMAIN applied, Before(a, b)',
                      Target[a] = Target[b], b \notin Nested, applied[n] = b
               PROVE  a \in aborted \/ \E m \in 1 .. n - 1 : applied[m] = a
    BY <1>1 DEF AppliedInOrder
  <2>1. b \in ToSet(asked)  BY FateOf DEF Fates, ToSet
  <2>2. Before(a, b)  BY <1>3, <1>4, <2>1
  <2>q. QED  BY <2>2, OrderOf DEF AppliedInOrder
<1>q. QED  BY <1>5, <1>6, <1>7, OrderPartsNext

LEMMA OrderEnqueued ==
  ASSUME Inv, NEW t \in Threads, RequestEnqueue(t)
  PROVE  OrderInv'
<1>1. ~Idle(t) /\ Top(t).op = "request" /\ Top(t).at = "decide"  BY RequestEnqueueEffect
<1>2. PICK d \in Devices : d = Top(t).device  BY <1>1, Decider
<1>3. PICK c \in Changes : c = Top(t).change  BY <1>1, Decider
<1>4. Target[c] = d /\ Deciding(t, c)  BY <1>1, <1>2, <1>3, Decider
<1>5. Enqueues(d, c) /\ asked' = asked /\ applied' = applied /\ aborted' = aborted
  BY <1>2, <1>3, RequestEnqueueEffect
<1>6. /\ DOMAIN pending'[d] = DOMAIN pending[d] \union {nextID[d]}
      /\ \A x \in DOMAIN pending[d] : pending'[d][x] = pending[d][x] /\ x < nextID[d]
      /\ \A x : x = nextID[d] => pending'[d][x] = c
      /\ \A e \in Devices \ {d} : pending'[e] = pending[e]
  BY <1>5, EnqueueFacts
<1>7. \A a, b : Before(a, b)' <=> Before(a, b)  BY <1>5, BeforeSame
<1>8. IdsOrdered'
  <2> SUFFICES ASSUME NEW e \in Devices, NEW x \in DOMAIN pending'[e], NEW y \in DOMAIN pending'[e],
                      NEW a, NEW b, a = pending'[e][x], b = pending'[e][y], Before(a, b)'
               PROVE  x < y
    BY DEF IdsOrdered
  <2>1. Before(a, b)  BY <1>7
  <2>3. CASE e # d \/ (x # nextID[d] /\ y # nextID[d])
    <3>1. /\ x \in DOMAIN pending[e] /\ y \in DOMAIN pending[e]
          /\ a = pending[e][x] /\ b = pending[e][y]
      BY <1>6, <2>3
    <3>q. QED  BY <2>1, <3>1, OrderOf DEF IdsOrdered
  <2>4. CASE e = d /\ x = nextID[d]
    <3>1. a = c  BY <1>6, <2>4
    <3>2. Target[b] # d /\ b # c  BY <1>4, <2>1, <3>1, OrderOf, BeforeFacts DEF LastDecides
    <3>3. y \in DOMAIN pending[d] /\ b = pending[d][y]  BY <1>6, <2>4, <3>2
    <3>q. QED  BY <3>2, <3>3, StoredFacts
  <2>5. CASE e = d /\ x # nextID[d] /\ y = nextID[d]  BY <1>6, <2>5
  <2>q. QED  BY <2>3, <2>4, <2>5
<1>9. \A u \in Threads : \A k : Deciding(u, k)' => Deciding(u, k)  BY DecidingRequest
<1>10. LastDecides'  BY <1>7, <1>9, OrderOf DEF LastDecides
<1>11. AppliedInOrder'  BY <1>5, <1>7, OrderOf DEF AppliedInOrder
<1>q. QED  BY <1>8, <1>10, <1>11, OrderPartsNext

LEMMA FateIds ==
  ASSUME Inv, NEW d \in Devices
  PROVE  \A x \in DOMAIN pending[d] : x \in Nat
<1>1. DOMAIN pending[d] \subseteq 0 .. nextID[d] - 1 /\ nextID[d] \in Nat
  BY DEF Inv, IInv, StateInv
<1>q. QED  BY <1>1

LEMMA EraseKeeps ==
  ASSUME Inv, NEW d \in Devices, NEW id, Erase(d, id)
  PROVE  \A e \in Devices : \A x \in DOMAIN pending'[e] :
           x \in DOMAIN pending[e] /\ pending'[e][x] = pending[e][x]
<1>1. ASSUME NEW e \in Devices, NEW x \in DOMAIN pending'[e]
      PROVE  x \in DOMAIN pending[e] /\ pending'[e][x] = pending[e][x]
  <2>1. CASE e = d  BY <2>1, EraseFacts
  <2>2. CASE e # d  BY <2>2, EraseFacts
  <2>q. QED  BY <2>1, <2>2
<1>q. QED  BY <1>1

LEMMA OrderInPlace ==
  ASSUME Inv, NEW t \in Threads, RequestInPlace(t)
  PROVE  OrderInv'
<1>1. ~Idle(t) /\ Top(t).op = "request" /\ Top(t).at = "decide"  BY RequestInPlaceEffect
<1>2. PICK d \in Devices : d = Top(t).device  BY <1>1, Decider
<1>3. PICK c \in Changes : c = Top(t).change  BY <1>1, Decider
<1>4. /\ Target[c] = d /\ HoldsDevice(t, d) /\ \A u \in Threads : Deciding(u, c) => u = t
      /\ \A k : Deciding(t, k) => k = c
  BY <1>1, <1>2, <1>3, Decider DEF Deciding
<1>5. /\ applied' = Append(applied, c) /\ pending' = pending /\ asked' = asked
      /\ aborted' = aborted /\ ~MustEnqueue(Top(t))
  BY <1>3, RequestInPlaceEffect
<1>6. \A u \in Threads : \A k : Deciding(u, k)' => Deciding(u, k)  BY DecidingRequest
<1>7. ASSUME NEW a, Before(a, c), Target[a] = d, c \notin Nested, a \notin aborted,
             a \notin ToSet(applied)
      PROVE  FALSE
  <2>1. a \in ToSet(asked) /\ a # c  BY <1>7, BeforeFacts
  <2>2. \A u \in Threads : ~Deciding(u, a)
    <3>1. ASSUME NEW u \in Threads, Deciding(u, a)  PROVE FALSE
      <4>1. HoldsDevice(u, d)  BY <1>7, <3>1, Holders
      <4>2. u = t  BY <1>4, <4>1, Alone
      <4>q. QED  BY <1>4, <2>1, <3>1, <4>2
    <3>q. QED  BY <3>1
  <2>3. a \in PendingChanges(d)  BY <1>7, <2>1, <2>2, FateOf DEF FatedInv
  <2>4. DOMAIN pending[d] # {}  BY <2>3 DEF PendingChanges
  <2>5. Top(t).hosted
    <3>1. host  BY <2>4 DEF Inv, IInv, HostInv
    <3>q. QED  BY <1>1, <3>1, HostedFrames DEF Hosted
  <2>6. Frame(t, 1) = Top(t)  BY <1>1, <1>3, <1>7, TopFacts
  <2>7. d \in owned
    <3>1. ASSUME d \notin owned  PROVE FALSE
      <4>1. PICK u \in Threads : Flushes(u, d)  BY <2>4, <3>1 DEF Inv, IInv, OwnerInv
      <4>2. HoldsDevice(u, d) /\ Frame(u, 1).op = "remove"  BY <4>1, Holders
      <4>3. u = t  BY <1>4, <4>2, Alone
      <4>q. QED  BY <1>1, <2>6, <4>2, <4>3
    <3>q. QED  BY <3>1
  <2>8. inside[d] = 0
    <3>1. ASSUME Performs(d), Frame(Hal, 1).at = "return"  PROVE FALSE
      <4>1. Hal \in Threads  BY DEF Threads
      <4>2. HoldsDevice(Hal, d)  BY <3>1, <4>1, Holders
      <4>3. Hal = t  BY <1>4, <4>1, <4>2, Alone
      <4>4. Frame(t, 1).op = "perform"  BY <1>1, <4>3, FirstFacts
      <4>q. QED  BY <1>1, <2>6, <4>4
    <3>2. inside[d] = IF Performs(d) /\ Frame(Hal, 1).at = "return" THEN 1 ELSE 0
      BY DEF Inv, IInv, OwnerInv
    <3>q. QED  BY <3>1, <3>2
  <2>q. QED  BY <1>2, <1>5, <2>5, <2>7, <2>8 DEF MustEnqueue
<1>8. \A a : Before(a, c) /\ Target[a] = Target[c] /\ c \notin Nested =>
        a \in aborted \/ a \in ToSet(applied)
  BY <1>4, <1>7
<1>q. QED  BY <1>5, <1>6, <1>8, OrderRuns

(* The lowest of the stored changes runs, while no thread decides.         *)
LEMMA OrderStored ==
  ASSUME Inv, NEW t \in Threads, ~Idle(t), Top(t).op # "request", NEW d \in Devices,
         HoldsDevice(t, d) \/ CanLockDevice(t, d), NEW id \in DOMAIN pending[d],
         \A x \in DOMAIN pending[d] : ~(x < id),
         applied' = Append(applied, pending[d][id]), asked' = asked, aborted' = aborted,
         pending' = pending, DecidingKept
  PROVE  OrderInv'
<1>1. PICK c \in Changes : c = pending[d][id]  BY StoredFacts
<1>2. Target[c] = d /\ applied' = Append(applied, c)  BY <1>1, StoredFacts
<1>3. ASSUME NEW a, Before(a, c), Target[a] = d, a \notin aborted, a \notin ToSet(applied)
      PROVE  FALSE
  <2>1. a \in ToSet(asked)  BY <1>3, BeforeFacts
  <2>2. \A u \in Threads : ~Deciding(u, a)
    <3>1. ASSUME NEW u \in Threads, Deciding(u, a)  PROVE FALSE
      <4>1. HoldsDevice(u, d)  BY <1>3, <3>1, Holders
      <4>2. u = t  BY <4>1, Alone
      <4>q. QED  BY <3>1, <4>2 DEF Deciding
    <3>q. QED  BY <3>1
  <2>3. a \in PendingChanges(d)  BY <1>3, <2>1, <2>2, FateOf DEF FatedInv
  <2>4. PICK x \in DOMAIN pending[d] : a = pending[d][x]  BY <2>3 DEF PendingChanges
  <2>5. x < id  BY <1>1, <1>3, <2>4, OrderOf DEF IdsOrdered
  <2>q. QED  BY <2>5
<1>4. \A a : Before(a, c) /\ Target[a] = Target[c] /\ c \notin Nested =>
        a \in aborted \/ a \in ToSet(applied)
  BY <1>2, <1>3
<1>5. \A u \in Threads : \A k : Deciding(u, k)' => Deciding(u, k)  BY DEF DecidingKept
<1>q. QED  BY <1>2, <1>4, <1>5, OrderRuns

LEMMA OrderPerformed ==
  ASSUME Inv, NEW t \in Threads, PerformEnter(t)
  PROVE  OrderInv'
<1>1. /\ asked' = asked /\ aborted' = aborted /\ pending' = pending /\ DecidingKept
      /\ ~Idle(t) /\ Top(t).op = "perform" /\ t = Hal
  BY PerformEnterEffect, DecidingMove
<1>2. PICK d \in Devices : d = Top(t).device  BY <1>1, TopFacts
<1>3. PICK id : id = Top(t).id  OBVIOUS
<1>4. CanLockDevice(t, d)  BY <1>2, PerformEnterEffect
<1>5. CASE id \in DOMAIN pending[d]
  <2>1. applied' = Append(applied, pending[d][id])
    BY <1>2, <1>3, <1>5, PerformEnterEffect
  <2>2. d \in owned
    <3>1. ASSUME d \notin owned  PROVE FALSE
      <4>1. DOMAIN pending[d] # {}  BY <1>5
      <4>2. PICK u \in Threads : Flushes(u, d)  BY <3>1, <4>1 DEF Inv, IInv, OwnerInv
      <4>3. HoldsDevice(u, d) /\ u # Hal  BY <4>2, Holders
      <4>q. QED  BY <1>1, <1>4, <4>3, Alone
    <3>q. QED  BY <3>1
  <2>3. Performs(d) /\ Frame(Hal, 1).id = id  BY <1>2, <1>3, PerformEnterOuter
  <2>4. ASSUME NEW x \in DOMAIN pending[d], x < id  PROVE FALSE
    <3>1. QueueInv  BY DEF Inv, IInv
    <3>2. (\E i \in DOMAIN queue[d] : queue[d][i] = x) \/ id = x
      BY <2>2, <2>3, <3>1 DEF QueueInv
    <3>3. \A i \in DOMAIN queue[d] : id < queue[d][i]  BY <2>3, <3>1 DEF QueueInv
    <3>4. x \in Nat /\ id \in Nat  BY <1>5, FateIds
    <3>q. QED  BY <2>4, <3>2, <3>3, <3>4
  <2>q. QED  BY <1>1, <1>4, <1>5, <2>1, <2>4, OrderStored
<1>6. CASE id \notin DOMAIN pending[d]
  <2>1. applied' = applied  BY <1>2, <1>3, <1>6, PerformEnterEffect
  <2>q. QED  BY <1>1, <2>1, OrderKept DEF DecidingKept
<1>q. QED  BY <1>5, <1>6

LEMMA OrderFlushed ==
  ASSUME Inv, NEW t \in Threads, RemoveFlush(t)
  PROVE  OrderInv'
<1>1. PICK d \in Devices : d = Top(t).device  BY RemoveFlushEffect
<1>2. PICK id : id = FirstPending(d)  OBVIOUS
<1>3. /\ asked' = asked /\ aborted' = aborted /\ pending' = pending /\ DecidingKept
      /\ ~Idle(t) /\ Top(t).op = "remove" /\ id \in DOMAIN pending[d]
      /\ applied' = Append(applied, pending[d][id])
  BY <1>1, <1>2, RemoveFlushEffect, DecidingMove
<1>4. \A x \in DOMAIN pending[d] : id <= x  BY <1>1, <1>2, RemoveFlushEffect
<1>5. \A x \in DOMAIN pending[d] : ~(x < id)  BY <1>3, <1>4, FateIds
<1>6. HoldsDevice(t, d)
  <2>1. Flushes(t, d)  BY <1>1, RemoveFlushOuter
  <2>q. QED  BY <2>1, Holders
<1>q. QED  BY <1>3, <1>5, <1>6, OrderStored

LEMMA OrderStep ==
  ASSUME Inv, Next
  PROVE  OrderInv'
<1>1. ASSUME NEW t \in Threads,
             \/ RunStep(t) \/ RequestReturn(t) \/ AddEnter(t) \/ AddAttach(t) \/ RemoveEnter(t)
             \/ RemoveDetach(t) \/ RemoveReturn(t)
      PROVE  OrderInv'
  <2>1. asked' = asked /\ applied' = applied /\ aborted' = aborted /\ pending' = pending
    BY <1>1, RunStepEffect, RequestReturnEffect, AddEnterEffect, AddAttachEffect,
       RemoveEnterEffect, RemoveDetachEffect, RemoveReturnEffect
  <2>2. DecidingKept  BY <1>1, DecidingRequest, DecidingMove
  <2>q. QED  BY <2>1, <2>2, OrderKept DEF DecidingKept
<1>2. ASSUME NEW t \in Threads, PerformReturn(t) \/ RemoveErase(t)  PROVE OrderInv'
  <2>1. /\ asked' = asked /\ applied' = applied /\ aborted' = aborted /\ DecidingKept
        /\ ~Idle(t)
    BY <1>2, PerformReturnEffect, RemoveEraseEffect, DecidingMove
  <2>2. PICK d \in Devices : d = Top(t).device  BY <2>1, TopFacts
  <2>3. Erase(d, Top(t).id)  BY <1>2, <2>2, PerformReturnEffect, RemoveEraseEffect
  <2>4. \A e \in Devices : \A x \in DOMAIN pending'[e] :
          x \in DOMAIN pending[e] /\ pending'[e][x] = pending[e][x]
    BY <2>3, EraseKeeps
  <2>q. QED  BY <2>1, <2>4, OrderKept DEF DecidingKept
<1>3. ASSUME NEW t \in Users,
             (\E c \in Changes : UserRequests(t, c)) \/ (\E d \in Devices : UserMoves(t, d))
      PROVE  OrderInv'
  <2>1. asked' = asked /\ applied' = applied /\ aborted' = aborted /\ pending' = pending
    BY <1>3, UserRequestsEffect, UserMovesEffect
  <2>2. DecidingKept  BY <1>3, DecidingBegin
  <2>q. QED  BY <2>1, <2>2, OrderKept DEF DecidingKept
<1>4. ASSUME NEW d \in Devices, HalPerforms(d)  PROVE OrderInv'
  <2>1. asked' = asked /\ applied' = applied /\ aborted' = aborted /\ pending' = pending
    BY <1>4, HalPerformsEffect
  <2>2. DecidingKept  BY <1>4, DecidingBegin
  <2>q. QED  BY <2>1, <2>2, OrderKept DEF DecidingKept
<1>5. ASSUME NEW d \in Devices, HalAborts(d)  PROVE OrderInv'
  <2>1. /\ asked' = asked /\ applied' = applied /\ aborted \subseteq aborted'
        /\ stack' = stack /\ Erase(d, Head(queue[d]))
    BY <1>5, HalAbortsEffect
  <2>2. DecidingKept  BY <2>1, DecidingSame
  <2>3. \A e \in Devices : \A x \in DOMAIN pending'[e] :
          x \in DOMAIN pending[e] /\ pending'[e][x] = pending[e][x]
    BY <2>1, EraseKeeps
  <2>q. QED  BY <2>1, <2>2, <2>3, OrderKept DEF DecidingKept
<1>6. ASSUME HalConnects \/ \E d \in Devices : HalForgets(d)  PROVE OrderInv'
  <2>1. /\ asked' = asked /\ applied' = applied /\ aborted' = aborted /\ pending' = pending
        /\ stack' = stack
    BY <1>6, HalConnectsEffect, HalForgetsEffect
  <2>2. DecidingKept  BY <2>1, DecidingSame
  <2>q. QED  BY <2>1, <2>2, OrderKept DEF DecidingKept
<1>7. ASSUME NEW t \in Threads, Step(t)  PROVE OrderInv'
  BY <1>1, <1>2, <1>7, OrderEntered, OrderEnqueued, OrderInPlace, OrderPerformed, OrderFlushed
     DEF Step
<1>q. QED  BY <1>3, <1>4, <1>5, <1>6, <1>7 DEF Next

-----------------------------------------------------------------------------
(* The invariant.                                                          *)

LEMMA InitInv ==
  ASSUME FunctionsOnlyRequest, Init
  PROVE  Inv
<1>1. \A d \in Devices : DOMAIN pending[d] = {} /\ pending[d] \in [DOMAIN pending[d] -> Changes]
  <2>1. <<>> \in Seq(Changes) /\ Len(<<>>) = 0 /\ DOMAIN <<>> = 1 .. Len(<<>>)
    BY EmptySeq, LenProperties
  <2>2. DOMAIN <<>> = {} /\ <<>> \in [DOMAIN <<>> -> Changes]  BY <2>1, ElementOfSeq
  <2>q. QED  BY <2>2 DEF Init
<1>2. /\ asked = <<>> /\ applied = <<>> /\ DOMAIN asked = {} /\ DOMAIN applied = {}
      /\ ToSet(asked) = {} /\ ToSet(applied) = {} /\ aborted = {}
  <2>1. <<>> \in Seq(Changes) /\ Len(<<>>) = 0 /\ DOMAIN <<>> = 1 .. Len(<<>>)
    BY EmptySeq, LenProperties
  <2>2. DOMAIN <<>> = {}  BY <2>1
  <2>q. QED  BY <2>2 DEF Init, ToSet
<1>3. \A t \in Threads : /\ stack[t] = <<>> /\ DOMAIN stack[t] = {} /\ Depth(t) = 0 /\ Idle(t)
                         /\ 1 .. Depth(t) = {} /\ stack[t] \in Seq(Frames)
  <2>1. <<>> \in Seq(Frames) /\ Len(<<>>) = 0 /\ DOMAIN <<>> = 1 .. Len(<<>>)
    BY EmptySeq, LenProperties
  <2>2. DOMAIN <<>> = {} /\ 1 .. 0 = {}  BY <2>1
  <2>q. QED  BY <2>1, <2>2 DEF Init, Depth, Idle
<1>4. \A d \in Devices : queue[d] \in Seq(Nat) /\ DOMAIN queue[d] = {}
  <2>1. <<>> \in Seq(Nat) /\ Len(<<>>) = 0 /\ DOMAIN <<>> = 1 .. Len(<<>>)
    BY EmptySeq, LenProperties
  <2>2. DOMAIN <<>> = {}  BY <2>1
  <2>q. QED  BY <2>1, <2>2 DEF Init
<1>5. Hal \in Threads  BY DEF Threads
<1>6. StateInv
  <2>1. asked \in Seq(Changes) /\ applied \in Seq(Changes)  BY <1>2, EmptySeq
  <2>2. /\ nextID \in [Devices -> Nat] /\ inside \in [Devices -> Nat]
        /\ queue \in [Devices -> Seq(Nat)] /\ DOMAIN pending = Devices
        /\ stack \in [Threads -> Seq(Frames)]
    BY <1>3, <1>4 DEF Init
  <2>3. \A d \in Devices : DOMAIN pending[d] \subseteq 0 .. nextID[d] - 1  BY <1>1
  <2>q. QED  BY <1>1, <1>2, <2>1, <2>2, <2>3 DEF StateInv, Init
<1>7. StackInv  BY <1>3 DEF StackInv
<1>8. ExclusionInv  BY <1>3 DEF ExclusionInv, HoldsPlugin, HoldsDevice
<1>9. HostInv  BY <1>1, <1>3 DEF HostInv
<1>10. OwnerInv  BY <1>1, <1>3, <1>5 DEF OwnerInv, Flushes, Performs, Init
<1>11. QueueInv  BY <1>1, <1>3, <1>4, <1>5 DEF QueueInv, Performs
<1>12. FateInv
  <2>1. \A t \in Threads, c \in Changes : ~Deciding(t, c)  BY <1>3 DEF Deciding
  <2>q. QED  BY <1>1, <1>2, <2>1 DEF FateInv, RunsOnce
<1>13. RequestInv
  <2>1. AskedInv /\ RunInv /\ UniqueInv  BY <1>3 DEF AskedInv, RunInv, UniqueInv
  <2>2. \A n : ~Asks(n)  BY <1>2, <1>3 DEF Asks
  <2>3. BodyInv  BY <2>2 DEF BodyInv
  <2>q. QED  BY <2>1, <2>3 DEF RequestInv, AskedInv, RunInv, UniqueInv, BodyInv, Requests, Asks, Passed
<1>14. OrderInv  BY <1>1, <1>2 DEF OrderInv, InOrder
<1>q. QED  BY <1>6, <1>7, <1>8, <1>9, <1>10, <1>11, <1>12, <1>13, <1>14 DEF Inv, IInv

LEMMA InvUnchanged ==
  ASSUME Inv, UNCHANGED vars
  PROVE  Inv'
<1>1. /\ host' = host /\ listed' = listed /\ owned' = owned /\ queue' = queue /\ stack' = stack
      /\ pending' = pending /\ nextID' = nextID /\ inside' = inside
      /\ asked' = asked /\ applied' = applied /\ aborted' = aborted
  BY DEF vars, device, history
<1>2. OuterKept /\ DecidingKept  BY <1>1, OuterSame, DecidingSame
<1>3. /\ \A t : Depth(t)' = Depth(t) /\ \A p : Frame(t, p)' = Frame(t, p)
      /\ \A t : (HoldsPlugin(t)' <=> HoldsPlugin(t)) /\ \A d : HoldsDevice(t, d)' <=> HoldsDevice(t, d)
  BY <1>1 DEF Depth, Frame, HoldsPlugin, HoldsDevice
<1>4. StateInv'  BY <1>1 DEF Inv, IInv, StateInv
<1>5. StackInv'
  <2>1. StackInv  BY DEF Inv, IInv
  <2>q. QED  BY <1>3, <2>1 DEF StackInv
<1>6. ExclusionInv'  BY <1>3 DEF Inv, IInv, ExclusionInv
<1>7. HostInv'  BY <1>1, <1>3 DEF Inv, IInv, HostInv
<1>8. OwnerInv'  BY <1>1, <1>2, OwnerKept
<1>9. QueueInv'  BY <1>1, <1>2, QueueHalKept DEF OuterKept
<1>10. FateInv'  BY <1>1, <1>2, FateKept DEF OuterKept
<1>11. RequestInv'  BY <1>1, KeptSame, RequestKept
<1>12. OrderInv'  BY <1>1, <1>2, OrderKept DEF DecidingKept
<1>q. QED  BY <1>4, <1>5, <1>6, <1>7, <1>8, <1>9, <1>10, <1>11, <1>12 DEF Inv, IInv

LEMMA InvNext ==
  ASSUME Inv, [Next]_vars
  PROVE  Inv'
<1>1. CASE Next
  <2>1. FunctionsOnlyRequest  BY DEF Inv
  <2>2. IInv'
    BY <1>1, StateStep, StackStep, ExclusionStep, HostStep, OwnerStep, QueueStep, FateStep,
       RequestStep, OrderStep
       DEF IInv
  <2>q. QED  BY <2>1, <2>2 DEF Inv
<1>2. CASE UNCHANGED vars  BY <1>2, InvUnchanged
<1>q. QED  BY <1>1, <1>2

(* The inductive invariant holds in every state of every behaviour: which  *)
(* thread is where in which call, which mutexes it has, what is stored and *)
(* what the HAL still has to answer, whatever the interleaving.            *)
THEOREM Invariance ==
  ASSUME FunctionsOnlyRequest
  PROVE  Spec => []Inv
<1>1. Init => Inv  BY InitInv
<1>2. Inv /\ [Next]_vars => Inv'  BY InvNext
<1>q. QED  BY <1>1, <1>2, PTL DEF Spec

(* No change is lost and none runs twice, when the HAL performs, aborts or *)
(* forgets it, or RemoveDevice flushes it, in any order.                   *)
THEOREM OneFateAlways ==
  ASSUME FunctionsOnlyRequest
  PROVE  Spec => []OneFate
<1>1. ASSUME Inv  PROVE OneFate
  <2> SUFFICES ASSUME NEW c \in ToSet(asked)
               PROVE  LET runs == Cardinality({i \in DOMAIN applied : applied[i] = c}) IN
                      /\ runs <= 1
                      /\ IsFree(Target[c]) =>
                           runs + Cardinality({c} \intersect PendingChanges(Target[c]))
                                + Cardinality({c} \intersect aborted) = 1
    BY DEF OneFate
  <2> DEFINE R == {i \in DOMAIN applied : applied[i] = c}
  <2>1. PICK d \in Devices : d = Target[c]  BY <1>1, FateOf, ChangeCalls
  <2>2. Cardinality(R) = IF c \in ToSet(applied) THEN 1 ELSE 0
    <3>1. CASE c \in ToSet(applied)
      <4>1. PICK i \in DOMAIN applied : applied[i] = c  BY <3>1 DEF ToSet
      <4>2. R = {i}  BY <1>1, <4>1, FateOf DEF RunsOnce
      <4>q. QED  BY <3>1, <4>2, FS_Singleton
    <3>2. CASE c \notin ToSet(applied)
      <4>1. R = {}  BY <3>2 DEF ToSet
      <4>q. QED  BY <3>2, <4>1, FS_EmptySet
    <3>q. QED  BY <3>1, <3>2
  <2>3. \A S : Cardinality({c} \intersect S) = IF c \in S THEN 1 ELSE 0
    <3>1. \A S : c \in S => {c} \intersect S = {c}  OBVIOUS
    <3>2. \A S : c \notin S => {c} \intersect S = {}  OBVIOUS
    <3>3. Cardinality({c}) = 1 /\ Cardinality({}) = 0  BY FS_Singleton, FS_EmptySet
    <3>q. QED  BY <3>1, <3>2, <3>3
  <2>4. ASSUME IsFree(d)
        PROVE  /\ c \in ToSet(applied) \/ c \in aborted \/ c \in PendingChanges(d)
               /\ ~(c \in ToSet(applied) /\ c \in aborted)
               /\ ~(c \in PendingChanges(d) /\ c \in aborted)
               /\ ~(c \in PendingChanges(d) /\ c \in ToSet(applied))
    <3>1. \A t \in Threads : ~HoldsDevice(t, d)  BY <2>4 DEF IsFree
    <3>2. \A t \in Threads : ~Deciding(t, c)  BY <1>1, <2>1, <3>1, Holders
    <3>3. \A t \in Threads : \A id : ~Running(t, d, id)  BY <1>1, <3>1, Holders
    <3>4. c \in ToSet(applied) \/ c \in aborted \/ c \in PendingChanges(d)
      BY <1>1, <2>1, <3>2, FateOf DEF FatedInv
    <3>5. ~(c \in ToSet(applied) /\ c \in aborted)  BY <1>1, FateOf DEF Fates
    <3>6. ASSUME c \in PendingChanges(d)  PROVE c \notin aborted /\ c \notin ToSet(applied)
      <4>1. PICK id \in DOMAIN pending[d] : c = pending[d][id]  BY <3>6 DEF PendingChanges
      <4>q. QED  BY <1>1, <3>3, <4>1, StoredFacts
    <3>q. QED  BY <3>4, <3>5, <3>6
  <2>5. Cardinality(R) <= 1  BY <2>2
  <2>6. IsFree(d) => Cardinality(R) + Cardinality({c} \intersect PendingChanges(d))
                       + Cardinality({c} \intersect aborted) = 1
    <3> HIDE DEF R
    <3>q. QED  BY <2>2, <2>3, <2>4
  <2>q. QED  BY <2>1, <2>5, <2>6
<1>q. QED  BY <1>1, Invariance, PTL

(* RequestConfigurationChange never overtakes what is stored: a change that*)
(* a thread requests runs after all earlier ones of its device, in place,  *)
(* through PerformConfigurationChange and in RemoveDevice.                 *)
THEOREM InOrderAlways ==
  ASSUME FunctionsOnlyRequest
  PROVE  Spec => []InOrder
<1>1. Inv => InOrder  BY DEF Inv, IInv, OrderInv
<1>q. QED  BY <1>1, Invariance, PTL

(* Whenever no call has a device's mutex, its owner is the plugin and the  *)
(* HAL will answer for all that is stored: nothing waits for a call that   *)
(* cannot come, after a removal or before the driver is initialized.       *)
THEOREM PendingIsAlwaysAwaited ==
  ASSUME FunctionsOnlyRequest
  PROVE  Spec => []PendingIsAwaited
<1>1. ASSUME Inv, NEW d \in Devices, IsFree(d), pending[d] # <<>>
      PROVE  host /\ d \in owned
  <2>1. DOMAIN pending[d] # {}
    <3>1. pending[d] \in [DOMAIN pending[d] -> Changes]  BY <1>1 DEF Inv, IInv, StateInv
    <3>q. QED  BY <1>1, <3>1, EmptyMap
  <2>2. host  BY <1>1, <2>1 DEF Inv, IInv, HostInv
  <2>3. ASSUME d \notin owned  PROVE FALSE
    <3>1. PICK t \in Threads : Flushes(t, d)  BY <1>1, <2>1, <2>3 DEF Inv, IInv, OwnerInv
    <3>2. HoldsDevice(t, d)  BY <1>1, <3>1, Holders
    <3>q. QED  BY <1>1, <3>2 DEF IsFree
  <2>q. QED  BY <2>2, <2>3
<1>2. ASSUME Inv, NEW d \in Devices, IsFree(d), NEW id \in DOMAIN pending[d]
      PROVE  \/ Contains(queue[d], id)
             \/ \E i \in DOMAIN stack[Hal] :
                  LET f == stack[Hal][i] IN f.op = "perform" /\ f.device = d /\ f.id = id
  <2>1. pending[d] # <<>>
    <3>1. <<>> \in Seq(Changes) /\ Len(<<>>) = 0 /\ DOMAIN <<>> = 1 .. Len(<<>>)
      BY EmptySeq, LenProperties
    <3>q. QED  BY <1>2, <3>1
  <2>2. d \in owned  BY <1>1, <1>2, <2>1
  <2>3. (\E i \in DOMAIN queue[d] : queue[d][i] = id) \/ (Performs(d) /\ Frame(Hal, 1).id = id)
    BY <1>2, <2>2 DEF Inv, IInv, QueueInv
  <2>4. CASE \E i \in DOMAIN queue[d] : queue[d][i] = id
    <3>1. queue[d] \in Seq(Nat)  BY <1>2 DEF Inv, IInv, StateInv
    <3>2. DOMAIN queue[d] = 1 .. Len(queue[d])  BY <3>1, LenProperties
    <3>q. QED  BY <2>4, <3>2 DEF Contains
  <2>5. CASE Performs(d) /\ Frame(Hal, 1).id = id
    <3>1. Hal \in Threads /\ ~Idle(Hal)  BY <2>5 DEF Threads, Performs
    <3>2. Frame(Hal, 1).op = "perform" /\ Frame(Hal, 1).device = d
      BY <1>2, <2>5, <3>1, FirstFacts DEF Performs
    <3>3. PICK i \in DOMAIN stack[Hal] : Frame(Hal, 1) = stack[Hal][i]
      <4>1. stack[Hal] \in Seq(Frames) /\ 1 \in 1 .. Depth(Hal)  BY <1>2, <3>1, StackFacts
      <4>q. QED  BY <4>1, FromTheEnd DEF Depth, Frame
    <3>q. QED  BY <2>5, <3>2, <3>3
  <2>q. QED  BY <2>3, <2>4, <2>5
<1>3. Inv => PendingIsAwaited  BY <1>1, <1>2 DEF PendingIsAwaited
<1>q. QED  BY <1>3, Invariance, PTL

LEMMA SafeStep ==
  ASSUME Inv, Next, applied' # applied
  PROVE  LET d == Target[Last(applied')] IN ~host \/ d \notin owned \/ inside'[d] > 0
<1>1. \A c \in Changes : applied' = Append(applied, c) => Last(applied') = c
  <2> SUFFICES ASSUME NEW c \in Changes  PROVE Last(Append(applied, c)) = c
    OBVIOUS
  <2>1. applied \in Seq(Changes)  BY FateOf
  <2>2. /\ Len(applied) \in Nat /\ Len(Append(applied, c)) = Len(applied) + 1
        /\ Append(applied, c)[Len(applied) + 1] = c
    BY <2>1, AppendProperties, LenProperties
  <2>q. QED  BY <2>2 DEF Last
<1>2. inside \in [Devices -> Nat]  BY DEF Inv, IInv, StateInv
<1>3. ASSUME NEW t \in Threads, RequestInPlace(t)
      PROVE  LET d == Target[Last(applied')] IN ~host \/ d \notin owned \/ inside'[d] > 0
  <2>1. ~Idle(t) /\ Top(t).op = "request" /\ Top(t).at = "decide"  BY <1>3, RequestInPlaceEffect
  <2>2. PICK d \in Devices : d = Top(t).device  BY <2>1, Decider
  <2>3. PICK c \in Changes : c = Top(t).change /\ Target[c] = d  BY <2>1, <2>2, Decider
  <2>4. Last(applied') = c  BY <1>1, <1>3, <2>3, RequestInPlaceEffect
  <2>5. inside' = inside /\ ~MustEnqueue(Top(t))  BY <1>3, RequestInPlaceEffect
  <2>6. Top(t).hosted = host  BY <2>1, HostedFrames DEF Hosted
  <2>7. ~host \/ d \notin owned \/ inside[d] # 0  BY <2>2, <2>5, <2>6 DEF MustEnqueue
  <2>8. inside[d] \in Nat  BY <1>2
  <2>q. QED  BY <2>3, <2>4, <2>5, <2>7, <2>8
<1>4. ASSUME NEW t \in Threads, PerformEnter(t)
      PROVE  LET d == Target[Last(applied')] IN ~host \/ d \notin owned \/ inside'[d] > 0
  <2>1. PICK d \in Devices : d = Top(t).device
    <3>1. ~Idle(t)  BY <1>4, PerformEnterEffect
    <3>q. QED  BY <3>1, TopFacts
  <2>2. PICK id : id = Top(t).id  OBVIOUS
  <2>3. id \in DOMAIN pending[d] /\ applied' = Append(applied, pending[d][id])
    BY <1>4, <2>1, <2>2, PerformEnterEffect
  <2>4. PICK c \in Changes : c = pending[d][id]  BY <2>3, StoredFacts
  <2>5. Last(applied') = c /\ Target[c] = d  BY <1>1, <2>3, <2>4, StoredFacts
  <2>6. inside' = [inside EXCEPT ![d] = @ + 1]  BY <1>4, <2>1, PerformEnterEffect
  <2>7. inside'[d] > 0  BY <1>2, <2>6
  <2>q. QED  BY <2>5, <2>7
<1>5. ASSUME NEW t \in Threads, RemoveFlush(t)
      PROVE  LET d == Target[Last(applied')] IN ~host \/ d \notin owned \/ inside'[d] > 0
  <2>1. PICK d \in Devices : d = Top(t).device  BY <1>5, RemoveFlushEffect
  <2>2. PICK id : id = FirstPending(d)  OBVIOUS
  <2>3. id \in DOMAIN pending[d] /\ applied' = Append(applied, pending[d][id])
    BY <1>5, <2>1, <2>2, RemoveFlushEffect
  <2>4. PICK c \in Changes : c = pending[d][id]  BY <2>3, StoredFacts
  <2>5. Last(applied') = c /\ Target[c] = d  BY <1>1, <2>3, <2>4, StoredFacts
  <2>6. Flushes(t, d)  BY <1>5, <2>1, RemoveFlushOuter
  <2>7. d \notin owned  BY <2>6 DEF Inv, IInv, OwnerInv
  <2>q. QED  BY <2>5, <2>7
<1>6. \E t \in Threads : RequestInPlace(t) \/ PerformEnter(t) \/ RemoveFlush(t)
  <2>1. ASSUME NEW t \in Threads, Step(t)
        PROVE  RequestInPlace(t) \/ PerformEnter(t) \/ RemoveFlush(t)
    BY <2>1, RunStepEffect, RequestEnterEffect, RequestEnqueueEffect, RequestReturnEffect,
       PerformReturnEffect, AddEnterEffect, AddAttachEffect, RemoveEnterEffect,
       RemoveDetachEffect, RemoveEraseEffect, RemoveReturnEffect
       DEF Step
  <2>2. \A t \in Users : ~(\E c \in Changes : UserRequests(t, c)) /\ ~(\E d \in Devices : UserMoves(t, d))
    BY UserRequestsEffect, UserMovesEffect
  <2>3. ~HalConnects /\ \A d \in Devices : ~HalPerforms(d) /\ ~HalAborts(d) /\ ~HalForgets(d)
    BY HalConnectsEffect, HalPerformsEffect, HalAbortsEffect, HalForgetsEffect
  <2>q. QED  BY <2>1, <2>2, <2>3 DEF Next
<1>q. QED  BY <1>3, <1>4, <1>5, <1>6

(* A function that changes a device runs only while the HAL does not use   *)
(* it, whichever call runs it and however the device is moved meanwhile.   *)
THEOREM RunsOnlyWhenSafeAlways ==
  ASSUME FunctionsOnlyRequest
  PROVE  Spec => RunsOnlyWhenSafe
<1>1. ASSUME Inv, [Next]_vars
      PROVE  [applied' # applied =>
                LET d == Target[Last(applied')] IN ~host \/ d \notin owned \/ inside'[d] > 0]_vars
  <2>1. CASE Next  BY <1>1, <2>1, SafeStep
  <2>2. CASE UNCHANGED vars  BY <2>2
  <2>q. QED  BY <1>1, <2>1, <2>2
<1>2. Spec => [][Next]_vars  BY PTL DEF Spec
<1>q. QED  BY <1>1, <1>2, Invariance, PTL DEF RunsOnlyWhenSafe
=============================================================================
