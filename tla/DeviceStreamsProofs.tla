-------------------------- MODULE DeviceStreamsProofs --------------------------
(***************************************************************************)
(* Proofs about the streams and controls of aspl::Device, for any users,   *)
(* streams and controls, and any number of channels: the inductive         *)
(* invariant IInv and the safety properties that follow from it.           *)
(*                                                                         *)
(* First come lemmas about queues of changes and about maxima, then what   *)
(* every step of a call does to the call, then one lemma per conjunct of   *)
(* the invariant.                                                          *)
(***************************************************************************)
EXTENDS DeviceStreams, SequenceTheorems, FiniteSetTheorems, WellFoundedInduction, TLAPS

-----------------------------------------------------------------------------
(* Queues of changes.                                                      *)

LEMMA ChangeFacts ==
  ASSUME NEW x \in Changes
  PROVE  /\ x.object \in Objects /\ x.what \in {"add", "remove"}
         /\ \A o : x = Adding(o) <=> x.what = "add" /\ x.object = o
         /\ \A o : x = Removing(o) <=> x.what = "remove" /\ x.object = o
BY DEF Changes, Adding, Removing, Change

LEMMA AddingFacts ==
  ASSUME NEW o \in Objects
  PROVE  /\ Adding(o) \in Changes /\ Adding(o).object = o /\ Adding(o).what = "add"
         /\ Removing(o) \in Changes /\ Removing(o).object = o /\ Removing(o).what = "remove"
BY DEF Changes, Adding, Removing, Change

(* The first n changes of two queues are the same: so is what they do.     *)
LEMMA HeldSame ==
  ASSUME NEW q, NEW r, NEW n \in Nat, NEW o, NEW owners,
         \A i \in 1 .. n : q[i] = r[i]
  PROVE  HeldAfter(q, n, o, owners) <=> HeldAfter(r, n, o, owners)
BY DEF HeldAfter

(* One change more.                                                        *)
LEMMA HeldNext ==
  ASSUME NEW q, NEW n \in Nat, q[n + 1] \in Changes, NEW o, NEW owners
  PROVE  HeldAfter(q, n + 1, o, owners) <=>
           IF q[n + 1].object = o THEN q[n + 1].what = "add" ELSE HeldAfter(q, n, o, owners)
<1> DEFINE x == q[n + 1]
<1>0. \A p : x = Adding(p) <=> x.what = "add" /\ x.object = p  BY ChangeFacts
<1>1. CASE x.object = o
  <2>1. ASSUME x.what = "add"  PROVE HeldAfter(q, n + 1, o, owners)
    <3>1. q[n + 1] = Adding(o) /\ \A j \in n + 1 + 1 .. n + 1 : q[j].object # o
      BY <1>0, <1>1, <2>1
    <3>2. n + 1 \in 1 .. n + 1  OBVIOUS
    <3>q. QED  BY <3>1, <3>2 DEF HeldAfter
  <2>2. ASSUME HeldAfter(q, n + 1, o, owners)  PROVE x.what = "add"
    <3>1. PICK i \in 1 .. n + 1 : q[i] = Adding(o) /\ \A j \in i + 1 .. n + 1 : q[j].object # o
      BY <1>1, <2>2 DEF HeldAfter
    <3>2. i = n + 1  BY <1>1, <3>1
    <3>q. QED  BY <1>0, <3>1, <3>2
  <2>q. QED  BY <1>1, <2>1, <2>2
<1>2. CASE x.object # o
  <2>1. \A i \in 1 .. n : (\A j \in i + 1 .. n + 1 : q[j].object # o)
                          <=> (\A j \in i + 1 .. n : q[j].object # o)
    <3> SUFFICES ASSUME NEW i \in 1 .. n, \A j \in i + 1 .. n : q[j].object # o,
                        NEW j \in i + 1 .. n + 1
                 PROVE  q[j].object # o
      BY DEF HeldAfter
    <3>1. j = n + 1 \/ j \in i + 1 .. n  OBVIOUS
    <3>q. QED  BY <1>2, <3>1
  <2>2. q[n + 1] # Adding(o)  BY <1>0, <1>2
  <2>3. (\A i \in 1 .. n + 1 : q[i].object # o) <=> (\A i \in 1 .. n : q[i].object # o)
    BY <1>2
  <2>4. (\E i \in 1 .. n + 1 : q[i] = Adding(o) /\ \A j \in i + 1 .. n + 1 : q[j].object # o)
        <=> (\E i \in 1 .. n : q[i] = Adding(o) /\ \A j \in i + 1 .. n : q[j].object # o)
    <3>1. ASSUME NEW i \in 1 .. n + 1, q[i] = Adding(o),
                 \A j \in i + 1 .. n + 1 : q[j].object # o
          PROVE  \E k \in 1 .. n : q[k] = Adding(o) /\ \A j \in k + 1 .. n : q[j].object # o
      <4>1. i \in 1 .. n  BY <2>2, <3>1
      <4>q. QED  BY <2>1, <3>1, <4>1
    <3>2. \A i \in 1 .. n : i \in 1 .. n + 1  OBVIOUS
    <3>q. QED  BY <2>1, <3>1, <3>2
  <2>q. QED  BY <1>2, <2>3, <2>4 DEF HeldAfter
<1>q. QED  BY <1>1, <1>2

(* The first change has run.                                               *)
LEMMA HeldTail ==
  ASSUME NEW q \in Seq(Changes), q # <<>>, NEW n \in 0 .. Len(q) - 1, NEW o, NEW owners
  PROVE  HeldAfter(Tail(q), n, o, After(Head(q), owners)) <=> HeldAfter(q, n + 1, o, owners)
<1> DEFINE r == Tail(q)
           x == q[1]
<1>1. /\ Head(q) = x /\ x \in Changes /\ n \in Nat /\ Len(q) \in Nat
      /\ \A i \in 1 .. n : r[i] = q[i + 1]
  BY HeadTailProperties, LenProperties, ElementOfSeq
<1>2. \A p : x = Adding(p) <=> x.what = "add" /\ x.object = p  BY <1>1, ChangeFacts
<1>3. \A p : p \in After(x, owners) <=> IF x.object = p THEN x.what = "add" ELSE p \in owners
  BY <1>1, ChangeFacts DEF After
<1> HIDE DEF r
<1>4. ASSUME NEW i \in 1 .. n, r[i] = Adding(o), \A j \in i + 1 .. n : r[j].object # o
      PROVE  HeldAfter(q, n + 1, o, owners)
  <2>1. i + 1 \in 1 .. n + 1 /\ q[i + 1] = Adding(o)  BY <1>1, <1>4
  <2>2. ASSUME NEW j \in i + 1 + 1 .. n + 1  PROVE q[j].object # o
    <3>1. j - 1 \in i + 1 .. n /\ j - 1 \in 1 .. n /\ (j - 1) + 1 = j  BY <1>1
    <3>q. QED  BY <1>1, <1>4, <3>1
  <2>q. QED  BY <2>1, <2>2 DEF HeldAfter
<1>5. ASSUME o \in After(x, owners), \A i \in 1 .. n : r[i].object # o
      PROVE  HeldAfter(q, n + 1, o, owners)
  <2>1. ASSUME NEW j \in 2 .. n + 1  PROVE q[j].object # o
    <3>1. j - 1 \in 1 .. n /\ (j - 1) + 1 = j  BY <1>1
    <3>q. QED  BY <1>1, <1>5, <3>1
  <2>2. CASE x.object = o
    <3>1. q[1] = Adding(o) /\ 1 \in 1 .. n + 1 /\ 1 + 1 = 2  BY <1>1, <1>2, <1>3, <1>5, <2>2
    <3>q. QED  BY <2>1, <3>1 DEF HeldAfter
  <2>3. CASE x.object # o
    <3>1. o \in owners  BY <1>3, <1>5, <2>3
    <3>2. \A j \in 1 .. n + 1 : j = 1 \/ j \in 2 .. n + 1  BY <1>1
    <3>q. QED  BY <2>1, <2>3, <3>1, <3>2 DEF HeldAfter
  <2>q. QED  BY <2>2, <2>3
<1>6. ASSUME NEW i \in 1 .. n + 1, q[i] = Adding(o), \A j \in i + 1 .. n + 1 : q[j].object # o
      PROVE  HeldAfter(r, n, o, After(x, owners))
  <2>1. \A j \in 1 .. n : j >= i => r[j].object # o
    <3> SUFFICES ASSUME NEW j \in 1 .. n, j >= i  PROVE r[j].object # o  OBVIOUS
    <3>1. j + 1 \in i + 1 .. n + 1  BY <1>1
    <3>q. QED  BY <1>1, <1>6, <3>1
  <2>2. CASE i = 1
    <3>1. o \in After(x, owners)  BY <1>2, <1>3, <1>6, <2>2
    <3>2. \A j \in 1 .. n : r[j].object # o  BY <2>1, <2>2, <1>1
    <3>q. QED  BY <3>1, <3>2 DEF HeldAfter
  <2>3. CASE i # 1
    <3>1. i - 1 \in 1 .. n /\ (i - 1) + 1 = i  BY <1>1, <2>3
    <3>2. r[i - 1] = Adding(o)  BY <1>1, <1>6, <3>1
    <3>3. \A j \in (i - 1) + 1 .. n : j \in 1 .. n /\ j >= i  BY <1>1, <3>1
    <3>q. QED  BY <2>1, <3>1, <3>2, <3>3 DEF HeldAfter
  <2>q. QED  BY <2>2, <2>3
<1>7. ASSUME o \in owners, \A i \in 1 .. n + 1 : q[i].object # o
      PROVE  HeldAfter(r, n, o, After(x, owners))
  <2>1. 1 \in 1 .. n + 1  BY <1>1
  <2>2. o \in After(x, owners)  BY <1>3, <1>7, <2>1
  <2>3. \A i \in 1 .. n : i + 1 \in 1 .. n + 1  BY <1>1
  <2>q. QED  BY <1>1, <1>7, <2>2, <2>3 DEF HeldAfter
<1>8. HeldAfter(r, n, o, After(x, owners)) => HeldAfter(q, n + 1, o, owners)
  BY <1>4, <1>5 DEF HeldAfter
<1>9. HeldAfter(q, n + 1, o, owners) => HeldAfter(r, n, o, After(x, owners))
  BY <1>6, <1>7 DEF HeldAfter
<1>q. QED  BY <1>1, <1>8, <1>9 DEF r

(* A change that makes a difference is asked for and listed.               *)
LEMMA FitsAppend ==
  ASSUME NEW q \in Seq(Changes), NEW owners, NEW list, NEW without, NEW x \in Changes,
         Fits(q, owners, list, without),
         x.object \in without \/ (x.what = "remove" <=> x.object \in list)
  PROVE  Fits(Append(q, x), owners, After(x, list), without)
<1> DEFINE r == Append(q, x)
           n == Len(q)
<1>1. /\ n \in Nat /\ Len(r) = n + 1 /\ r[n + 1] = x
      /\ \A i \in 1 .. n : r[i] = q[i]
  BY AppendProperties, LenProperties
<1>2. x.what \in {"add", "remove"}  BY ChangeFacts
<1>3. \A p : p \in After(x, list) <=> IF x.object = p THEN x.what = "add" ELSE p \in list
  BY <1>2 DEF After
<1> HIDE DEF r, n
<1>4. SUFFICES ASSUME NEW o \in Objects \ without
               PROVE  /\ o \in After(x, list) <=> HeldAfter(r, n + 1, o, owners)
                      /\ \A i \in 1 .. n + 1 :
                           r[i].object = o =>
                             (r[i].what = "remove" <=> HeldAfter(r, i - 1, o, owners))
  BY <1>1 DEF Fits, r
<1>5. /\ o \in list <=> HeldAfter(q, n, o, owners)
      /\ \A i \in 1 .. n :
           q[i].object = o => (q[i].what = "remove" <=> HeldAfter(q, i - 1, o, owners))
  BY <1>4 DEF Fits, n
<1>6. ASSUME NEW i \in 0 .. n  PROVE HeldAfter(r, i, o, owners) <=> HeldAfter(q, i, o, owners)
  <2>1. i \in Nat /\ \A j \in 1 .. i : r[j] = q[j]  BY <1>1
  <2>q. QED  BY <2>1, HeldSame
<1>7. HeldAfter(r, n + 1, o, owners) <=>
        IF x.object = o THEN x.what = "add" ELSE HeldAfter(r, n, o, owners)
  BY <1>1, HeldNext
<1>8. o \in After(x, list) <=> HeldAfter(r, n + 1, o, owners)
  <2>1. n \in 0 .. n  BY <1>1
  <2>q. QED  BY <1>3, <1>5, <1>6, <1>7, <2>1
<1>9. ASSUME NEW i \in 1 .. n + 1, r[i].object = o
      PROVE  r[i].what = "remove" <=> HeldAfter(r, i - 1, o, owners)
  <2>1. CASE i = n + 1
    <3>1. x.object = o /\ r[i].what = x.what /\ i - 1 = n /\ n \in 0 .. n  BY <1>1, <1>9, <2>1
    <3>q. QED  BY <1>4, <1>5, <1>6, <3>1
  <2>2. CASE i # n + 1
    <3>1. i \in 1 .. n /\ i - 1 \in 0 .. n /\ r[i] = q[i]  BY <1>1, <2>2
    <3>q. QED  BY <1>5, <1>6, <1>9, <3>1
  <2>q. QED  BY <2>1, <2>2
<1>q. QED  BY <1>8, <1>9

(* The first change has run.                                               *)
LEMMA FitsTail ==
  ASSUME NEW q \in Seq(Changes), q # <<>>, NEW owners, NEW list, NEW without,
         Fits(q, owners, list, without)
  PROVE  Fits(Tail(q), After(Head(q), owners), list, without)
<1> DEFINE r == Tail(q)
           n == Len(q) - 1
           after == After(Head(q), owners)
<1>1. /\ n \in Nat /\ Len(r) = n /\ Len(q) = n + 1
      /\ \A i \in 1 .. n : r[i] = q[i + 1]
  BY HeadTailProperties, LenProperties, EmptySeq
<1>2. \A i \in 0 .. n, o \in Objects : HeldAfter(r, i, o, after) <=> HeldAfter(q, i + 1, o, owners)
  BY HeldTail
<1> HIDE DEF r, n, after
<1>3. SUFFICES ASSUME NEW o \in Objects \ without
               PROVE  /\ o \in list <=> HeldAfter(r, n, o, after)
                      /\ \A i \in 1 .. n :
                           r[i].object = o => (r[i].what = "remove" <=> HeldAfter(r, i - 1, o, after))
  BY <1>1 DEF Fits, r, after
<1>4. /\ o \in list <=> HeldAfter(q, n + 1, o, owners)
      /\ \A i \in 1 .. n + 1 :
           q[i].object = o => (q[i].what = "remove" <=> HeldAfter(q, i - 1, o, owners))
  BY <1>1, <1>3 DEF Fits
<1>5. ASSUME NEW i \in 1 .. n, r[i].object = o
      PROVE  r[i].what = "remove" <=> HeldAfter(r, i - 1, o, after)
  <2>1. i + 1 \in 1 .. n + 1 /\ i - 1 \in 0 .. n /\ (i - 1) + 1 = i /\ (i + 1) - 1 = i  BY <1>1
  <2>2. r[i] = q[i + 1]  BY <1>1
  <2>q. QED  BY <1>2, <1>4, <1>5, <2>1, <2>2
<1>6. n \in 0 .. n  BY <1>1
<1>q. QED  BY <1>2, <1>4, <1>5, <1>6

(* What an object is about that no change is about.                        *)
LEMMA HeldOther ==
  ASSUME NEW q \in Seq(Changes), q # <<>>, NEW n \in 0 .. Len(q) - 1, NEW owners, NEW o,
         Head(q).object # o
  PROVE  HeldAfter(Tail(q), n, o, owners) <=> HeldAfter(q, n + 1, o, owners)
<1>1. o \in owners <=> o \in After(Head(q), owners)  BY DEF After
<1>2. HeldAfter(Tail(q), n, o, owners) <=> HeldAfter(Tail(q), n, o, After(Head(q), owners))
  BY <1>1 DEF HeldAfter
<1>q. QED  BY <1>2, HeldTail

(* The first change is aborted: its object is left out from now on.        *)
LEMMA FitsAbort ==
  ASSUME NEW q \in Seq(Changes), q # <<>>, NEW owners, NEW list, NEW without,
         Fits(q, owners, list, without)
  PROVE  Fits(Tail(q), owners, list, without \union {Head(q).object})
<1> DEFINE r == Tail(q)
           n == Len(q) - 1
<1>1. /\ n \in Nat /\ Len(r) = n /\ Len(q) = n + 1
      /\ \A i \in 1 .. n : r[i] = q[i + 1]
  BY HeadTailProperties, LenProperties, EmptySeq
<1>2. SUFFICES ASSUME NEW o \in Objects \ without, Head(q).object # o
               PROVE  /\ o \in list <=> HeldAfter(r, n, o, owners)
                      /\ \A i \in 1 .. n :
                           r[i].object = o => (r[i].what = "remove" <=> HeldAfter(r, i - 1, o, owners))
  BY <1>1 DEF Fits
<1>3. \A i \in 0 .. n : HeldAfter(r, i, o, owners) <=> HeldAfter(q, i + 1, o, owners)
  BY <1>2, HeldOther
<1> HIDE DEF r, n
<1>4. /\ o \in list <=> HeldAfter(q, n + 1, o, owners)
      /\ \A i \in 1 .. n + 1 :
           q[i].object = o => (q[i].what = "remove" <=> HeldAfter(q, i - 1, o, owners))
  BY <1>1, <1>2 DEF Fits
<1>5. ASSUME NEW i \in 1 .. n, r[i].object = o
      PROVE  r[i].what = "remove" <=> HeldAfter(r, i - 1, o, owners)
  <2>1. i + 1 \in 1 .. n + 1 /\ i - 1 \in 0 .. n /\ (i - 1) + 1 = i /\ (i + 1) - 1 = i  BY <1>1
  <2>2. r[i] = q[i + 1]  BY <1>1
  <2>q. QED  BY <1>3, <1>4, <1>5, <2>1, <2>2
<1>6. n \in 0 .. n  BY <1>1
<1>q. QED  BY <1>3, <1>4, <1>5, <1>6
-----------------------------------------------------------------------------
(* Maxima.                                                                 *)

(* A bounded set of numbers that is not empty has a maximum: the least     *)
(* distance to the bound is that of an element.                            *)
LEMMA MaxFacts ==
  ASSUME NEW S \in SUBSET Nat, S # {}, NEW b \in Nat, \A x \in S : x <= b
  PROVE  Max(S) \in S /\ \A x \in S : x <= Max(S)
<1> DEFINE T == {b - x : x \in S}
<1>1. T \subseteq Nat /\ T # {}
  <2>1. \A x \in S : b - x \in Nat  OBVIOUS
  <2>q. QED  BY <2>1
<1>2. PICK d \in T : \A e \in T : ~ (<<e, d>> \in OpToRel(<, Nat))
  <2> HIDE DEF T
  <2>q. QED  BY <1>1, NatLessThanWellFounded, WFMin
<1>3. PICK m \in S : d = b - m  OBVIOUS
<1>4. ASSUME NEW x \in S  PROVE x <= m
  <2>1. b - x \in T /\ b - x \in Nat /\ d \in Nat /\ x \in Nat /\ m \in Nat  BY <1>1
  <2>2. ~ (<<b - x, d>> \in OpToRel(<, Nat))  BY <1>2, <2>1
  <2>3. b - x < d => <<b - x, d>> \in {ss \in Nat \X Nat : ss[1] < ss[2]}  BY <2>1
  <2>4. ~ (b - x < d)  BY <2>2, <2>3 DEF OpToRel
  <2>q. QED  BY <1>3, <2>1, <2>4
<1>5. m \in Nat /\ \A x \in S : m >= x  BY <1>4
<1>6. \E x \in S : \A y \in S : x >= y  BY <1>5
<1>7. Max(S) \in S /\ \A y \in S : Max(S) >= y  BY <1>6 DEF Max
<1>q. QED  BY <1>7

(* Some number is beyond the channels of all streams.                      *)
ChannelsBounded == \E bound \in Nat : \A s \in Streams : first[s] + width[s] <= bound

LEMMA StartingChannelFacts ==
  ASSUME StateInv, ChannelsBounded, NEW sc
  PROVE  /\ StartingChannel(sc) \in Nat
         /\ \A s \in Streams \intersect listed :
              Scope[s] = sc => first[s] + width[s] <= StartingChannel(sc)
<1> DEFINE Mine == {u \in Streams \intersect listed : Scope[u] = sc}
           S == {1} \union {first[s] + width[s] : s \in Mine}
<1>1. \A s \in Streams : first[s] + width[s] \in Nat  BY DEF StateInv
<1>2. PICK b \in Nat : \A s \in Streams : first[s] + width[s] <= b  BY DEF ChannelsBounded
<1>3. S \in SUBSET Nat /\ S # {}  BY <1>1
<1>4. b + 1 \in Nat /\ \A x \in S : x <= b + 1  BY <1>1, <1>2
<1>5. \A s \in Mine : first[s] + width[s] \in S  OBVIOUS
<1>6. StartingChannel(sc) = Max(S)  BY DEF StartingChannel
<1> HIDE DEF S
<1>7. Max(S) \in S /\ \A x \in S : x <= Max(S)  BY <1>3, <1>4, MaxFacts
<1>8. Max(S) \in Nat  BY <1>3, <1>7
<1>q. QED  BY <1>5, <1>6, <1>7, <1>8

-----------------------------------------------------------------------------
(* Calls.                                                                  *)

Inv == IInv /\ ChannelsBounded

(* The steps, by who makes them.                                           *)
UserBegins(t) ==
  \/ \E s \in Streams : UserCreates(t, s)
  \/ \E o \in Objects : UserAdds(t, o) \/ UserRemoves(t, o)

LEMMA NextGroups ==
  ASSUME Next
  PROVE  \/ \E t \in Threads : Step(t)
         \/ \E t \in Threads : UserBegins(t) \/ UserPublishes(t) \/ UserUnpublishes(t)
         \/ HalPerforms \/ HalAborts
BY DEF Next, UserBegins, Threads

(* The types of what a call has to do.                                     *)
LEMMA CallFacts ==
  ASSUME Inv, NEW t \in Threads
  PROVE  /\ call[t] \in Calls /\ call[t].todo \in Seq(Changes)
         /\ call[t].next \in Nat \ {0} /\ call[t].next <= Len(call[t].todo) + 1
         /\ Len(call[t].todo) \in Nat /\ DOMAIN call[t].todo = 1 .. Len(call[t].todo)
         /\ \A i \in DOMAIN call[t].todo :
              /\ call[t].todo[i] \in Changes /\ call[t].todo[i].object \in Objects
              /\ call[t].todo[i].what \in {"add", "remove"}
<1>1. /\ call[t] \in Calls /\ call[t].todo \in Seq(Changes)
      /\ call[t].next \in Nat \ {0} /\ call[t].next <= Len(call[t].todo) + 1
  BY DEF Inv, IInv, StateInv, CallInv, Calls
<1>2. Len(call[t].todo) \in Nat /\ DOMAIN call[t].todo = 1 .. Len(call[t].todo)
  BY <1>1, LenProperties
<1>3. \A i \in DOMAIN call[t].todo : call[t].todo[i] \in Changes  BY <1>1, <1>2, ElementOfSeq
<1>q. QED  BY <1>1, <1>2, <1>3, ChangeFacts

LEMMA DoingFacts ==
  ASSUME Inv, NEW t \in Threads, ~Finished(t)
  PROVE  /\ call[t].next \in DOMAIN call[t].todo
         /\ Doing(t) = call[t].todo[call[t].next]
         /\ Doing(t) \in Changes /\ Doing(t).object \in Objects
         /\ Doing(t).what \in {"add", "remove"}
         /\ call[t].op # "idle"
<1>1. call[t].next \in DOMAIN call[t].todo  BY CallFacts DEF Finished
<1>2. call[t].op # "idle"
  <2>1. Len(<<>>) = 0 /\ Idle.todo = <<>> /\ Idle.next = 1  BY DEF Idle
  <2>q. QED  BY <2>1 DEF Inv, IInv, CallInv, Finished
<1>q. QED  BY <1>1, <1>2, CallFacts DEF Doing

(* A thread in a call is alone.                                            *)
LEMMA Alone ==
  ASSUME Inv, NEW t \in Threads, call[t].op # "idle"
  PROVE  CanLock(t) /\ \A u \in Threads : u = t \/ (call[u] = Idle /\ ~CanLock(u))
BY DEF Inv, IInv, CallInv, CanLock

(* A thread that begins is alone with its call.                            *)
LEMMA BeginFacts ==
  ASSUME Inv, NEW t \in Threads, call[t].op = "idle", CanLock(t)
  PROVE  \A u \in Threads : call[u] = Idle /\ CanLock(u)
BY DEF Inv, IInv, CallInv, CanLock
LEMMA BundleFacts ==
  ASSUME NEW s \in Streams
  PROVE  /\ Bundle[s] \in Seq(Objects) /\ Len(Bundle[s]) \in Nat \ {0}
         /\ DOMAIN Bundle[s] = 1 .. Len(Bundle[s]) /\ 1 \in DOMAIN Bundle[s]
         /\ Bundle[s][1] = s
         /\ \A i \in DOMAIN Bundle[s] : Bundle[s][i] \in Objects
         /\ \A i \in DOMAIN Bundle[s] \ {1} : Bundle[s][i] \in Controls
<1>1. /\ Bundle[s] \in Seq(Objects) /\ Bundle[s] # <<>> /\ Bundle[s][1] = s
      /\ \A i \in 2 .. Len(Bundle[s]) : Bundle[s][i] \in Controls
  BY StreamsAssumption
<1>2. Len(Bundle[s]) \in Nat \ {0}  BY <1>1, EmptySeq
<1>3. DOMAIN Bundle[s] = 1 .. Len(Bundle[s])  BY <1>1, LenProperties
<1>4. \A i \in DOMAIN Bundle[s] : Bundle[s][i] \in Objects  BY <1>1, <1>3, ElementOfSeq
<1>q. QED  BY <1>1, <1>2, <1>3, <1>4

(* The changes that AddStreamWithControlsAsync asks for.                   *)
LEMMA BundleTodo ==
  ASSUME NEW s \in Streams
  PROVE  LET todo == [i \in DOMAIN Bundle[s] |-> Adding(Bundle[s][i])]
         IN  /\ todo \in Seq(Changes) /\ Len(todo) = Len(Bundle[s])
             /\ DOMAIN todo = DOMAIN Bundle[s]
             /\ \A i \in DOMAIN Bundle[s] :
                  /\ todo[i] = Adding(Bundle[s][i])
                  /\ todo[i].object = Bundle[s][i] /\ todo[i].what = "add"
<1> DEFINE todo == [i \in DOMAIN Bundle[s] |-> Adding(Bundle[s][i])]
<1>1. \A i \in DOMAIN Bundle[s] :
        /\ todo[i] = Adding(Bundle[s][i]) /\ todo[i] \in Changes
        /\ todo[i].object = Bundle[s][i] /\ todo[i].what = "add"
  BY BundleFacts, AddingFacts
<1>2. todo \in [1 .. Len(Bundle[s]) -> Changes]  BY <1>1, BundleFacts
<1>3. todo \in Seq(Changes)  BY <1>2, BundleFacts, SeqDef
<1>4. Len(todo) = Len(Bundle[s])  BY <1>2, <1>3, BundleFacts, LenProperties
<1>q. QED  BY <1>1, <1>3, <1>4

LEMMA SingleTodo ==
  ASSUME NEW x \in Changes
  PROVE  /\ <<x>> \in Seq(Changes) /\ Len(<<x>>) = 1 /\ DOMAIN <<x>> = {1} /\ <<x>>[1] = x
OBVIOUS

(* What a thread of the plugin begins: its call, of which nothing is done. *)
LEMMA UserBeginFacts ==
  ASSUME Inv, NEW t \in Threads, UserBegins(t)
  PROVE  \E op \in UserOps, todo \in Seq(Changes) :
           /\ todo # <<>>
           /\ Begin(t, op, todo, IF op = "create" THEN "make" ELSE "list")
           /\ op = "create" =>
                \E s \in Streams : /\ s \notin made
                                   /\ todo = [i \in DOMAIN Bundle[s] |-> Adding(Bundle[s][i])]
           /\ op = "add" => \E o \in made \ asked : o \in Objects /\ todo = <<Adding(o)>>
           /\ op = "remove" => \E o \in asked : o \in Objects /\ todo = <<Removing(o)>>
           /\ again \subseteq again' /\ again' \subseteq Objects
           /\ UNCHANGED <<lists, hal, published, pending, streams, asked, aborted>>
<1>0. again \subseteq Objects  BY DEF Inv, IInv, StateInv
<1>1. ASSUME NEW s \in Streams, UserCreates(t, s)
      PROVE  LET todo == [i \in DOMAIN Bundle[s] |-> Adding(Bundle[s][i])]
             IN  /\ todo \in Seq(Changes) /\ todo # <<>>
                 /\ Begin(t, "create", todo, "make") /\ s \notin made
                 /\ UNCHANGED <<lists, hal, published, pending, streams, history>>
  <2>1. Len([i \in DOMAIN Bundle[s] |-> Adding(Bundle[s][i])]) # 0  BY BundleTodo, BundleFacts
  <2>2. Len(<<>>) = 0  OBVIOUS
  <2>q. QED  BY <1>1, <2>1, <2>2, BundleTodo DEF UserCreates
<1>2. ASSUME NEW o \in Objects, UserAdds(t, o)
      PROVE  /\ <<Adding(o)>> \in Seq(Changes) /\ <<Adding(o)>> # <<>>
             /\ Begin(t, "add", <<Adding(o)>>, "list") /\ o \in made \ asked
             /\ again' = again \union {o}
             /\ UNCHANGED <<lists, hal, published, pending, streams, asked, aborted>>
  <2>1. <<Adding(o)>> \in Seq(Changes) /\ <<Adding(o)>> # <<>>  BY AddingFacts
  <2>q. QED  BY <1>2, <2>1 DEF UserAdds
<1>3. ASSUME NEW o \in Objects, UserRemoves(t, o)
      PROVE  /\ <<Removing(o)>> \in Seq(Changes) /\ <<Removing(o)>> # <<>>
             /\ Begin(t, "remove", <<Removing(o)>>, "list") /\ o \in asked
             /\ UNCHANGED <<lists, hal, published, pending, streams, history>>
  <2>1. <<Removing(o)>> \in Seq(Changes) /\ <<Removing(o)>> # <<>>  BY AddingFacts
  <2>q. QED  BY <1>3, <2>1 DEF UserRemoves
<1>4. CASE \E s \in Streams : UserCreates(t, s)
  BY <1>0, <1>1, <1>4 DEF UserOps, history
<1>5. CASE \E o \in Objects : UserAdds(t, o)
  BY <1>0, <1>2, <1>5 DEF UserOps
<1>6. CASE \E o \in Objects : UserRemoves(t, o)
  BY <1>0, <1>3, <1>6 DEF UserOps, history
<1>q. QED  BY <1>4, <1>5, <1>6 DEF UserBegins

-----------------------------------------------------------------------------
(* Types.                                                                  *)

LEMMA BeginType ==
  ASSUME Inv, NEW t \in Threads, NEW op \in UserOps \union HalOps, NEW todo \in Seq(Changes),
         NEW step \in Steps, Begin(t, op, todo, step)
  PROVE  call' \in [Threads -> Calls]
<1>1. call \in [Threads -> Calls]  BY DEF Inv, IInv, StateInv
<1>2. [op |-> op, todo |-> todo, next |-> 1, at |-> step] \in Calls  BY DEF Calls
<1>q. QED  BY <1>1, <1>2 DEF Begin

LEMMA GotoType ==
  ASSUME Inv, NEW t \in Threads, NEW step \in Steps, Goto(t, step)
  PROVE  call' \in [Threads -> Calls]
<1>1. call \in [Threads -> Calls]  BY DEF Inv, IInv, StateInv
<1>2. [call[t] EXCEPT !.at = step] \in Calls  BY <1>1 DEF Calls
<1>q. QED  BY <1>1, <1>2 DEF Goto

LEMMA AdvanceType ==
  ASSUME Inv, NEW t \in Threads, Advance(t)
  PROVE  call' \in [Threads -> Calls]
<1>1. call \in [Threads -> Calls]  BY DEF Inv, IInv, StateInv
<1>2. FirstStep(call[t].op) \in Steps  BY DEF FirstStep, Steps
<1>3. [call[t] EXCEPT !.next = @ + 1, !.at = FirstStep(call[t].op)] \in Calls
  <2>1. PICK c \in Calls : c = call[t]  BY <1>1
  <2>2. c.next + 1 \in Nat \ {0}  BY DEF Calls
  <2>3. [c EXCEPT !.next = c.next + 1, !.at = FirstStep(c.op)] \in Calls
    BY <1>2, <2>1, <2>2 DEF Calls
  <2>q. QED  BY <2>1, <2>3
<1>q. QED  BY <1>1, <1>3 DEF Advance

LEMMA IdleType == Idle \in Calls
<1>1. <<>> \in Seq(Changes)  BY EmptySeq
<1>q. QED  BY <1>1 DEF Idle, Calls, Steps

(* The set operations keep to the objects.                                 *)
LEMMA AfterFacts ==
  ASSUME NEW x \in Changes, NEW S
  PROVE  /\ \A o : o \in After(x, S) <=> IF x.object = o THEN x.what = "add" ELSE o \in S
         /\ S \subseteq Objects => After(x, S) \subseteq Objects
<1>1. x.what \in {"add", "remove"} /\ x.object \in Objects  BY ChangeFacts
<1>q. QED  BY <1>1 DEF After

LEMMA CountedType ==
  ASSUME Inv, NEW x
  PROVE  Counted(x) \in [Scopes -> Int]
<1>1. numStreams \in [Scopes -> Int] /\ CounterSize \in Nat \ {0}
  BY StreamsAssumption, FS_CardinalityType DEF Inv, IInv, StateInv
<1>q. QED  BY <1>1 DEF Counted

(* The stream that a call is making.                                       *)
LEMMA MakeFacts ==
  ASSUME Inv, NEW t \in Threads, Make(t)
  PROVE  \E s \in Streams : 
           /\ call[t].op = "create" /\ call[t].next = 1 /\ Doing(t).object = s
           /\ Len(call[t].todo) = Len(Bundle[s])
           /\ \A i \in DOMAIN Bundle[s] : call[t].todo[i] = Adding(Bundle[s][i])
           /\ made' = made \union ToSet(Bundle[s])
           /\ first' = [first EXCEPT ![s] = StartingChannel(Scope[s])]
           /\ \E w \in 1 .. MaxWidth : width' = [width EXCEPT ![s] = w]
           /\ Goto(t, "list")
           /\ UNCHANGED <<lists, hal, published, pending, attached, used, history>>
<1>1. ~Finished(t) /\ call[t].at = "make"  BY DEF Make, At
<1>2. call[t].op \in UserOps
  <2>1. call[t].op \notin HalOps  BY <1>1 DEF Inv, IInv, CallInv
  <2>q. QED  BY <1>1, <2>1, CallFacts, DoingFacts DEF Calls
<1>3. call[t].op = "create" /\ call[t].next = 1
  BY <1>1, <1>2 DEF Inv, IInv, CallInv, FirstSteps
<1>4. PICK s \in Streams :
        /\ Len(call[t].todo) = Len(Bundle[s])
        /\ \A i \in DOMAIN Bundle[s] : call[t].todo[i] = Adding(Bundle[s][i])
  BY <1>3 DEF Inv, IInv, CallInv
<1>5. call[t].todo[1] = Adding(s) /\ s \in Objects  BY <1>4, BundleFacts DEF Objects
<1>6. Doing(t).object = s  BY <1>3, <1>5, AddingFacts DEF Doing
<1>q. QED  BY <1>3, <1>4, <1>6 DEF Make

LEMMA StatePreserved ==
  ASSUME Inv, Next
  PROVE  StateInv'
<1> USE DEF Inv, IInv
<1>0. StateInv  OBVIOUS
<1>a. ASSUME NEW t \in Threads, Make(t)  PROVE StateInv'
  <2>1. PICK s \in Streams :
           /\ made' = made \union ToSet(Bundle[s])
           /\ first' = [first EXCEPT ![s] = StartingChannel(Scope[s])]
           /\ \E w \in 1 .. MaxWidth : width' = [width EXCEPT ![s] = w]
           /\ Goto(t, "list")
           /\ UNCHANGED <<lists, hal, published, pending, attached, used, history>>
    BY <1>a, MakeFacts
  <2>2. StartingChannel(Scope[s]) \in Nat  BY StartingChannelFacts
  <2>3. ToSet(Bundle[s]) \subseteq Objects  BY BundleFacts DEF ToSet
  <2>4. MaxWidth \in Nat  BY StreamsAssumption
  <2>5. first' \in [Streams -> Nat] /\ width' \in [Streams -> Nat]
    BY <1>0, <2>1, <2>2, <2>4 DEF StateInv
  <2>6. call' \in [Threads -> Calls]  BY <2>1, GotoType DEF Steps
  <2>7. made' \subseteq Objects  BY <1>0, <2>1, <2>3 DEF StateInv
  <2>q. QED  BY <1>0, <2>1, <2>5, <2>6, <2>7 DEF StateInv, lists, hal, history
<1>b. ASSUME NEW t \in Threads, List(t) \/ ListByID(t) \/ Count(t) \/ RequestInPlace(t)
      PROVE  StateInv'
  <2>1. ~Finished(t)  BY <1>b DEF List, ListByID, Count, RequestInPlace, At
  <2>2. \E step \in Steps : Goto(t, step)
    BY <1>b DEF List, ListByID, Count, RequestInPlace, Steps
  <2>3. call' \in [Threads -> Calls]  BY <2>2, GotoType
  <2>4. Doing(t) \in Changes  BY <2>1, DoingFacts
  <2>5. listed' \subseteq Objects /\ byID' \subseteq Objects
    BY <1>0, <1>b, <2>4, AfterFacts DEF List, ListByID, Count, RequestInPlace, lists, StateInv
  <2>6. numStreams' \in [Scopes -> Int]
    BY <1>0, <1>b, CountedType DEF List, ListByID, Count, RequestInPlace, hal, StateInv
  <2>7. UNCHANGED <<owned, published, pending, streams, history>>
    BY <1>b DEF List, ListByID, Count, RequestInPlace, hal
  <2>q. QED  BY <1>0, <2>3, <2>5, <2>6, <2>7 DEF StateInv, streams, history
<1>c. ASSUME NEW t \in Threads, RequestLater(t)  PROVE StateInv'
  <2>1. ~Finished(t)  BY <1>c DEF RequestLater, At
  <2>2. call' \in [Threads -> Calls]  BY <1>c, AdvanceType DEF RequestLater
  <2>3. pending' \in Seq(Changes)
    BY <1>0, <1>c, <2>1, DoingFacts, AppendProperties DEF RequestLater, StateInv
  <2>4. published /\ UNCHANGED <<lists, hal, published, streams, history>>
    BY <1>c DEF RequestLater
  <2>q. QED  BY <1>0, <2>2, <2>3, <2>4 DEF StateInv, lists, hal, streams, history
<1>d. ASSUME NEW t \in Threads, Own(t)  PROVE StateInv'
  <2>1. ~Finished(t)  BY <1>d DEF Own, At
  <2>2. call' \in [Threads -> Calls]  BY <1>d, AdvanceType DEF Own
  <2>3. owned' \subseteq Objects
    BY <1>0, <1>d, <2>1, DoingFacts, AfterFacts DEF Own, StateInv
  <2>4. UNCHANGED <<lists, numStreams, published, pending, streams, history>>
    BY <1>d DEF Own
  <2>q. QED  BY <1>0, <2>2, <2>3, <2>4 DEF StateInv, lists, streams, history
<1>e. ASSUME NEW t \in Threads, Return(t)  PROVE StateInv'
  <2>1. call' \in [Threads -> Calls]  BY <1>0, <1>e, IdleType DEF Return, StateInv
  <2>2. {call[t].todo[i].object : i \in DOMAIN call[t].todo} \subseteq Objects  BY CallFacts
  <2>3. asked' \subseteq Objects  BY <1>0, <1>e, <2>2 DEF Return, StateInv
  <2>4. attached' \subseteq Streams
    <3>1. ASSUME call[t].op = "create"  PROVE call[t].todo[1].object \in Streams
      <4>1. PICK s \in Streams :
              \A i \in DOMAIN Bundle[s] : call[t].todo[i] = Adding(Bundle[s][i])
        BY <3>1 DEF CallInv
      <4>2. call[t].todo[1] = Adding(s) /\ s \in Objects  BY <4>1, BundleFacts DEF Objects
      <4>q. QED  BY <4>2, AddingFacts
    <3>q. QED  BY <1>0, <1>e, <3>1 DEF Return, StateInv
  <2>5. UNCHANGED <<lists, hal, published, pending, made, first, width, again, aborted>>
    BY <1>e DEF Return
  <2>q. QED  BY <1>0, <2>1, <2>3, <2>4, <2>5 DEF StateInv, lists, hal
<1>f. ASSUME NEW t \in Threads, UserBegins(t)  PROVE StateInv'
  <2>1. PICK op \in UserOps, todo \in Seq(Changes) :
           /\ Begin(t, op, todo, IF op = "create" THEN "make" ELSE "list")
           /\ again' \subseteq Objects
           /\ UNCHANGED <<lists, hal, published, pending, streams, asked, aborted>>
    BY <1>f, UserBeginFacts
  <2>2. (IF op = "create" THEN "make" ELSE "list") \in Steps  BY DEF Steps
  <2>3. call' \in [Threads -> Calls]  BY <2>1, <2>2, BeginType
  <2>q. QED  BY <1>0, <2>1, <2>3 DEF StateInv, lists, hal, streams
<1>g. ASSUME NEW t \in Threads, UserPublishes(t)  PROVE StateInv'
  BY <1>0, <1>g DEF UserPublishes, StateInv, lists, hal, streams, history
<1>h. ASSUME NEW t \in Threads, UserUnpublishes(t)  PROVE StateInv'
  <2>1. Begin(t, "unpublish", pending, "count")  BY <1>h DEF UserUnpublishes
  <2>2. call' \in [Threads -> Calls]  BY <1>0, <2>1, BeginType DEF HalOps, Steps, StateInv
  <2>3. <<>> \in Seq(Changes)  BY EmptySeq
  <2>q. QED  BY <1>0, <1>h, <2>2, <2>3 DEF UserUnpublishes, StateInv, lists, hal, streams, history
<1>i. CASE HalPerforms
  <2>1. pending \in Seq(Changes) /\ pending # <<>> /\ published
    BY <1>0, <1>i DEF HalPerforms, StateInv
  <2>2. <<Head(pending)>> \in Seq(Changes) /\ Tail(pending) \in Seq(Changes)
    BY <2>1, HeadTailProperties
  <2>3. Begin(Hal, "perform", <<Head(pending)>>, "count") /\ Hal \in Threads
    BY <1>i DEF HalPerforms, Threads
  <2>4. call' \in [Threads -> Calls]  BY <2>2, <2>3, BeginType DEF HalOps, Steps
  <2>q. QED  BY <1>0, <1>i, <2>1, <2>2, <2>4 DEF HalPerforms, StateInv, lists, hal, streams, history
<1>j. CASE HalAborts
  <2>1. pending \in Seq(Changes) /\ pending # <<>> /\ published
    BY <1>0, <1>j DEF HalAborts, StateInv
  <2>2. Head(pending) \in Changes /\ Tail(pending) \in Seq(Changes)  BY <2>1, HeadTailProperties
  <2>3. Head(pending).object \in Objects  BY <2>2, ChangeFacts
  <2>q. QED  BY <1>0, <1>j, <2>1, <2>2, <2>3 DEF HalAborts, StateInv, lists, hal, streams
<1>q. QED  BY <1>a, <1>b, <1>c, <1>d, <1>e, <1>f, <1>g, <1>h, <1>i, <1>j, NextGroups DEF Step
-----------------------------------------------------------------------------
(* What the steps of a call do to it; the other threads are idle, before   *)
(* and after.                                                              *)

LEMMA GotoFacts ==
  ASSUME Inv, NEW t \in Threads, NEW step, Goto(t, step), call[t].op # "idle"
  PROVE  /\ call'[t].op = call[t].op /\ call'[t].todo = call[t].todo
         /\ call'[t].next = call[t].next /\ call'[t].at = step
         /\ \A u \in Threads : u = t \/ call'[u] = Idle
<1>1. call[t] \in Calls /\ call \in [Threads -> Calls]  BY DEF Inv, IInv, StateInv
<1>2. \A u \in Threads : u = t \/ call'[u] = call[u]  BY <1>1 DEF Goto
<1>q. QED  BY <1>1, <1>2, Alone DEF Goto, Calls

LEMMA AdvanceFacts ==
  ASSUME Inv, NEW t \in Threads, Advance(t), call[t].op # "idle"
  PROVE  /\ call'[t].op = call[t].op /\ call'[t].todo = call[t].todo
         /\ call'[t].next = call[t].next + 1 /\ call'[t].at = FirstStep(call[t].op)
         /\ \A u \in Threads : u = t \/ call'[u] = Idle
<1>1. call[t] \in Calls /\ call \in [Threads -> Calls]  BY DEF Inv, IInv, StateInv
<1>2. \A u \in Threads : u = t \/ call'[u] = call[u]  BY <1>1 DEF Advance
<1>3. call'[t] = [call[t] EXCEPT !.next = call[t].next + 1, !.at = FirstStep(call[t].op)]
  BY <1>1 DEF Advance
<1>q. QED  BY <1>1, <1>2, <1>3, Alone DEF Calls

LEMMA BeganFacts ==
  ASSUME Inv, NEW t \in Threads, NEW op, NEW todo, NEW step, Begin(t, op, todo, step)
  PROVE  /\ call'[t].op = op /\ call'[t].todo = todo
         /\ call'[t].next = 1 /\ call'[t].at = step
         /\ \A u \in Threads : call[u] = Idle /\ CanLock(u)
         /\ \A u \in Threads : u = t \/ call'[u] = Idle
<1>1. call \in [Threads -> Calls]  BY DEF Inv, IInv, StateInv
<1>2. \A u \in Threads : call[u] = Idle /\ CanLock(u)  BY BeginFacts DEF Begin
<1>q. QED  BY <1>1, <1>2 DEF Begin

LEMMA ReturnFacts ==
  ASSUME Inv, NEW t \in Threads, Return(t)
  PROVE  \A u \in Threads : call'[u] = Idle
<1>1. call \in [Threads -> Calls] /\ call[t].op # "idle"  BY DEF Inv, IInv, StateInv, Return
<1>q. QED  BY <1>1, Alone DEF Return

LEMMA IdleFacts ==
  /\ Idle.op = "idle" /\ Idle.todo = <<>> /\ Idle.next = 1 /\ Idle.at = "idle"
  /\ Len(<<>>) = 0 /\ DOMAIN <<>> = {} /\ "idle" \notin UserOps /\ "idle" \notin HalOps
BY DEF Idle, UserOps, HalOps

(* The operation and the step of a call on its way.                        *)
LEMMA AtFacts ==
  ASSUME Inv, NEW t \in Threads, NEW step, At(t, step)
  PROVE  /\ ~Finished(t) /\ call[t].at = step /\ call[t].op # "idle"
         /\ call[t].op \in UserOps \union HalOps
         /\ step \in {"make", "list", "byID", "request"} => call[t].op \in UserOps
<1>1. ~Finished(t) /\ call[t].at = step /\ call[t].op # "idle"  BY DoingFacts DEF At
<1>2. call[t].op \in UserOps \union HalOps  BY <1>1, CallFacts DEF Calls
<1>3. call[t].op \in HalOps => call[t].at \in {"count", "own"}  BY DEF Inv, IInv, CallInv
<1>q. QED  BY <1>1, <1>2, <1>3

(* The mutex and the places of a call.                                     *)
LEMMA CallPreserved ==
  ASSUME Inv, Next
  PROVE  CallInv'
<1> DEFINE Shape(c) ==
      /\ c.op = "create" =>
            \E s \in Streams : /\ Len(c.todo) = Len(Bundle[s])
                               /\ \A i \in DOMAIN Bundle[s] : c.todo[i] = Adding(Bundle[s][i])
      /\ c.op = "add" => \E o \in Objects : c.todo = <<Adding(o)>>
      /\ c.op = "remove" => \E o \in Objects : c.todo = <<Removing(o)>>
<1> DEFINE Place(t, c, pub) ==
      /\ c.op = "idle" => c = Idle
      /\ c.next <= Len(c.todo) + 1
      /\ c.op \in HalOps => c.at \in {"count", "own"}
      /\ c.op = "perform" => t = Hal
      /\ c.op \in UserOps =>
            /\ c.at \in {"list", "byID", "request", "count", "own"} \union FirstSteps(c.op)
            /\ c.at = "make" => c.next = 1
            /\ c.at \in {"count", "own"} => ~pub
            /\ c.next > Len(c.todo) => c.at = "list"
<1>1. \A t \in Threads : Place(t, call[t], published) /\ Shape(call[t])
  BY DEF Inv, IInv, CallInv, Finished
<1>2. ASSUME NEW t \in Threads, \A u \in Threads : u = t \/ call'[u] = Idle,
             Place(t, call'[t], published'), Shape(call'[t])
      PROVE  CallInv'
  <2>1. \A u \in Threads : u = t \/ (Place(u, call'[u], published') /\ Shape(call'[u]))
    BY <1>2, IdleFacts
  <2>2. \A u, v \in Threads : call'[u].op # "idle" /\ call'[v].op # "idle" => u = v
    BY <1>2, IdleFacts
  <2>3. \A u \in Threads : Place(u, call'[u], published') /\ Shape(call'[u])  BY <1>2, <2>1
  <2>q. QED  BY <2>2, <2>3 DEF CallInv, Finished
<1> HIDE DEF Shape
<1>a. ASSUME NEW t \in Threads, NEW from, NEW to, At(t, from), Goto(t, to),
             from \in {"make", "list", "byID", "request", "count"},
             to \in {"list", "byID", "request", "count", "own"},
             from \in {"make", "list", "byID", "request"} =>
               to \in {"list", "byID", "request"} \/ (~published /\ to = "count"),
             from = "count" => to = "own",
             published' = published
      PROVE  CallInv'
  <2>1. /\ call[t].op # "idle" /\ call[t].op \in UserOps \union HalOps /\ ~Finished(t)
        /\ from \in {"make", "list", "byID", "request"} => call[t].op \in UserOps
        /\ call[t].at = from
    BY <1>a, AtFacts
  <2>2. /\ call'[t].op = call[t].op /\ call'[t].todo = call[t].todo
        /\ call'[t].next = call[t].next /\ call'[t].at = to
        /\ \A u \in Threads : u = t \/ call'[u] = Idle
    BY <1>a, <2>1, GotoFacts
  <2>3. Shape(call'[t])  BY <1>1, <2>2 DEF Shape
  <2>4. UserOps \intersect HalOps = {} /\ "idle" \notin UserOps \union HalOps
    BY DEF UserOps, HalOps
  <2>5. Place(t, call'[t], published')
    BY <1>1, <1>a, <2>1, <2>2, <2>4 DEF Finished
  <2>q. QED  BY <1>2, <2>2, <2>3, <2>5
<1>b. ASSUME NEW t \in Threads, NEW from, At(t, from), Advance(t), published' = published
      PROVE  CallInv'
  <2>1. call[t].op # "idle" /\ call[t].op \in UserOps \union HalOps /\ ~Finished(t)
    BY <1>b, AtFacts
  <2>2. /\ call'[t].op = call[t].op /\ call'[t].todo = call[t].todo
        /\ call'[t].next = call[t].next + 1 /\ call'[t].at = FirstStep(call[t].op)
        /\ \A u \in Threads : u = t \/ call'[u] = Idle
    BY <1>b, <2>1, AdvanceFacts
  <2>3. Shape(call'[t])  BY <1>1, <2>2 DEF Shape
  <2>4. call[t].next + 1 <= Len(call[t].todo) + 1
    BY <2>1, CallFacts DEF Finished
  <2>5. FirstStep(call[t].op) = IF call[t].op \in HalOps THEN "count" ELSE "list"
    BY DEF FirstStep, HalOps
  <2>6. UserOps \intersect HalOps = {} /\ "idle" \notin UserOps \union HalOps
    BY DEF UserOps, HalOps
  <2>7. Place(t, call'[t], published')
    BY <1>1, <2>1, <2>2, <2>4, <2>5, <2>6
  <2>q. QED  BY <1>2, <2>2, <2>3, <2>7
<1>c. ASSUME NEW t \in Threads, Return(t)  PROVE CallInv'
  <2>1. \A u \in Threads : call'[u] = Idle  BY <1>c, ReturnFacts
  <2>2. Shape(call'[t])  BY <2>1, IdleFacts DEF Shape
  <2>3. Place(t, call'[t], published')  BY <2>1, IdleFacts
  <2>q. QED  BY <1>2, <2>1, <2>2, <2>3
<1>d. ASSUME NEW t \in Threads, UserBegins(t)  PROVE CallInv'
  <2>1. PICK op \in UserOps, todo \in Seq(Changes) :
           /\ todo # <<>>
           /\ Begin(t, op, todo, IF op = "create" THEN "make" ELSE "list")
           /\ op = "create" =>
                \E s \in Streams : todo = [i \in DOMAIN Bundle[s] |-> Adding(Bundle[s][i])]
           /\ op = "add" => \E o \in made \ asked : o \in Objects /\ todo = <<Adding(o)>>
           /\ op = "remove" => \E o \in asked : o \in Objects /\ todo = <<Removing(o)>>
    BY <1>d, UserBeginFacts
  <2>2. /\ call'[t].op = op /\ call'[t].todo = todo /\ call'[t].next = 1
        /\ call'[t].at = IF op = "create" THEN "make" ELSE "list"
        /\ \A u \in Threads : u = t \/ call'[u] = Idle
    BY <2>1, BeganFacts
  <2>3. Len(todo) \in Nat \ {0}  BY <2>1, EmptySeq
  <2>4. Shape(call'[t])
    <3>1. CASE op = "create"  BY <2>1, <2>2, <3>1, BundleTodo DEF Shape
    <3>2. CASE op # "create"  BY <2>1, <2>2, <3>2 DEF Shape
    <3>q. QED  BY <3>1, <3>2
  <2>5. Place(t, call'[t], published')  BY <2>2, <2>3 DEF UserOps, HalOps, FirstSteps
  <2>q. QED  BY <1>2, <2>2, <2>4, <2>5
<1>e. ASSUME NEW t \in Threads, NEW op \in HalOps, NEW todo \in Seq(Changes), op = "perform" => t = Hal,
             Begin(t, op, todo, "count")
      PROVE  CallInv'
  <2>1. /\ call'[t].op = op /\ call'[t].todo = todo /\ call'[t].next = 1
        /\ call'[t].at = "count"
        /\ \A u \in Threads : u = t \/ call'[u] = Idle
    BY <1>e, BeganFacts
  <2>2. Len(todo) \in Nat  BY LenProperties
  <2>3. Shape(call'[t])  BY <2>1 DEF Shape, HalOps
  <2>4. Place(t, call'[t], published')  BY <1>e, <2>1, <2>2 DEF UserOps, HalOps
  <2>q. QED  BY <1>2, <2>1, <2>3, <2>4
<1>f. CASE \E t \in Threads : Make(t) \/ List(t) \/ ListByID(t) \/ RequestInPlace(t) \/ Count(t)
  BY <1>a, <1>f DEF Make, List, ListByID, RequestInPlace, Count
<1>g. CASE \E t \in Threads : RequestLater(t) \/ Own(t)
  BY <1>b, <1>g DEF RequestLater, Own
<1>h. CASE \E t \in Threads : UserUnpublishes(t)
  BY <1>e, <1>h DEF UserUnpublishes, HalOps, Inv, IInv, StateInv
<1>i. CASE HalPerforms
  <2>1. pending \in Seq(Changes) /\ pending # <<>>  BY <1>i DEF HalPerforms, Inv, IInv, StateInv
  <2>2. <<Head(pending)>> \in Seq(Changes)  BY <2>1, HeadTailProperties
  <2>q. QED  BY <1>e, <1>i, <2>2 DEF HalPerforms, HalOps, Threads
<1>j. CASE HalAborts \/ \E t \in Threads : UserPublishes(t)
  <2>1. PICK t \in Threads : call[t].op = "idle" /\ CanLock(t)
    BY <1>j DEF HalAborts, UserPublishes, Threads
  <2>2. \A u \in Threads : call[u] = Idle  BY <2>1, BeginFacts
  <2>3. call' = call  BY <1>j DEF HalAborts, UserPublishes
  <2>4. Shape(Idle) /\ Place(t, Idle, published')  BY IdleFacts DEF Shape
  <2>q. QED  BY <1>2, <2>2, <2>3, <2>4
<1>q. QED
  BY <1>c, <1>d, <1>f, <1>g, <1>h, <1>i, <1>j, NextGroups DEF Step
-----------------------------------------------------------------------------
(* Lists and maps.                                                         *)

(* A call of the plugin is about each object once.                         *)
LEMMA TodoDistinct ==
  ASSUME Inv, NEW t \in Threads, call[t].op \in UserOps,
         NEW i \in DOMAIN call[t].todo, NEW j \in DOMAIN call[t].todo,
         call[t].todo[i].object = call[t].todo[j].object
  PROVE  i = j
<1>1. CASE call[t].op = "create"
  <2>1. PICK s \in Streams : /\ Len(call[t].todo) = Len(Bundle[s])
                             /\ \A k \in DOMAIN Bundle[s] : call[t].todo[k] = Adding(Bundle[s][k])
    BY <1>1 DEF Inv, IInv, CallInv
  <2>2. DOMAIN call[t].todo = DOMAIN Bundle[s]  BY <2>1, CallFacts, BundleFacts
  <2>3. Bundle[s][i] = Bundle[s][j]  BY <2>1, <2>2, BundleFacts, AddingFacts
  <2>q. QED  BY <2>2, <2>3, StreamsAssumption
<1>2. CASE call[t].op # "create"
  <2>1. PICK x : call[t].todo = <<x>>  BY <1>2 DEF Inv, IInv, CallInv, UserOps
  <2>2. DOMAIN <<x>> = {1}  OBVIOUS
  <2>q. QED  BY <2>1, <2>2
<1>q. QED  BY <1>1, <1>2

(* If all threads are idle the lists are what finished calls have left.    *)
LEMMA ListsAtRest ==
  ASSUME Inv, \A u \in Threads : call[u].op \notin UserOps, NEW o \in Objects
  PROVE  (o \in listed <=> o \in asked) /\ (o \in byID <=> o \in asked)
BY DEF Inv, IInv, ListsInv

(* A step of a call does to the lists what it says, and nothing to objects *)
(* of which it is not.                                                     *)
LEMMA ListsStep ==
  ASSUME Inv, NEW t \in Threads, call[t].op \in UserOps,
         call'[t].op = call[t].op, call'[t].todo = call[t].todo,
         \A u \in Threads : u = t \/ call'[u] = Idle,
         asked' = asked,
         \A o \in Objects : ~Affects(t, o) =>
           (o \in listed' <=> o \in listed) /\ (o \in byID' <=> o \in byID),
         \A i \in DOMAIN call[t].todo :
           LET change == call[t].todo[i]
           IN  /\ change.object \in listed' <=> (Past(t, i, Listed)' <=> change.what = "add")
               /\ change.object \in byID' <=> (Past(t, i, Listed \ {"byID"})' <=> change.what = "add")
  PROVE  ListsInv'
<1>1. \A u \in Threads : u = t \/ (call[u].op \notin UserOps /\ call'[u].op \notin UserOps)
  <2>1. call[t].op # "idle"  BY IdleFacts
  <2>q. QED  BY <2>1, Alone, IdleFacts
<1>2. ASSUME NEW o \in Objects, \A u \in Threads : call'[u].op \in UserOps => ~Affects(u, o)'
      PROVE  (o \in listed' <=> o \in asked') /\ (o \in byID' <=> o \in asked')
  <2>1. ~Affects(t, o)
    <3>1. ~Affects(t, o)'  BY <1>2
    <3>q. QED  BY <3>1 DEF Affects
  <2>2. \A u \in Threads : call[u].op \in UserOps => ~Affects(u, o)  BY <1>1, <2>1
  <2>3. (o \in listed <=> o \in asked) /\ (o \in byID <=> o \in asked)
    BY <2>2 DEF Inv, IInv, ListsInv
  <2>q. QED  BY <2>1, <2>3
<1>3. ASSUME NEW i \in DOMAIN call'[t].todo
      PROVE  LET change == call'[t].todo[i]
                 o      == change.object
             IN  /\ o \in asked' <=> change.what = "remove"
                 /\ o \in listed' <=> (Past(t, i, Listed)' <=> change.what = "add")
                 /\ o \in byID' <=> (Past(t, i, Listed \ {"byID"})' <=> change.what = "add")
  <2>1. i \in DOMAIN call[t].todo /\ call'[t].todo[i] = call[t].todo[i]  BY <1>3
  <2>2. call[t].todo[i].object \in asked <=> call[t].todo[i].what = "remove"
    BY <2>1 DEF Inv, IInv, ListsInv
  <2>q. QED  BY <2>1, <2>2
<1>q. QED  BY <1>1, <1>2, <1>3, ZenonT(40) DEF ListsInv

(* A step that lists nothing is past the same changes.                     *)
LEMMA ListsUnchanged ==
  ASSUME Inv, NEW t \in Threads, call[t].op \in UserOps,
         call'[t].op = call[t].op, call'[t].todo = call[t].todo,
         \A u \in Threads : u = t \/ call'[u] = Idle,
         UNCHANGED <<listed, byID, asked>>,
         \A i \in DOMAIN call[t].todo :
           /\ Past(t, i, Listed)' <=> Past(t, i, Listed)
           /\ Past(t, i, Listed \ {"byID"})' <=> Past(t, i, Listed \ {"byID"})
  PROVE  ListsInv'
<1>1. \A i \in DOMAIN call[t].todo :
           LET change == call[t].todo[i]
           IN  /\ change.object \in listed <=> (Past(t, i, Listed) <=> change.what = "add")
               /\ change.object \in byID <=> (Past(t, i, Listed \ {"byID"}) <=> change.what = "add")
  BY DEF Inv, IInv, ListsInv
<1>q. QED  BY <1>1, ListsStep

(* A function of other threads' requests does nothing to the lists.        *)
LEMMA ListsOfOthers ==
  ASSUME Inv, NEW t \in Threads, \A u \in Threads : call[u].op \notin UserOps,
         call'[t].op \notin UserOps, \A u \in Threads : u = t \/ call'[u] = Idle,
         UNCHANGED <<listed, byID, asked>>
  PROVE  ListsInv'
<1>1. \A u \in Threads : call'[u].op \notin UserOps  BY IdleFacts
<1>q. QED  BY <1>1, ListsAtRest DEF ListsInv

LEMMA NoUser ==
  ASSUME Inv, NEW t \in Threads, call[t].op \in HalOps
  PROVE  \A u \in Threads : call[u].op \notin UserOps
<1>1. call[t].op # "idle" /\ call[t].op \notin UserOps  BY DEF HalOps, UserOps
<1>q. QED  BY <1>1, Alone, IdleFacts

LEMMA ListsPreserved ==
  ASSUME Inv, Next
  PROVE  ListsInv'
<1>a. ASSUME NEW t \in Threads, List(t)  PROVE ListsInv'
  <2> DEFINE n == call[t].next
  <2>1. /\ ~Finished(t) /\ call[t].at = "list" /\ call[t].op \in UserOps /\ call[t].op # "idle"
    BY <1>a, AtFacts DEF List
  <2>2. /\ call'[t].op = call[t].op /\ call'[t].todo = call[t].todo
        /\ call'[t].next = n /\ call'[t].at = "byID"
        /\ \A u \in Threads : u = t \/ call'[u] = Idle
    BY <1>a, <2>1, GotoFacts DEF List
  <2>3. /\ n \in DOMAIN call[t].todo /\ Doing(t) = call[t].todo[n] /\ Doing(t) \in Changes
    BY <2>1, DoingFacts
  <2>4. listed' = After(Doing(t), listed) /\ byID' = byID /\ asked' = asked
    BY <1>a DEF List, history
  <2>5. \A o : o \in listed' <=> IF Doing(t).object = o THEN Doing(t).what = "add" ELSE o \in listed
    BY <2>3, <2>4, AfterFacts
  <2>6. \A o \in Objects : ~Affects(t, o) => o # Doing(t).object  BY <2>3 DEF Affects
  <2>7. ASSUME NEW i \in DOMAIN call[t].todo
        PROVE  LET change == call[t].todo[i]
               IN  /\ change.object \in listed' <=> (Past(t, i, Listed)' <=> change.what = "add")
                   /\ change.object \in byID' <=> (Past(t, i, Listed \ {"byID"})' <=> change.what = "add")
    <3>1. /\ call[t].todo[i].object \in listed <=> (Past(t, i, Listed) <=> call[t].todo[i].what = "add")
          /\ call[t].todo[i].object \in byID <=>
               (Past(t, i, Listed \ {"byID"}) <=> call[t].todo[i].what = "add")
      BY <2>1 DEF Inv, IInv, ListsInv
    <3>2. CASE i = n
      <4>1. i \in Nat /\ ~(i < n)  BY <3>2, CallFacts
      <4>2. Past(t, i, Listed)' /\ ~Past(t, i, Listed \ {"byID"})' /\ ~Past(t, i, Listed \ {"byID"})
        BY <2>1, <2>2, <3>2, <4>1 DEF Past, Listed
      <4>q. QED  BY <2>3, <2>4, <2>5, <3>1, <3>2, <4>2
    <3>3. CASE i # n
      <4>1. call[t].todo[i].object # Doing(t).object  BY <2>1, <2>3, <3>3, TodoDistinct
      <4>2. (Past(t, i, Listed)' <=> Past(t, i, Listed))
            /\ (Past(t, i, Listed \ {"byID"})' <=> Past(t, i, Listed \ {"byID"}))
        BY <2>2, <3>3 DEF Past
      <4>q. QED  BY <2>4, <2>5, <3>1, <4>1, <4>2
    <3>q. QED  BY <3>2, <3>3
  <2>q. QED  BY <2>1, <2>2, <2>4, <2>5, <2>6, <2>7, ListsStep
<1>b. ASSUME NEW t \in Threads, ListByID(t)  PROVE ListsInv'
  <2> DEFINE n == call[t].next
  <2>1. /\ ~Finished(t) /\ call[t].at = "byID" /\ call[t].op \in UserOps /\ call[t].op # "idle"
    BY <1>b, AtFacts DEF ListByID
  <2>2. /\ call'[t].op = call[t].op /\ call'[t].todo = call[t].todo
        /\ call'[t].next = n /\ call'[t].at = "request"
        /\ \A u \in Threads : u = t \/ call'[u] = Idle
    BY <1>b, <2>1, GotoFacts DEF ListByID
  <2>3. /\ n \in DOMAIN call[t].todo /\ Doing(t) = call[t].todo[n] /\ Doing(t) \in Changes
    BY <2>1, DoingFacts
  <2>4. byID' = After(Doing(t), byID) /\ listed' = listed /\ asked' = asked
    BY <1>b DEF ListByID, history
  <2>5. \A o : o \in byID' <=> IF Doing(t).object = o THEN Doing(t).what = "add" ELSE o \in byID
    BY <2>3, <2>4, AfterFacts
  <2>6. \A o \in Objects : ~Affects(t, o) => o # Doing(t).object  BY <2>3 DEF Affects
  <2>7. ASSUME NEW i \in DOMAIN call[t].todo
        PROVE  LET change == call[t].todo[i]
               IN  /\ change.object \in listed' <=> (Past(t, i, Listed)' <=> change.what = "add")
                   /\ change.object \in byID' <=> (Past(t, i, Listed \ {"byID"})' <=> change.what = "add")
    <3>1. /\ call[t].todo[i].object \in listed <=> (Past(t, i, Listed) <=> call[t].todo[i].what = "add")
          /\ call[t].todo[i].object \in byID <=>
               (Past(t, i, Listed \ {"byID"}) <=> call[t].todo[i].what = "add")
      BY <2>1 DEF Inv, IInv, ListsInv
    <3>2. (Past(t, i, Listed)' <=> Past(t, i, Listed))
      BY <2>1, <2>2 DEF Past, Listed
    <3>3. CASE i = n
      <4>1. Past(t, i, Listed \ {"byID"})'  BY <2>2, <3>3 DEF Past, Listed
      <4>q. QED  BY <2>3, <2>4, <2>5, <3>1, <3>2, <3>3, <4>1
    <3>4. CASE i # n
      <4>1. call[t].todo[i].object # Doing(t).object  BY <2>1, <2>3, <3>4, TodoDistinct
      <4>2. Past(t, i, Listed \ {"byID"})' <=> Past(t, i, Listed \ {"byID"})
        BY <2>2, <3>4 DEF Past
      <4>q. QED  BY <2>4, <2>5, <3>1, <3>2, <4>1, <4>2
    <3>q. QED  BY <3>3, <3>4
  <2>q. QED  BY <2>1, <2>2, <2>4, <2>5, <2>6, <2>7, ListsStep
<1>c. ASSUME NEW t \in Threads, NEW from, NEW to, At(t, from), Goto(t, to),
             <<from, to>> \in {<<"make", "list">>, <<"request", "count">>, <<"count", "own">>},
             UNCHANGED <<listed, byID, asked>>
      PROVE  ListsInv'
  <2>1. /\ call[t].at = from /\ call[t].op # "idle" /\ call[t].op \in UserOps \union HalOps
    BY <1>c, AtFacts
  <2>2. /\ call'[t].op = call[t].op /\ call'[t].todo = call[t].todo
        /\ call'[t].next = call[t].next /\ call'[t].at = to
        /\ \A u \in Threads : u = t \/ call'[u] = Idle
    BY <1>c, <2>1, GotoFacts
  <2>3. CASE call[t].op \in UserOps
    <3>1. \A i : /\ Past(t, i, Listed)' <=> Past(t, i, Listed)
                 /\ Past(t, i, Listed \ {"byID"})' <=> Past(t, i, Listed \ {"byID"})
      BY <1>c, <2>1, <2>2 DEF Past, Listed
    <3>q. QED  BY <1>c, <2>2, <2>3, <3>1, ListsUnchanged
  <2>4. CASE call[t].op \in HalOps
    BY <1>c, <2>2, <2>4, NoUser, ListsOfOthers
  <2>q. QED  BY <2>1, <2>3, <2>4
<1>d. ASSUME NEW t \in Threads, NEW from \in {"request", "own"}, At(t, from), Advance(t),
             UNCHANGED <<listed, byID, asked>>
      PROVE  ListsInv'
  <2>1. /\ call[t].at = from /\ call[t].op # "idle" /\ call[t].op \in UserOps \union HalOps
    BY <1>d, AtFacts
  <2>2. /\ call'[t].op = call[t].op /\ call'[t].todo = call[t].todo
        /\ call'[t].next = call[t].next + 1 /\ call'[t].at = FirstStep(call[t].op)
        /\ \A u \in Threads : u = t \/ call'[u] = Idle
    BY <1>d, <2>1, AdvanceFacts
  <2>3. CASE call[t].op \in UserOps
    <3>1. FirstStep(call[t].op) = "list"  BY <2>3 DEF FirstStep, UserOps
    <3>2. call[t].next \in Nat /\ DOMAIN call[t].todo \subseteq Nat  BY CallFacts
    <3>3. \A i \in DOMAIN call[t].todo :
                 /\ Past(t, i, Listed)' <=> Past(t, i, Listed)
                 /\ Past(t, i, Listed \ {"byID"})' <=> Past(t, i, Listed \ {"byID"})
      BY <2>1, <2>2, <3>1, <3>2 DEF Past, Listed
    <3>q. QED  BY <1>d, <2>2, <2>3, <3>3, ListsUnchanged
  <2>4. CASE call[t].op \in HalOps
    BY <1>d, <2>2, <2>4, NoUser, ListsOfOthers
  <2>q. QED  BY <2>1, <2>3, <2>4
<1>e. ASSUME NEW t \in Threads, Return(t)  PROVE ListsInv'
  <2>1. \A u \in Threads : call'[u] = Idle  BY <1>e, ReturnFacts
  <2>2. listed' = listed /\ byID' = byID  BY <1>e DEF Return, lists
  <2>3. call[t].op # "idle" /\ Finished(t)  BY <1>e DEF Return
  <2>4. CASE call[t].op \in UserOps
    <3> DEFINE mine == {call[t].todo[i].object : i \in DOMAIN call[t].todo}
    <3>1. asked' = IF call[t].op = "remove" THEN asked \ mine ELSE asked \union mine
      BY <1>e, <2>4 DEF Return, UserOps
    <3>2. ASSUME NEW i \in DOMAIN call[t].todo
          PROVE  /\ call[t].todo[i].what = IF call[t].op = "remove" THEN "remove" ELSE "add"
                 /\ call[t].todo[i].object \in listed <=> call[t].todo[i].what = "add"
                 /\ call[t].todo[i].object \in byID <=> call[t].todo[i].what = "add"
      <4>1. i < call[t].next  BY <2>3, CallFacts DEF Finished
      <4>2. /\ call[t].todo[i].object \in listed <=> call[t].todo[i].what = "add"
            /\ call[t].todo[i].object \in byID <=> call[t].todo[i].what = "add"
        BY <2>4, <4>1 DEF Inv, IInv, ListsInv, Past
      <4>3. CASE call[t].op = "create"
        <5>1. PICK s \in Streams :
                 /\ Len(call[t].todo) = Len(Bundle[s])
                 /\ \A k \in DOMAIN Bundle[s] : call[t].todo[k] = Adding(Bundle[s][k])
          BY <4>3 DEF Inv, IInv, CallInv
        <5>2. DOMAIN call[t].todo = DOMAIN Bundle[s]  BY <5>1, CallFacts, BundleFacts
        <5>q. QED  BY <4>2, <4>3, <5>1, <5>2, BundleFacts, AddingFacts
      <4>4. CASE call[t].op = "add"
        <5>1. PICK o \in Objects : call[t].todo = <<Adding(o)>>  BY <4>4 DEF Inv, IInv, CallInv
        <5>2. i = 1 /\ call[t].todo[1] = Adding(o)  BY <5>1, CallFacts
        <5>q. QED  BY <4>2, <4>4, <5>2, AddingFacts
      <4>5. CASE call[t].op = "remove"
        <5>1. PICK o \in Objects : call[t].todo = <<Removing(o)>>  BY <4>5 DEF Inv, IInv, CallInv
        <5>2. i = 1 /\ call[t].todo[1] = Removing(o)  BY <5>1, CallFacts
        <5>q. QED  BY <4>2, <4>5, <5>2, AddingFacts
      <4>q. QED  BY <2>4, <4>3, <4>4, <4>5 DEF UserOps
    <3>3. ASSUME NEW o \in Objects
          PROVE  (o \in listed' <=> o \in asked') /\ (o \in byID' <=> o \in asked')
      <4>1. CASE o \in mine
        <5>1. PICK i \in DOMAIN call[t].todo : o = call[t].todo[i].object  BY <4>1
        <5>q. QED  BY <2>2, <3>1, <3>2, <4>1, <5>1
      <4>2. CASE o \notin mine
        <5>1. ~Affects(t, o)  BY <4>2 DEF Affects
        <5>2. \A u \in Threads : call[u].op \in UserOps => ~Affects(u, o)
          BY <2>3, <5>1, Alone, IdleFacts
        <5>3. (o \in listed <=> o \in asked) /\ (o \in byID <=> o \in asked)
          BY <5>2 DEF Inv, IInv, ListsInv
        <5>q. QED  BY <2>2, <3>1, <4>2, <5>3
      <4>q. QED  BY <4>1, <4>2
    <3>4. \A u \in Threads : call'[u].op \notin UserOps  BY <2>1, IdleFacts
    <3>q. QED  BY <3>3, <3>4 DEF ListsInv
  <2>5. CASE call[t].op \in HalOps
    <3>1. asked' = asked  BY <1>e, <2>5 DEF Return, HalOps
    <3>2. call'[t].op \notin UserOps  BY <2>1, IdleFacts
    <3>q. QED  BY <2>1, <2>2, <2>5, <3>1, <3>2, NoUser, ListsOfOthers
  <2>q. QED  BY <2>3, <2>4, <2>5, CallFacts DEF Calls
<1>f. ASSUME NEW t \in Threads, UserBegins(t)  PROVE ListsInv'
  <2>1. PICK op \in UserOps, todo \in Seq(Changes) :
           /\ Begin(t, op, todo, IF op = "create" THEN "make" ELSE "list")
           /\ op = "create" =>
                \E s \in Streams : /\ s \notin made
                                   /\ todo = [i \in DOMAIN Bundle[s] |-> Adding(Bundle[s][i])]
           /\ op = "add" => \E o \in made \ asked : o \in Objects /\ todo = <<Adding(o)>>
           /\ op = "remove" => \E o \in asked : o \in Objects /\ todo = <<Removing(o)>>
           /\ UNCHANGED <<lists, hal, published, pending, streams, asked, aborted>>
    BY <1>f, UserBeginFacts
  <2>2. /\ call'[t].op = op /\ call'[t].todo = todo /\ call'[t].next = 1
        /\ call'[t].at \notin Listed
        /\ \A u \in Threads : u = t \/ call'[u] = Idle
        /\ \A u \in Threads : call[u] = Idle
    BY <2>1, BeganFacts DEF Listed
  <2>3. UNCHANGED <<listed, byID, asked>>  BY <2>1 DEF lists
  <2>4. \A o \in Objects : (o \in listed <=> o \in asked) /\ (o \in byID <=> o \in asked)
    BY <2>2, ListsAtRest, IdleFacts
  <2>5. ASSUME NEW i \in DOMAIN todo
        PROVE  /\ todo[i].object \in Objects /\ todo[i].what \in {"add", "remove"}
               /\ todo[i].object \in asked <=> todo[i].what = "remove"
    <3>1. CASE op = "create"
      <4>1. PICK s \in Streams : /\ s \notin made
                                 /\ todo = [k \in DOMAIN Bundle[s] |-> Adding(Bundle[s][k])]
        BY <2>1, <3>1
      <4>2. i \in DOMAIN Bundle[s] /\ todo[i].object = Bundle[s][i] /\ todo[i].what = "add"
        BY <4>1, BundleTodo
      <4>3. Bundle[s][i] \notin made  BY <4>1, <4>2 DEF Inv, IInv, MadeInv
      <4>4. asked \subseteq made  BY DEF Inv, IInv, MadeInv
      <4>q. QED  BY <4>2, <4>3, <4>4, BundleFacts
    <3>2. CASE op = "add"
      <4>1. PICK o \in made \ asked : o \in Objects /\ todo = <<Adding(o)>>  BY <2>1, <3>2
      <4>2. i = 1 /\ todo[1] = Adding(o)  BY <4>1
      <4>q. QED  BY <4>1, <4>2, AddingFacts
    <3>3. CASE op = "remove"
      <4>1. PICK o \in asked : o \in Objects /\ todo = <<Removing(o)>>  BY <2>1, <3>3
      <4>2. i = 1 /\ todo[1] = Removing(o)  BY <4>1
      <4>q. QED  BY <4>1, <4>2, AddingFacts
    <3>q. QED  BY <3>1, <3>2, <3>3 DEF UserOps
  <2>6. \A i \in DOMAIN todo : ~Past(t, i, Listed)' /\ ~Past(t, i, Listed \ {"byID"})'
    <3>1. DOMAIN todo = 1 .. Len(todo) /\ Len(todo) \in Nat  BY LenProperties
    <3>2. \A i \in DOMAIN todo : ~(i < 1)  BY <3>1
    <3>q. QED  BY <2>2, <3>2 DEF Past, Listed
  <2>7. \A u \in Threads : u = t \/ call'[u].op \notin UserOps  BY <2>2, IdleFacts
  <2>8. \A o \in Objects : (o \in listed' <=> o \in asked') /\ (o \in byID' <=> o \in asked')
    BY <2>3, <2>4
  <2>9. ASSUME NEW i \in DOMAIN call'[t].todo
        PROVE  LET change == call'[t].todo[i]
                   o      == change.object
               IN  /\ o \in asked' <=> change.what = "remove"
                   /\ o \in listed' <=> (Past(t, i, Listed)' <=> change.what = "add")
                   /\ o \in byID' <=> (Past(t, i, Listed \ {"byID"})' <=> change.what = "add")
    BY <2>2, <2>3, <2>5, <2>6, <2>8
  <2>q. QED  BY <2>7, <2>8, <2>9 DEF ListsInv
<1>g. ASSUME NEW t \in Threads, NEW op \in HalOps, NEW todo, Begin(t, op, todo, "count"),
             UNCHANGED <<listed, byID, asked>>
      PROVE  ListsInv'
  <2>1. /\ call'[t].op = op /\ \A u \in Threads : u = t \/ call'[u] = Idle
        /\ \A u \in Threads : call[u] = Idle
    BY <1>g, BeganFacts
  <2>2. op \notin UserOps  BY DEF UserOps, HalOps
  <2>q. QED  BY <1>g, <2>1, <2>2, ListsOfOthers, IdleFacts
<1>h. ASSUME UNCHANGED <<call, listed, byID, asked>>  PROVE ListsInv'
  BY <1>h DEF Inv, IInv, ListsInv, Affects, Past
<1>i. CASE \E t \in Threads : Make(t) \/ RequestInPlace(t) \/ Count(t)
  BY <1>c, <1>i DEF Make, RequestInPlace, Count, lists, history
<1>j. CASE \E t \in Threads : RequestLater(t) \/ Own(t)
  BY <1>d, <1>j DEF RequestLater, Own, lists, history
<1>k. CASE \E t \in Threads : UserUnpublishes(t)
  BY <1>g, <1>k DEF UserUnpublishes, HalOps, lists, history
<1>l. CASE HalPerforms
  BY <1>g, <1>l DEF HalPerforms, HalOps, lists, history, Threads
<1>m. CASE HalAborts \/ \E t \in Threads : UserPublishes(t)
  BY <1>h, <1>m DEF HalAborts, UserPublishes, lists, history
<1>q. QED
  BY <1>a, <1>b, <1>e, <1>f, <1>i, <1>j, <1>k, <1>l, <1>m, NextGroups DEF Step
-----------------------------------------------------------------------------
(* What is due.                                                            *)

LEMMA HeadFirst ==
  ASSUME NEW x \in Changes, NEW r \in Seq(Changes)
  PROVE  /\ <<x>> \o r \in Seq(Changes) /\ <<x>> \o r # <<>>
         /\ Head(<<x>> \o r) = x /\ Tail(<<x>> \o r) = r
<1> DEFINE q == <<x>> \o r
<1>1. /\ q \in Seq(Changes) /\ Len(q) = 1 + Len(r) /\ Len(r) \in Nat
      /\ \A i \in 1 .. 1 + Len(r) : q[i] = IF i <= 1 THEN <<x>>[i] ELSE r[i - 1]
  BY SingleTodo, ConcatProperties, LenProperties
<1>2. q # <<>> /\ q[1] = x /\ Head(q) = q[1]  BY <1>1
<1>3. /\ Tail(q) \in Seq(Changes) /\ Len(Tail(q)) = Len(r)
      /\ \A i \in 1 .. Len(r) : Tail(q)[i] = q[i + 1]
  BY <1>1, <1>2, HeadTailProperties
<1>4. \A i \in 1 .. Len(r) : q[i + 1] = r[i]  BY <1>1
<1> HIDE DEF q
<1>5. Tail(q) = r  BY <1>3, <1>4, SeqEqual
<1>q. QED  BY <1>1, <1>2, <1>5 DEF q

LEMMA HeadOfQueue ==
  ASSUME NEW q \in Seq(Changes), q # <<>>
  PROVE  /\ Head(q) \in Changes /\ Tail(q) \in Seq(Changes) /\ Head(q).object \in Objects
         /\ q = <<Head(q)>> \o Tail(q)
<1> DEFINE h == Head(q)
           r == Tail(q)
<1>1. /\ h \in Changes /\ r \in Seq(Changes) /\ Len(r) = Len(q) - 1 /\ Len(q) \in Nat \ {0}
      /\ h = q[1] /\ \A i \in 1 .. Len(r) : r[i] = q[i + 1]
  BY HeadTailProperties, EmptySeq
<1>2. /\ <<h>> \o r \in Seq(Changes) /\ Len(<<h>> \o r) = 1 + Len(r)
      /\ \A i \in 1 .. 1 + Len(r) : (<<h>> \o r)[i] = IF i <= 1 THEN <<h>>[i] ELSE r[i - 1]
  BY <1>1, SingleTodo, ConcatProperties
<1>3. ASSUME NEW i \in 1 .. Len(q)  PROVE (<<h>> \o r)[i] = q[i]
  <2>1. CASE i = 1  BY <1>1, <1>2, <2>1
  <2>2. CASE i # 1
    <3>1. i - 1 \in 1 .. Len(r) /\ (i - 1) + 1 = i /\ ~(i <= 1)  BY <1>1, <2>2
    <3>q. QED  BY <1>1, <1>2, <3>1
  <2>q. QED  BY <2>1, <2>2
<1>4. Len(<<h>> \o r) = Len(q)  BY <1>1, <1>2
<1> HIDE DEF h, r
<1>5. <<h>> \o r = q  BY <1>2, <1>3, <1>4, SeqEqual
<1>q. QED  BY <1>1, <1>5, ChangeFacts DEF h, r

(* Of a call of the plugin its present change is due after the pending     *)
(* ones, once it is listed; of the functions of earlier requests the rest  *)
(* is due before them.                                                     *)
LEMMA DueCases ==
  ASSUME NEW t \in Threads
  PROVE  /\ call[t].op \in UserOps /\ ~Finished(t) /\ call[t].at \in Listed
              => Due(t) = Append(pending, Doing(t))
         /\ call[t].op \in UserOps /\ (Finished(t) \/ call[t].at \notin Listed)
              => Due(t) = pending
         /\ call[t].op \in HalOps
              => Due(t) = SubSeq(call[t].todo, call[t].next, Len(call[t].todo)) \o pending
         /\ call[t] = Idle => Due(t) = pending
<1>1. UserOps \intersect HalOps = {}  BY DEF UserOps, HalOps
<1>2. CASE call[t].op \in UserOps
  BY <1>1, <1>2, IdleFacts DEF Due
<1>3. CASE call[t].op \in HalOps
  BY <1>1, <1>3, IdleFacts DEF Due
<1>4. CASE call[t].op \notin UserOps /\ call[t].op \notin HalOps
  BY <1>4 DEF Due
<1>q. QED  BY <1>2, <1>3, <1>4

LEMMA PendingType ==
  ASSUME Inv
  PROVE  pending \in Seq(Changes) /\ (~published => pending = <<>>) /\ <<>> \in Seq(Changes)
BY EmptySeq DEF Inv, IInv, StateInv

(* The rest of a list of functions.                                        *)
LEMMA RestFacts ==
  ASSUME Inv, NEW t \in Threads, call[t].op \in HalOps
  PROVE  LET rest(n) == SubSeq(call[t].todo, n, Len(call[t].todo)) \o pending
         IN  /\ Finished(t) => rest(call[t].next) = pending
             /\ ~Finished(t) =>
                  /\ rest(call[t].next + 1) \in Seq(Changes)
                  /\ rest(call[t].next) = <<Doing(t)>> \o rest(call[t].next + 1)
<1> DEFINE todo == call[t].todo
           n == call[t].next
<1>1. /\ todo \in Seq(Changes) /\ n \in Nat \ {0} /\ n <= Len(todo) + 1 /\ Len(todo) \in Nat
      /\ \A i \in 1 .. Len(todo) : todo[i] \in Changes
  BY CallFacts
<1>2. pending \in Seq(Changes)  BY PendingType
<1> HIDE DEF todo, n
<1>3. ASSUME n > Len(todo)  PROVE SubSeq(todo, n, Len(todo)) \o pending = pending
  <2>1. SubSeq(todo, n, Len(todo)) = <<>>  BY <1>1, <1>3, SubSeqEmpty
  <2>q. QED  BY <1>2, <2>1, ConcatEmptySeq
<1>4. ASSUME ~(n > Len(todo))
      PROVE  /\ SubSeq(todo, n + 1, Len(todo)) \o pending \in Seq(Changes)
             /\ SubSeq(todo, n, Len(todo)) \o pending
                  = <<todo[n]>> \o (SubSeq(todo, n + 1, Len(todo)) \o pending)
  <2>1. n \in 1 .. Len(todo) /\ Len(todo) \in n .. Len(todo)  BY <1>1, <1>4
  <2>2. SubSeq(todo, n, Len(todo)) = <<todo[n]>> \o SubSeq(todo, n + 1, Len(todo))
    BY <1>1, <2>1, SubSeqRecursiveFirst
  <2>3. \A i \in n + 1 .. Len(todo) : todo[i] \in Changes  BY <1>1
  <2>4. n + 1 \in Int /\ Len(todo) \in Int  BY <1>1
  <2>5. SubSeq(todo, n + 1, Len(todo)) \in Seq(Changes)  BY <2>3, <2>4, SubSeqProperties
  <2>6. <<todo[n]>> \in Seq(Changes)  BY <1>1, <2>1, SingleTodo
  <2>7. SubSeq(todo, n + 1, Len(todo)) \o pending \in Seq(Changes)
    BY <1>2, <2>5, ConcatProperties
  <2>8. (<<todo[n]>> \o SubSeq(todo, n + 1, Len(todo))) \o pending
          = <<todo[n]>> \o (SubSeq(todo, n + 1, Len(todo)) \o pending)
    <3>1. \A a, b, c \in Seq(Changes) : (a \o b) \o c = a \o (b \o c)  BY ConcatAssociative
    <3>q. QED  BY <1>2, <2>5, <2>6, <3>1
  <2>q. QED  BY <2>2, <2>7, <2>8
<1>q. QED  BY <1>3, <1>4 DEF Finished, Doing, todo, n

(* At the step of the counter and at that of the owned objects the change  *)
(* is the first one due, and at the end of the function it no longer is.   *)
LEMMA DueFirst ==
  ASSUME Inv, NEW t \in Threads, ~Finished(t), call[t].at \in {"count", "own"}
  PROVE  /\ Due(t) \in Seq(Changes) /\ Due(t) # <<>> /\ Head(Due(t)) = Doing(t)
         /\ call[t].op \in UserOps => pending = <<>> /\ Tail(Due(t)) = <<>>
         /\ call[t].op \in HalOps =>
              Tail(Due(t)) = SubSeq(call[t].todo, call[t].next + 1, Len(call[t].todo)) \o pending
<1>1. call[t].op \in UserOps \union HalOps /\ Doing(t) \in Changes
  BY AtFacts, DoingFacts DEF At
<1>2. CASE call[t].op \in UserOps
  <2>1. ~published  BY <1>2 DEF Inv, IInv, CallInv
  <2>2. pending = <<>> /\ <<>> \in Seq(Changes)  BY <2>1, PendingType
  <2>3. Due(t) = Append(<<>>, Doing(t))  BY <1>2, <2>2, DueCases DEF Listed
  <2>4. Append(<<>>, Doing(t)) = <<>> \o <<Doing(t)>>
    BY <1>1, <2>2, AppendIsConcat
  <2>5. /\ <<>> \o <<Doing(t)>> = <<Doing(t)>> /\ <<Doing(t)>> \o <<>> = <<Doing(t)>>
    BY <1>1, SingleTodo, ConcatEmptySeq
  <2>6. Due(t) = <<Doing(t)>> \o <<>>  BY <2>3, <2>4, <2>5
  <2>7. call[t].op \notin HalOps  BY <1>2 DEF UserOps, HalOps
  <2>q. QED  BY <1>1, <2>2, <2>6, <2>7, HeadFirst
<1>3. CASE call[t].op \in HalOps
  <2>1. Due(t) = SubSeq(call[t].todo, call[t].next, Len(call[t].todo)) \o pending
    BY <1>3, DueCases
  <2>2. PICK r \in Seq(Changes) :
          /\ r = SubSeq(call[t].todo, call[t].next + 1, Len(call[t].todo)) \o pending
          /\ Due(t) = <<Doing(t)>> \o r
    BY <1>3, <2>1, RestFacts
  <2>3. call[t].op \notin UserOps  BY <1>3 DEF UserOps, HalOps
  <2>4. \A x \in Changes : /\ <<x>> \o r \in Seq(Changes) /\ <<x>> \o r # <<>>
                           /\ Head(<<x>> \o r) = x /\ Tail(<<x>> \o r) = r
    BY HeadFirst
  <2>5. /\ Due(t) \in Seq(Changes) /\ Due(t) # <<>> /\ Head(Due(t)) = Doing(t)
        /\ Tail(Due(t)) = r
    BY <1>1, <2>2, <2>4
  <2>q. QED  BY <2>2, <2>3, <2>5
<1>q. QED  BY <1>1, <1>2, <1>3

(* The thread in a call is the only one that the invariant is about.       *)
LEMMA DueStep ==
  ASSUME NEW t \in Threads, \A u \in Threads : u = t \/ call'[u] = Idle, call'[t].op # "idle",
         Fits(Due(t)', owned', listed', aborted')
  PROVE  DueInv'
<1>1. \A u \in Threads : CanLock(u)' => u = t  BY DEF CanLock
<1>q. QED  BY <1>1 DEF DueInv

LEMMA DueAtRest ==
  ASSUME \A u \in Threads : call'[u] = Idle, Fits(pending', owned', listed', aborted')
  PROVE  DueInv'
<1>1. ASSUME NEW u \in Threads  PROVE Due(u)' = pending'
  <2>1. call'[u].op \notin UserOps /\ call'[u].op \notin HalOps  BY IdleFacts
  <2>q. QED  BY <2>1 DEF Due
<1>q. QED  BY <1>1 DEF DueInv

LEMMA PendingFits ==
  ASSUME Inv, NEW t \in Threads, \A u \in Threads : call[u] = Idle /\ CanLock(u)
  PROVE  Fits(pending, owned, listed, aborted)
BY DueCases DEF Inv, IInv, DueInv

LEMMA DuePreserved ==
  ASSUME Inv, Next
  PROVE  DueInv'
<1>0. UserOps \intersect HalOps = {} /\ "idle" \notin UserOps \union HalOps
  BY DEF UserOps, HalOps
<1>a. ASSUME NEW t \in Threads, List(t)  PROVE DueInv'
  <2>1. /\ ~Finished(t) /\ call[t].at = "list" /\ call[t].op \in UserOps /\ call[t].op # "idle"
    BY <1>a, AtFacts DEF List
  <2>2. /\ call'[t].op = call[t].op /\ call'[t].todo = call[t].todo
        /\ call'[t].next = call[t].next /\ call'[t].at = "byID"
        /\ \A u \in Threads : u = t \/ call'[u] = Idle
    BY <1>a, <2>1, GotoFacts DEF List
  <2>3. /\ listed' = After(Doing(t), listed) /\ UNCHANGED <<owned, pending, aborted>>
    BY <1>a DEF List, hal, history
  <2>4. Due(t) = pending  BY <2>1, DueCases DEF Listed
  <2>5. Fits(pending, owned, listed, aborted)  BY <2>1, <2>4, Alone DEF Inv, IInv, DueInv
  <2>6. /\ call[t].next \in DOMAIN call[t].todo /\ Doing(t) = call[t].todo[call[t].next]
        /\ Doing(t) \in Changes /\ Doing(t).what \in {"add", "remove"}
    BY <2>1, DoingFacts
  <2>7. Doing(t).what = "remove" <=> Doing(t).object \in listed
    <3>1. ~Past(t, call[t].next, Listed)
      BY <2>1, CallFacts DEF Past, Listed
    <3>2. Doing(t).object \in listed <=> (Past(t, call[t].next, Listed) <=> Doing(t).what = "add")
      BY <2>1, <2>6 DEF Inv, IInv, ListsInv
    <3>q. QED  BY <2>6, <3>1, <3>2
  <2>8. Due(t)' = Append(pending, Doing(t))
    <3>1. ~Finished(t)' /\ Doing(t)' = Doing(t)  BY <2>1, <2>2 DEF Finished, Doing
    <3>q. QED  BY <2>1, <2>2, <2>3, <3>1, <1>0 DEF Due, Listed
  <2>9. Fits(Append(pending, Doing(t)), owned, After(Doing(t), listed), aborted)
    BY <2>5, <2>6, <2>7, FitsAppend, PendingType
  <2>q. QED  BY <2>1, <2>2, <2>3, <2>8, <2>9, DueStep
<1>b. ASSUME NEW t \in Threads, NEW from, NEW to, At(t, from), Goto(t, to),
             <<from, to>> \in {<<"make", "list">>, <<"byID", "request">>, <<"request", "count">>,
                               <<"count", "own">>},
             UNCHANGED <<listed, owned, pending, aborted>>
      PROVE  DueInv'
  <2>1. /\ ~Finished(t) /\ call[t].at = from /\ call[t].op # "idle"
        /\ call[t].op \in UserOps \union HalOps
    BY <1>b, AtFacts
  <2>2. /\ call'[t].op = call[t].op /\ call'[t].todo = call[t].todo
        /\ call'[t].next = call[t].next /\ call'[t].at = to
        /\ \A u \in Threads : u = t \/ call'[u] = Idle
    BY <1>b, <2>1, GotoFacts
  <2>3. Due(t)' = Due(t)
    <3>1. (Finished(t)' <=> Finished(t)) /\ Doing(t)' = Doing(t)  BY <2>2 DEF Finished, Doing
    <3>2. call'[t].at \in Listed <=> call[t].at \in Listed  BY <1>b, <2>1, <2>2 DEF Listed
    <3>q. QED  BY <1>b, <2>2, <3>1, <3>2 DEF Due
  <2>4. Fits(Due(t), owned, listed, aborted)  BY <2>1, Alone DEF Inv, IInv, DueInv
  <2>q. QED  BY <1>b, <2>1, <2>2, <2>3, <2>4, DueStep
<1>c. ASSUME NEW t \in Threads, RequestLater(t)  PROVE DueInv'
  <2>1. /\ ~Finished(t) /\ call[t].at = "request" /\ call[t].op \in UserOps /\ call[t].op # "idle"
    BY <1>c, AtFacts DEF RequestLater
  <2>2. /\ call'[t].op = call[t].op /\ call'[t].at = "list"
        /\ \A u \in Threads : u = t \/ call'[u] = Idle
    BY <1>c, <2>1, AdvanceFacts DEF RequestLater, FirstStep, UserOps
  <2>3. pending' = Append(pending, Doing(t)) /\ UNCHANGED <<owned, listed, aborted>>
    BY <1>c DEF RequestLater, lists, hal, history
  <2>4. Due(t)' = pending'  BY <1>0, <2>1, <2>2 DEF Due, Listed
  <2>5. Due(t) = Append(pending, Doing(t))  BY <2>1, DueCases DEF Listed
  <2>6. Fits(Due(t), owned, listed, aborted)  BY <2>1, Alone DEF Inv, IInv, DueInv
  <2>q. QED  BY <2>1, <2>2, <2>3, <2>4, <2>5, <2>6, DueStep
<1>d. ASSUME NEW t \in Threads, Own(t)  PROVE DueInv'
  <2>1. /\ ~Finished(t) /\ call[t].at = "own" /\ call[t].op # "idle"
        /\ call[t].op \in UserOps \union HalOps
    BY <1>d, AtFacts DEF Own
  <2>2. /\ call'[t].op = call[t].op /\ call'[t].todo = call[t].todo
        /\ call'[t].next = call[t].next + 1 /\ call'[t].at = FirstStep(call[t].op)
        /\ \A u \in Threads : u = t \/ call'[u] = Idle
    BY <1>d, <2>1, AdvanceFacts DEF Own
  <2>3. owned' = After(Doing(t), owned) /\ UNCHANGED <<pending, listed, aborted>>
    BY <1>d DEF Own, lists, history
  <2>4. /\ Due(t) \in Seq(Changes) /\ Due(t) # <<>> /\ Head(Due(t)) = Doing(t)
        /\ call[t].op \in UserOps => pending = <<>> /\ Tail(Due(t)) = <<>>
        /\ call[t].op \in HalOps =>
              Tail(Due(t)) = SubSeq(call[t].todo, call[t].next + 1, Len(call[t].todo)) \o pending
    BY <2>1, DueFirst
  <2>5. Due(t)' = Tail(Due(t))
    <3>1. CASE call[t].op \in UserOps
      <4>1. call'[t].at \notin Listed  BY <2>2, <3>1 DEF FirstStep, UserOps, Listed
      <4>q. QED  BY <1>0, <2>2, <2>3, <2>4, <3>1, <4>1 DEF Due
    <3>2. CASE call[t].op \in HalOps
      BY <1>0, <2>2, <2>3, <2>4, <3>2 DEF Due
    <3>q. QED  BY <2>1, <3>1, <3>2
  <2>6. Fits(Due(t), owned, listed, aborted)  BY <2>1, Alone DEF Inv, IInv, DueInv
  <2>7. Fits(Tail(Due(t)), After(Doing(t), owned), listed, aborted)
    BY <2>4, <2>6, FitsTail
  <2>q. QED  BY <2>1, <2>2, <2>3, <2>5, <2>7, DueStep
<1>e. ASSUME NEW t \in Threads, Return(t)  PROVE DueInv'
  <2>1. \A u \in Threads : call'[u] = Idle  BY <1>e, ReturnFacts
  <2>2. call[t].op # "idle" /\ Finished(t) /\ UNCHANGED <<pending, owned, listed, aborted>>
    BY <1>e DEF Return, lists, hal
  <2>3. call[t].op \in UserOps \union HalOps  BY <2>2, CallFacts DEF Calls
  <2>4. Due(t) = pending  BY <2>2, <2>3, DueCases, RestFacts
  <2>5. Fits(pending, owned, listed, aborted)  BY <2>2, <2>4, Alone DEF Inv, IInv, DueInv
  <2>q. QED  BY <2>1, <2>2, <2>5, DueAtRest
<1>f. ASSUME NEW t \in Threads, UserBegins(t)  PROVE DueInv'
  <2>1. PICK op \in UserOps, todo \in Seq(Changes) :
           /\ Begin(t, op, todo, IF op = "create" THEN "make" ELSE "list")
           /\ UNCHANGED <<lists, hal, published, pending, streams, asked, aborted>>
    BY <1>f, UserBeginFacts
  <2>2. /\ call'[t].op = op /\ call'[t].at \notin Listed
        /\ \A u \in Threads : u = t \/ call'[u] = Idle
        /\ \A u \in Threads : call[u] = Idle /\ CanLock(u)
    BY <2>1, BeganFacts DEF Listed
  <2>3. Due(t)' = pending'  BY <1>0, <2>2 DEF Due
  <2>4. UNCHANGED <<listed, owned, pending, aborted>>  BY <2>1 DEF lists, hal
  <2>q. QED  BY <1>0, <2>2, <2>3, <2>4, PendingFits, DueStep
<1>g. ASSUME NEW t \in Threads, UserUnpublishes(t)  PROVE DueInv'
  <2>1. Begin(t, "unpublish", pending, "count")  BY <1>g DEF UserUnpublishes
  <2>2. /\ call'[t].op = "unpublish" /\ call'[t].todo = pending /\ call'[t].next = 1
        /\ \A u \in Threads : u = t \/ call'[u] = Idle
        /\ \A u \in Threads : call[u] = Idle /\ CanLock(u)
    BY <2>1, BeganFacts
  <2>3. pending' = <<>> /\ UNCHANGED <<listed, owned, aborted>>
    BY <1>g DEF UserUnpublishes, lists, hal, history
  <2>4. Due(t)' = SubSeq(pending, 1, Len(pending)) \o <<>>
    BY <2>2, <2>3 DEF Due, UserOps, HalOps
  <2>5. Due(t)' = pending  BY <2>4, PendingType, SubSeqFull, ConcatEmptySeq
  <2>q. QED  BY <2>2, <2>3, <2>5, PendingFits, DueStep
<1>h. CASE HalPerforms
  <2>1. Begin(Hal, "perform", <<Head(pending)>>, "count") /\ Hal \in Threads /\ pending # <<>>
    BY <1>h DEF HalPerforms, Threads
  <2>2. /\ call'[Hal].op = "perform" /\ call'[Hal].todo = <<Head(pending)>> /\ call'[Hal].next = 1
        /\ \A u \in Threads : u = Hal \/ call'[u] = Idle
        /\ \A u \in Threads : call[u] = Idle /\ CanLock(u)
    BY <2>1, BeganFacts
  <2>3. pending' = Tail(pending) /\ UNCHANGED <<listed, owned, aborted>>
    BY <1>h DEF HalPerforms, lists, hal, history
  <2>4. Due(Hal)' = SubSeq(<<Head(pending)>>, 1, Len(<<Head(pending)>>)) \o Tail(pending)
    BY <2>2, <2>3 DEF Due, UserOps, HalOps
  <2>5. /\ Head(pending) \in Changes /\ <<Head(pending)>> \in Seq(Changes)
        /\ pending = <<Head(pending)>> \o Tail(pending)
    BY <2>1, PendingType, HeadOfQueue, SingleTodo
  <2>6. Due(Hal)' = pending  BY <2>4, <2>5, SubSeqFull
  <2>q. QED  BY <2>1, <2>2, <2>3, <2>6, PendingFits, DueStep
<1>i. CASE HalAborts
  <2>1. /\ pending # <<>> /\ call[Hal].op = "idle" /\ CanLock(Hal) /\ Hal \in Threads
        /\ pending' = Tail(pending) /\ aborted' = aborted \union {Head(pending).object}
        /\ UNCHANGED <<listed, owned, call>>
    BY <1>i DEF HalAborts, Threads, lists, hal
  <2>2. \A u \in Threads : call[u] = Idle /\ CanLock(u)  BY <2>1, BeginFacts
  <2>3. Fits(Tail(pending), owned, listed, aborted \union {Head(pending).object})
    BY <2>1, <2>2, PendingFits, PendingType, FitsAbort
  <2>q. QED  BY <2>1, <2>2, <2>3, DueAtRest
<1>j. ASSUME NEW t \in Threads, UserPublishes(t)  PROVE DueInv'
  <2>1. call[t].op = "idle" /\ CanLock(t) /\ UNCHANGED <<listed, owned, pending, aborted, call>>
    BY <1>j DEF UserPublishes, lists, hal, history
  <2>2. \A u \in Threads : call[u] = Idle /\ CanLock(u)  BY <2>1, BeginFacts
  <2>q. QED  BY <2>1, <2>2, PendingFits, DueAtRest
<1>k. CASE \E t \in Threads : Make(t) \/ ListByID(t) \/ RequestInPlace(t) \/ Count(t)
  BY <1>b, <1>k DEF Make, ListByID, RequestInPlace, Count, lists, hal, history
<1>q. QED
  BY <1>a, <1>c, <1>d, <1>e, <1>f, <1>g, <1>h, <1>i, <1>j, <1>k, NextGroups DEF Step
-----------------------------------------------------------------------------
(* Objects are made before they are asked for.                             *)

LEMMA AfterSubset ==
  ASSUME NEW x \in Changes, NEW S, NEW M, S \subseteq M, x.object \in M
  PROVE  After(x, S) \subseteq M
BY DEF After

(* A call that is not making anything is about what is made.               *)
LEMMA MadeTodo ==
  ASSUME Inv, NEW t \in Threads, call[t].at # "make"
  PROVE  \A i \in DOMAIN call[t].todo : call[t].todo[i].object \in made
BY DEF Inv, IInv, MadeInv

LEMMA MadeStep ==
  ASSUME Inv, NEW t \in Threads, made' = made,
         \A u \in Threads : u = t \/ call'[u] = Idle,
         \A i \in DOMAIN call'[t].todo : call'[t].todo[i].object \in made <=> call'[t].at # "make",
         listed' \union owned' \union asked' \subseteq made,
         \A i \in DOMAIN pending' : pending'[i].object \in made
  PROVE  MadeInv'
BY IdleFacts DEF Inv, IInv, MadeInv

LEMMA MadePreserved ==
  ASSUME Inv, Next
  PROVE  MadeInv'
<1>0. MadeInv  BY DEF Inv, IInv
<1>a. ASSUME NEW t \in Threads, Make(t)  PROVE MadeInv'
  <2>1. PICK s \in Streams :
           /\ Len(call[t].todo) = Len(Bundle[s])
           /\ \A i \in DOMAIN Bundle[s] : call[t].todo[i] = Adding(Bundle[s][i])
           /\ made' = made \union ToSet(Bundle[s])
           /\ Goto(t, "list")
           /\ UNCHANGED <<lists, hal, published, pending, attached, used, history>>
    BY <1>a, MakeFacts
  <2>2. call[t].op # "idle"  BY <1>a, AtFacts DEF Make
  <2>3. /\ call'[t].todo = call[t].todo /\ call'[t].at = "list"
        /\ \A u \in Threads : u = t \/ call'[u] = Idle
    BY <2>1, <2>2, GotoFacts
  <2>4. DOMAIN call[t].todo = DOMAIN Bundle[s]  BY <2>1, CallFacts, BundleFacts
  <2>5. \A o : o \in ToSet(Bundle[s]) <=> \E i \in DOMAIN Bundle[s] : o = Bundle[s][i]
    BY DEF ToSet
  <2>6. \A i \in DOMAIN call'[t].todo : call'[t].todo[i].object \in made'
    BY <2>1, <2>3, <2>4, <2>5, BundleFacts, AddingFacts
  <2>7. ASSUME NEW u \in Streams, NEW i \in DOMAIN Bundle[u]
        PROVE  Bundle[u][i] \in made' <=> u \in made'
    <3>1. CASE u = s  BY <2>1, <2>5, <3>1, BundleFacts
    <3>2. CASE u # s
      <4>1. Bundle[u][1] = u /\ 1 \in DOMAIN Bundle[u]  BY BundleFacts
      <4>2. \A k \in DOMAIN Bundle[s], j \in DOMAIN Bundle[u] : Bundle[u][j] # Bundle[s][k]
        BY <3>2, StreamsAssumption
      <4>3. Bundle[u][i] \notin ToSet(Bundle[s]) /\ u \notin ToSet(Bundle[s])
        BY <2>5, <4>1, <4>2
      <4>q. QED  BY <1>0, <2>1, <4>3 DEF MadeInv
    <3>q. QED  BY <3>1, <3>2
  <2>q. QED
    BY <1>0, <2>1, <2>3, <2>6, <2>7, IdleFacts DEF MadeInv, lists, hal, history
<1>b. ASSUME NEW t \in Threads, List(t) \/ ListByID(t) \/ RequestInPlace(t) \/ Count(t)
      PROVE  MadeInv'
  <2>1. call[t].at # "make" /\ ~Finished(t) /\ call[t].op # "idle"
    BY <1>b, AtFacts DEF List, ListByID, RequestInPlace, Count
  <2>2. /\ call'[t].todo = call[t].todo /\ call'[t].at # "make"
        /\ \A u \in Threads : u = t \/ call'[u] = Idle
    BY <1>b, <2>1, GotoFacts DEF List, ListByID, RequestInPlace, Count
  <2>3. Doing(t) \in Changes /\ Doing(t).object \in made  BY <2>1, MadeTodo, DoingFacts
  <2>4. listed' \subseteq made
    <3>1. listed \subseteq made  BY <1>0 DEF MadeInv
    <3>2. After(Doing(t), listed) \subseteq made  BY <2>3, <3>1, AfterSubset
    <3>3. listed' = After(Doing(t), listed) \/ listed' = listed
      BY <1>b DEF List, ListByID, RequestInPlace, Count, lists
    <3>q. QED  BY <3>1, <3>2, <3>3
  <2>5. UNCHANGED <<made, owned, asked, pending>>
    BY <1>b DEF List, ListByID, RequestInPlace, Count, hal, streams, history
  <2>q. QED  BY <1>0, <2>1, <2>2, <2>4, <2>5, MadeTodo, MadeStep DEF MadeInv
<1>c. ASSUME NEW t \in Threads, RequestLater(t) \/ Own(t)  PROVE MadeInv'
  <2>1. call[t].at # "make" /\ ~Finished(t) /\ call[t].op # "idle"
    BY <1>c, AtFacts DEF RequestLater, Own
  <2>2. /\ call'[t].todo = call[t].todo /\ call'[t].at # "make"
        /\ \A u \in Threads : u = t \/ call'[u] = Idle
    BY <1>c, <2>1, AdvanceFacts DEF RequestLater, Own, FirstStep
  <2>3. Doing(t) \in Changes /\ Doing(t).object \in made  BY <2>1, MadeTodo, DoingFacts
  <2>4. owned' \subseteq made
    <3>1. owned \subseteq made  BY <1>0 DEF MadeInv
    <3>2. After(Doing(t), owned) \subseteq made  BY <2>3, <3>1, AfterSubset
    <3>3. owned' = After(Doing(t), owned) \/ owned' = owned
      BY <1>c DEF RequestLater, Own, hal
    <3>q. QED  BY <3>1, <3>2, <3>3
  <2>5. \A i \in DOMAIN pending' : pending'[i].object \in made
    <3>1. \A i \in DOMAIN Append(pending, Doing(t)) :
            Append(pending, Doing(t))[i].object \in made
      BY <1>0, <2>3, PendingType, AppendProperties, LenProperties DEF MadeInv
    <3>q. QED  BY <1>0, <1>c, <3>1 DEF RequestLater, Own, MadeInv
  <2>6. UNCHANGED <<made, listed, asked>>
    BY <1>c DEF RequestLater, Own, lists, streams, history
  <2>q. QED  BY <1>0, <2>1, <2>2, <2>4, <2>5, <2>6, MadeTodo, MadeStep DEF MadeInv
<1>d. ASSUME NEW t \in Threads, Return(t)  PROVE MadeInv'
  <2>1. \A u \in Threads : call'[u] = Idle  BY <1>d, ReturnFacts
  <2>2. call[t].op # "idle" /\ Finished(t) /\ UNCHANGED <<made, listed, owned, pending>>
    BY <1>d DEF Return, lists, hal
  <2>3. call[t].at # "make"
    <3>1. call[t].op \in UserOps \union HalOps  BY <2>2, CallFacts DEF Calls
    <3>q. QED  BY <2>2, <3>1 DEF Inv, IInv, CallInv
  <2>4. {call[t].todo[i].object : i \in DOMAIN call[t].todo} \subseteq made  BY <2>3, MadeTodo
  <2>5. asked' \subseteq made  BY <1>0, <1>d, <2>4 DEF Return, MadeInv
  <2>q. QED  BY <1>0, <2>1, <2>2, <2>5, MadeStep, IdleFacts DEF MadeInv
<1>e. ASSUME NEW t \in Threads, UserBegins(t)  PROVE MadeInv'
  <2>1. PICK op \in UserOps, todo \in Seq(Changes) :
           /\ Begin(t, op, todo, IF op = "create" THEN "make" ELSE "list")
           /\ op = "create" =>
                \E s \in Streams : /\ s \notin made
                                   /\ todo = [i \in DOMAIN Bundle[s] |-> Adding(Bundle[s][i])]
           /\ op = "add" => \E o \in made \ asked : o \in Objects /\ todo = <<Adding(o)>>
           /\ op = "remove" => \E o \in asked : o \in Objects /\ todo = <<Removing(o)>>
           /\ UNCHANGED <<lists, hal, published, pending, streams, asked, aborted>>
    BY <1>e, UserBeginFacts
  <2>2. /\ call'[t].todo = todo /\ call'[t].at = IF op = "create" THEN "make" ELSE "list"
        /\ \A u \in Threads : u = t \/ call'[u] = Idle
    BY <2>1, BeganFacts
  <2>3. ASSUME NEW i \in DOMAIN todo
        PROVE  todo[i].object \in made <=> op # "create"
    <3>1. CASE op = "create"
      <4>1. PICK s \in Streams : /\ s \notin made
                                 /\ todo = [k \in DOMAIN Bundle[s] |-> Adding(Bundle[s][k])]
        BY <2>1, <3>1
      <4>2. i \in DOMAIN Bundle[s] /\ todo[i].object = Bundle[s][i]  BY <4>1, BundleTodo
      <4>q. QED  BY <1>0, <3>1, <4>1, <4>2 DEF MadeInv
    <3>2. CASE op = "add"
      <4>1. PICK o \in made \ asked : o \in Objects /\ todo = <<Adding(o)>>  BY <2>1, <3>2
      <4>2. i = 1 /\ todo[1] = Adding(o)  BY <4>1
      <4>q. QED  BY <3>2, <4>1, <4>2, AddingFacts
    <3>3. CASE op = "remove"
      <4>1. PICK o \in asked : o \in Objects /\ todo = <<Removing(o)>>  BY <2>1, <3>3
      <4>2. i = 1 /\ todo[1] = Removing(o)  BY <4>1
      <4>q. QED  BY <1>0, <3>3, <4>1, <4>2, AddingFacts DEF MadeInv
    <3>q. QED  BY <3>1, <3>2, <3>3 DEF UserOps
  <2>4. UNCHANGED <<made, listed, owned, asked, pending>>  BY <2>1 DEF lists, hal, streams
  <2>q. QED  BY <1>0, <2>2, <2>3, <2>4, MadeStep DEF MadeInv
<1>f. ASSUME NEW t \in Threads, UserUnpublishes(t)  PROVE MadeInv'
  <2>1. Begin(t, "unpublish", pending, "count")  BY <1>f DEF UserUnpublishes
  <2>2. /\ call'[t].todo = pending /\ call'[t].at = "count"
        /\ \A u \in Threads : u = t \/ call'[u] = Idle
    BY <2>1, BeganFacts
  <2>3. pending' = <<>> /\ UNCHANGED <<made, listed, owned, asked>>
    BY <1>f DEF UserUnpublishes, lists, hal, streams, history
  <2>q. QED  BY <1>0, <2>2, <2>3, MadeStep, IdleFacts DEF MadeInv
<1>g. ASSUME pending # <<>>
      PROVE  /\ Head(pending).object \in made
             /\ \A i \in DOMAIN Tail(pending) : Tail(pending)[i].object \in made
  <2>1. /\ Head(pending) = pending[1] /\ Len(pending) \in Nat \ {0}
        /\ DOMAIN pending = 1 .. Len(pending)
        /\ DOMAIN Tail(pending) = 1 .. Len(pending) - 1
        /\ \A i \in 1 .. Len(pending) - 1 : Tail(pending)[i] = pending[i + 1]
    BY <1>g, PendingType, HeadTailProperties, LenProperties, EmptySeq
  <2>2. \A i \in 1 .. Len(pending) - 1 : i + 1 \in DOMAIN pending  BY <2>1
  <2>3. 1 \in DOMAIN pending  BY <2>1
  <2>q. QED  BY <1>0, <2>1, <2>2, <2>3 DEF MadeInv
<1>h. CASE HalPerforms
  <2>1. Begin(Hal, "perform", <<Head(pending)>>, "count") /\ Hal \in Threads /\ pending # <<>>
    BY <1>h DEF HalPerforms, Threads
  <2>2. /\ call'[Hal].todo = <<Head(pending)>> /\ call'[Hal].at = "count"
        /\ \A u \in Threads : u = Hal \/ call'[u] = Idle
    BY <2>1, BeganFacts
  <2>3. pending' = Tail(pending) /\ UNCHANGED <<made, listed, owned, asked>>
    BY <1>h DEF HalPerforms, lists, hal, streams, history
  <2>4. \A i \in DOMAIN <<Head(pending)>> : <<Head(pending)>>[i] = Head(pending)  OBVIOUS
  <2>q. QED  BY <1>0, <1>g, <2>1, <2>2, <2>3, <2>4, MadeStep DEF MadeInv
<1>i. CASE HalAborts \/ \E t \in Threads : UserPublishes(t)
  <2>1. PICK t \in Threads : call[t].op = "idle" /\ CanLock(t)
    BY <1>i DEF HalAborts, UserPublishes, Threads
  <2>2. \A u \in Threads : call'[u] = Idle
    BY <1>i, <2>1, BeginFacts DEF HalAborts, UserPublishes
  <2>3. UNCHANGED <<made, listed, owned, asked>>
    BY <1>i DEF HalAborts, UserPublishes, lists, hal, streams, history
  <2>4. \A i \in DOMAIN pending' : pending'[i].object \in made
    BY <1>0, <1>g, <1>i DEF HalAborts, UserPublishes, MadeInv
  <2>q. QED  BY <1>0, <2>1, <2>2, <2>3, <2>4, MadeStep, IdleFacts DEF MadeInv
<1>q. QED
  BY <1>a, <1>b, <1>c, <1>d, <1>e, <1>f, <1>h, <1>i, NextGroups DEF Step
-----------------------------------------------------------------------------
(* Controls are attached when the call that made them returns.             *)

(* The stream of a call that makes one is the first object of the call.    *)
LEMMA CreateFacts ==
  ASSUME Inv, NEW t \in Threads, call[t].op = "create"
  PROVE  \E s \in Streams : /\ Len(call[t].todo) = Len(Bundle[s])
                            /\ call[t].todo[1].object = s
                            /\ DOMAIN call[t].todo = DOMAIN Bundle[s]
                            /\ \A i \in DOMAIN Bundle[s] :
                                 call[t].todo[i].object = Bundle[s][i]
<1>1. PICK s \in Streams : /\ Len(call[t].todo) = Len(Bundle[s])
                           /\ \A i \in DOMAIN Bundle[s] : call[t].todo[i] = Adding(Bundle[s][i])
  BY DEF Inv, IInv, CallInv
<1>2. DOMAIN call[t].todo = DOMAIN Bundle[s]  BY <1>1, CallFacts, BundleFacts
<1>3. \A i \in DOMAIN Bundle[s] : call[t].todo[i].object = Bundle[s][i]
  BY <1>1, BundleFacts, AddingFacts
<1>q. QED  BY <1>1, <1>2, <1>3, BundleFacts

(* A step of a call that goes on.                                          *)
LEMMA AttachStep ==
  ASSUME Inv, NEW t \in Threads, call[t].op # "idle",
         call'[t].op = call[t].op, call'[t].todo = call[t].todo,
         \A u \in Threads : u = t \/ call'[u] = Idle,
         UNCHANGED <<made, attached, published>>,
         owned' = owned \/ call[t].op # "create" \/ ~published
  PROVE  AttachInv'
<1>1. \A u \in Threads : call'[u].op = call[u].op /\ call'[u].todo = call[u].todo  BY Alone
<1>2. \A u \in Threads : u = t \/ call'[u].op # "create"  BY IdleFacts
<1>3. ASSUME NEW s \in Streams \intersect made, Len(Bundle[s]) > 1
      PROVE  s \in attached \/ \E u \in Threads : call'[u].op = "create" /\ call'[u].todo[1].object = s
  BY <1>1, <1>3 DEF Inv, IInv, AttachInv
<1>4. ASSUME published, NEW u \in Threads, call'[u].op = "create", NEW i \in DOMAIN call'[u].todo
      PROVE  call'[u].todo[i].object \notin owned'
  <2>1. u = t /\ owned' = owned  BY <1>2, <1>4
  <2>q. QED  BY <1>1, <1>4, <2>1 DEF Inv, IInv, AttachInv
<1>q. QED  BY <1>3, <1>4 DEF AttachInv

(* No call was on its way, and none that makes a stream is now.            *)
LEMMA AttachOthers ==
  ASSUME Inv, \A u \in Threads : call[u] = Idle, \A u \in Threads : call'[u].op # "create",
         UNCHANGED <<made, attached>>
  PROVE  AttachInv'
BY IdleFacts DEF Inv, IInv, AttachInv

LEMMA AttachPreserved ==
  ASSUME Inv, Next
  PROVE  AttachInv'
<1>0. AttachInv  BY DEF Inv, IInv
<1>a. ASSUME NEW t \in Threads, Make(t)  PROVE AttachInv'
  <2>1. PICK s \in Streams :
           /\ call[t].op = "create" /\ call[t].next = 1 /\ Doing(t).object = s
           /\ made' = made \union ToSet(Bundle[s])
           /\ Goto(t, "list")
           /\ UNCHANGED <<lists, hal, published, pending, attached, used, history>>
    BY <1>a, MakeFacts
  <2>2. /\ call'[t].op = "create" /\ call'[t].todo = call[t].todo
        /\ \A u \in Threads : u = t \/ call'[u] = Idle
    BY <2>1, GotoFacts
  <2>3. call'[t].todo[1].object = s  BY <2>1, <2>2 DEF Doing
  <2>4. \A u \in Streams : u \in ToSet(Bundle[s]) => u = s
    BY BundleFacts, StreamsAssumption DEF ToSet
  <2>5. \A u \in Threads : u = t \/ call[u] = Idle  BY <2>1, Alone
  <2>6. ASSUME NEW v \in Streams \intersect made', Len(Bundle[v]) > 1
        PROVE  v \in attached' \/ \E u \in Threads : call'[u].op = "create" /\ call'[u].todo[1].object = v
    <3>1. CASE v = s  BY <2>2, <2>3, <3>1
    <3>2. CASE v # s
      <4>1. v \in made  BY <2>1, <2>4, <3>2
      <4>2. v \in attached \/ \E u \in Threads : call[u].op = "create" /\ call[u].todo[1].object = v
        BY <1>0, <2>6, <4>1 DEF AttachInv
      <4>3. \A u \in Threads : call[u].op = "create" => u = t  BY <2>5, IdleFacts
      <4>q. QED  BY <2>1, <2>2, <4>2, <4>3
    <3>q. QED  BY <3>1, <3>2
  <2>7. ASSUME published', NEW u \in Threads, call'[u].op = "create", NEW i \in DOMAIN call'[u].todo
        PROVE  call'[u].todo[i].object \notin owned'
    <3>1. u = t  BY <2>2, <2>7, IdleFacts
    <3>q. QED  BY <1>0, <2>1, <2>2, <2>7, <3>1 DEF AttachInv, hal
  <2>q. QED  BY <2>6, <2>7 DEF AttachInv
<1>b. ASSUME NEW t \in Threads, List(t) \/ ListByID(t) \/ RequestInPlace(t) \/ Count(t)
      PROVE  AttachInv'
  <2>1. call[t].op # "idle"  BY <1>b, AtFacts DEF List, ListByID, RequestInPlace, Count
  <2>2. /\ call'[t].op = call[t].op /\ call'[t].todo = call[t].todo
        /\ \A u \in Threads : u = t \/ call'[u] = Idle
    BY <1>b, <2>1, GotoFacts DEF List, ListByID, RequestInPlace, Count
  <2>3. UNCHANGED <<made, attached, published, owned>>
    BY <1>b DEF List, ListByID, RequestInPlace, Count, hal, streams
  <2>q. QED  BY <2>1, <2>2, <2>3, AttachStep
<1>c. ASSUME NEW t \in Threads, RequestLater(t) \/ Own(t)  PROVE AttachInv'
  <2>1. call[t].op # "idle"  BY <1>c, AtFacts DEF RequestLater, Own
  <2>2. /\ call'[t].op = call[t].op /\ call'[t].todo = call[t].todo
        /\ \A u \in Threads : u = t \/ call'[u] = Idle
    BY <1>c, <2>1, AdvanceFacts DEF RequestLater, Own
  <2>3. UNCHANGED <<made, attached, published>>
    BY <1>c DEF RequestLater, Own, hal, streams
  <2>4. owned' = owned \/ call[t].op # "create" \/ ~published
    <3>1. CASE RequestLater(t)  BY <3>1 DEF RequestLater, hal
    <3>2. CASE Own(t)
      <4>1. call[t].at = "own"  BY <3>2 DEF Own, At
      <4>q. QED  BY <4>1 DEF Inv, IInv, CallInv, UserOps
    <3>q. QED  BY <1>c, <3>1, <3>2
  <2>q. QED  BY <2>1, <2>2, <2>3, <2>4, AttachStep
<1>d. ASSUME NEW t \in Threads, Return(t)  PROVE AttachInv'
  <2>1. \A u \in Threads : call'[u] = Idle  BY <1>d, ReturnFacts
  <2>2. call[t].op # "idle" /\ made' = made  BY <1>d DEF Return
  <2>3. ASSUME NEW s \in Streams \intersect made, Len(Bundle[s]) > 1
        PROVE  s \in attached'
    <3>1. s \in attached \/ \E u \in Threads : call[u].op = "create" /\ call[u].todo[1].object = s
      BY <1>0, <2>3 DEF AttachInv
    <3>2. attached \subseteq attached'  BY <1>d DEF Return
    <3>3. ASSUME NEW u \in Threads, call[u].op = "create", call[u].todo[1].object = s
          PROVE  s \in attached'
      <4>1. u = t  BY <2>2, <3>3, Alone, IdleFacts
      <4>2. Len(call[t].todo) > 1  BY <2>3, <3>3, <4>1, CreateFacts
      <4>q. QED  BY <1>d, <3>3, <4>1, <4>2 DEF Return
    <3>q. QED  BY <3>1, <3>2, <3>3
  <2>q. QED  BY <2>1, <2>2, <2>3, IdleFacts DEF AttachInv
<1>e. ASSUME NEW t \in Threads, UserBegins(t)  PROVE AttachInv'
  <2>1. PICK op \in UserOps, todo \in Seq(Changes) :
           /\ Begin(t, op, todo, IF op = "create" THEN "make" ELSE "list")
           /\ op = "create" =>
                \E s \in Streams : /\ s \notin made
                                   /\ todo = [i \in DOMAIN Bundle[s] |-> Adding(Bundle[s][i])]
           /\ UNCHANGED <<lists, hal, published, pending, streams, asked, aborted>>
    BY <1>e, UserBeginFacts
  <2>2. /\ call'[t].op = op /\ call'[t].todo = todo
        /\ \A u \in Threads : u = t \/ call'[u] = Idle
        /\ \A u \in Threads : call[u] = Idle
    BY <2>1, BeganFacts
  <2>3. UNCHANGED <<made, attached, owned>>  BY <2>1 DEF hal, streams
  <2>4. CASE op # "create"  BY <2>2, <2>3, <2>4, AttachOthers, IdleFacts
  <2>5. CASE op = "create"
    <3>1. PICK s \in Streams : /\ s \notin made
                               /\ todo = [i \in DOMAIN Bundle[s] |-> Adding(Bundle[s][i])]
      BY <2>1, <2>5
    <3>2. ASSUME NEW i \in DOMAIN todo  PROVE todo[i].object \notin owned
      <4>1. i \in DOMAIN Bundle[s] /\ todo[i].object = Bundle[s][i]  BY <3>1, BundleTodo
      <4>q. QED  BY <3>1, <4>1 DEF Inv, IInv, MadeInv
    <3>3. \A v \in Streams \intersect made : Len(Bundle[v]) > 1 => v \in attached
      BY <1>0, <2>2, IdleFacts DEF AttachInv
    <3>4. \A u \in Threads : call'[u].op = "create" => u = t  BY <2>2, IdleFacts
    <3>q. QED  BY <2>2, <2>3, <3>2, <3>3, <3>4 DEF AttachInv
  <2>q. QED  BY <2>4, <2>5
<1>f. ASSUME NEW t \in Threads, NEW op \in HalOps, NEW todo, Begin(t, op, todo, "count"),
             UNCHANGED <<made, attached>>
      PROVE  AttachInv'
  <2>1. /\ call'[t].op = op /\ \A u \in Threads : u = t \/ call'[u] = Idle
        /\ \A u \in Threads : call[u] = Idle
    BY <1>f, BeganFacts
  <2>2. op # "create"  BY DEF HalOps
  <2>q. QED  BY <1>f, <2>1, <2>2, AttachOthers, IdleFacts
<1>g. CASE \E t \in Threads : UserUnpublishes(t)
  BY <1>f, <1>g DEF UserUnpublishes, HalOps, streams
<1>h. CASE HalPerforms
  BY <1>f, <1>h DEF HalPerforms, HalOps, streams, Threads
<1>i. CASE HalAborts \/ \E t \in Threads : UserPublishes(t)
  <2>1. PICK t \in Threads : call[t].op = "idle" /\ CanLock(t)
    BY <1>i DEF HalAborts, UserPublishes, Threads
  <2>2. \A u \in Threads : call[u] = Idle /\ call'[u] = Idle
    BY <1>i, <2>1, BeginFacts DEF HalAborts, UserPublishes
  <2>3. UNCHANGED <<made, attached>>  BY <1>i DEF HalAborts, UserPublishes, streams
  <2>q. QED  BY <2>2, <2>3, AttachOthers, IdleFacts
<1>q. QED
  BY <1>a, <1>b, <1>c, <1>d, <1>e, <1>g, <1>h, <1>i, NextGroups DEF Step
-----------------------------------------------------------------------------
(* Counters.                                                               *)

LEMMA Wraps ==
  ASSUME NEW size \in Nat, NEW n \in Nat
  PROVE  /\ n + 1 < size => (n + 1) % size = n + 1
         /\ n # 0 /\ n < size => (n + (size - 1)) % size = n - 1
<1>1. ASSUME n + 1 < size  PROVE (n + 1) % size = n + 1  BY <1>1
<1>2. ASSUME n # 0, n < size  PROVE (n + (size - 1)) % size = n - 1
  <2>1. n + (size - 1) = size * 1 + (n - 1) /\ 0 <= n - 1 /\ n - 1 < size  BY <1>2
  <2>q. QED  BY <1>2, <2>1
<1>q. QED  BY <1>1, <1>2

LEMMA StreamsFinite ==
  ASSUME NEW sc, NEW S
  PROVE  /\ IsFiniteSet(StreamsOf(sc) \intersect S)
         /\ Cardinality(StreamsOf(sc) \intersect S) \in Nat
         /\ Cardinality(StreamsOf(sc) \intersect S) < CounterSize
         /\ CounterSize \in Nat
<1>1. IsFiniteSet(Streams) /\ Cardinality(Streams) < CounterSize /\ CounterSize \in Nat
  BY StreamsAssumption
<1>2. (StreamsOf(sc) \intersect S) \subseteq Streams  BY DEF StreamsOf
<1>3. /\ IsFiniteSet(StreamsOf(sc) \intersect S)
      /\ Cardinality(StreamsOf(sc) \intersect S) <= Cardinality(Streams)
  BY <1>1, <1>2, FS_Subset
<1>4. Cardinality(StreamsOf(sc) \intersect S) \in Nat /\ Cardinality(Streams) \in Nat
  BY <1>1, <1>3, FS_CardinalityType
<1>q. QED  BY <1>1, <1>3, <1>4

(* Of an object of which no change was aborted, a change that is about to  *)
(* run makes a difference.                                                 *)
LEMMA MakesDifference ==
  ASSUME Inv, NEW t \in Threads, ~Finished(t), call[t].at \in {"count", "own"},
         Doing(t).object \notin aborted
  PROVE  Doing(t).what = "remove" <=> Doing(t).object \in owned
<1>1. Due(t) \in Seq(Changes) /\ Due(t) # <<>> /\ Head(Due(t)) = Doing(t)  BY DueFirst
<1>2. Due(t)[1] = Doing(t) /\ 1 \in 1 .. Len(Due(t))
  BY <1>1, HeadTailProperties, EmptySeq
<1>3. Fits(Due(t), owned, listed, aborted)  BY DoingFacts, Alone DEF Inv, IInv, DueInv
<1>4. Doing(t).object \in Objects  BY DoingFacts
<1>5. Doing(t).what = "remove" <=> HeldAfter(Due(t), 1 - 1, Doing(t).object, owned)
  BY <1>2, <1>3, <1>4 DEF Fits
<1>6. 1 .. 1 - 1 = {}  OBVIOUS
<1>q. QED  BY <1>5, <1>6 DEF HeldAfter

(* The counters and what they count stay as they are.                      *)
LEMMA CountStep ==
  ASSUME Inv, NEW t \in Threads, CanLock(t), \A u \in Threads : u = t \/ call'[u] = Idle,
         Owning(t)' = Owning(t), call'[t].op # "idle" \/ Owning(t)' = owned',
         numStreams' = numStreams, aborted \subseteq aborted'
  PROVE  CountInv'
<1> SUFFICES ASSUME NEW u \in Threads, CanLock(u)', NEW sc \in Scopes,
                    StreamsOf(sc) \intersect aborted' = {}
             PROVE  numStreams[sc] = Cardinality(StreamsOf(sc) \intersect Owning(u)')
  BY DEF CountInv, StreamsOf
<1>1. Owning(u)' = Owning(t)
  <2>1. CASE u = t  BY <2>1
  <2>2. CASE u # t
    <3>1. call'[u] = Idle /\ call'[t].op = "idle"  BY <2>2 DEF CanLock
    <3>2. Owning(u)' = owned'  BY <3>1, IdleFacts DEF Owning, At
    <3>q. QED  BY <3>1, <3>2
  <2>q. QED  BY <2>1, <2>2
<1>2. StreamsOf(sc) \intersect aborted = {}  OBVIOUS
<1>q. QED  BY <1>1, <1>2 DEF Inv, IInv, CountInv

LEMMA CountPreserved ==
  ASSUME Inv, Next
  PROVE  CountInv'
<1>a. ASSUME NEW t \in Threads, Count(t)  PROVE CountInv'
  <2>1. /\ ~Finished(t) /\ call[t].at = "count" /\ call[t].op # "idle" /\ At(t, "count")
    BY <1>a, AtFacts DEF Count
  <2>2. /\ call'[t].op # "idle" /\ call'[t].todo = call[t].todo
        /\ call'[t].next = call[t].next /\ call'[t].at = "own"
        /\ \A u \in Threads : u = t \/ call'[u] = Idle
    BY <1>a, <2>1, GotoFacts DEF Count
  <2>3. numStreams' = Counted(Doing(t)) /\ UNCHANGED <<owned, aborted>>
    BY <1>a DEF Count, history
  <2>4. Owning(t)' = After(Doing(t), owned)
    <3>1. At(t, "own")' /\ Doing(t)' = Doing(t)  BY <2>1, <2>2 DEF At, Finished, Doing
    <3>q. QED  BY <2>3, <3>1 DEF Owning, After
  <2>5. Owning(t) = owned  BY <2>1 DEF Owning, At
  <2> DEFINE x == Doing(t)
  <2>6. x \in Changes /\ x.what \in {"add", "remove"}  BY <2>1, DoingFacts
  <2>7. \A o : o \in After(x, owned) <=> IF x.object = o THEN x.what = "add" ELSE o \in owned
    BY <2>6, AfterFacts
  <2>8. ASSUME NEW sc \in Scopes, StreamsOf(sc) \intersect aborted = {}
        PROVE  numStreams'[sc] = Cardinality(StreamsOf(sc) \intersect After(x, owned))
    <3> DEFINE mine == StreamsOf(sc) \intersect owned
               later == StreamsOf(sc) \intersect After(x, owned)
    <3>1. numStreams[sc] = Cardinality(mine)
      BY <2>1, <2>5, <2>8, Alone DEF Inv, IInv, CountInv
    <3>2. /\ IsFiniteSet(mine) /\ Cardinality(mine) \in Nat /\ Cardinality(mine) < CounterSize
          /\ Cardinality(later) \in Nat /\ Cardinality(later) < CounterSize /\ CounterSize \in Nat
      BY StreamsFinite
    <3>3. CASE x.object \notin StreamsOf(sc)
      <4>1. later = mine  BY <2>7, <3>3
      <4>2. ~(x.object \in Streams /\ Scope[x.object] = sc)  BY <3>3 DEF StreamsOf
      <4>3. numStreams'[sc] = numStreams[sc]  BY <2>3, <4>2 DEF Counted
      <4>q. QED  BY <3>1, <4>1, <4>3
    <3>4. CASE x.object \in StreamsOf(sc)
      <4>1. x.object \in Streams /\ Scope[x.object] = sc  BY <3>4 DEF StreamsOf
      <4>2. x.what = "remove" <=> x.object \in owned  BY <2>1, <2>8, <3>4, MakesDifference
      <4>3. CASE x.what = "add"
        <5>1. later = mine \union {x.object} /\ x.object \notin mine
          BY <2>6, <2>7, <3>4, <4>2, <4>3
        <5>2. Cardinality(later) = Cardinality(mine) + 1  BY <3>2, <5>1, FS_AddElement
        <5>3. numStreams'[sc] = (Cardinality(mine) + 1) % CounterSize
          BY <2>3, <3>1, <4>1, <4>3 DEF Counted
        <5>q. QED  BY <3>2, <5>2, <5>3, Wraps
      <4>4. CASE x.what = "remove"
        <5>1. later = mine \ {x.object} /\ x.object \in mine
          BY <2>6, <2>7, <3>4, <4>2, <4>4
        <5>2. Cardinality(later) = Cardinality(mine) - 1
          <6>1. \A S, e : IsFiniteSet(S) /\ e \in S => Cardinality(S \ {e}) = Cardinality(S) - 1
            BY FS_RemoveElement
          <6> HIDE DEF mine, later
          <6>2. IsFiniteSet(mine) /\ x.object \in mine /\ later = mine \ {x.object}  BY <3>2, <5>1
          <6>q. QED  BY <6>1, <6>2
        <5>3. numStreams'[sc] = (Cardinality(mine) + (CounterSize - 1)) % CounterSize
          BY <2>3, <3>1, <4>1, <4>4 DEF Counted
        <5>q. QED  BY <3>2, <5>2, <5>3, Wraps
      <4>q. QED  BY <2>6, <4>3, <4>4
    <3>q. QED  BY <3>3, <3>4
  <2>9. \A u \in Threads : CanLock(u)' => u = t  BY <2>2 DEF CanLock
  <2>q. QED  BY <2>3, <2>4, <2>8, <2>9 DEF CountInv, StreamsOf
<1>b. ASSUME NEW t \in Threads, Make(t) \/ List(t) \/ ListByID(t) \/ RequestInPlace(t)
      PROVE  CountInv'
  <2>1. call[t].at # "own" /\ call[t].op # "idle"
    BY <1>b, AtFacts DEF Make, List, ListByID, RequestInPlace
  <2>2. /\ call'[t].op # "idle" /\ call'[t].at # "own"
        /\ \A u \in Threads : u = t \/ call'[u] = Idle
    BY <1>b, <2>1, GotoFacts DEF Make, List, ListByID, RequestInPlace
  <2>3. UNCHANGED <<owned, numStreams, aborted>>
    BY <1>b DEF Make, List, ListByID, RequestInPlace, hal, history
  <2>4. Owning(t) = owned /\ Owning(t)' = owned'  BY <2>1, <2>2 DEF Owning, At
  <2>q. QED  BY <2>1, <2>2, <2>3, <2>4, Alone, CountStep
<1>c. ASSUME NEW t \in Threads, RequestLater(t) \/ Own(t)  PROVE CountInv'
  <2>1. call[t].op # "idle"  BY <1>c, AtFacts DEF RequestLater, Own
  <2>2. /\ call'[t].op # "idle" /\ call'[t].at # "own"
        /\ \A u \in Threads : u = t \/ call'[u] = Idle
    BY <1>c, <2>1, AdvanceFacts DEF RequestLater, Own, FirstStep
  <2>3. UNCHANGED <<numStreams, aborted>>  BY <1>c DEF RequestLater, Own, hal, history
  <2>4. Owning(t) = owned'  BY <1>c DEF RequestLater, Own, hal, Owning, At
  <2>5. Owning(t)' = owned'  BY <2>2 DEF Owning, At
  <2>q. QED  BY <2>1, <2>2, <2>3, <2>4, <2>5, Alone, CountStep
<1>d. ASSUME NEW t \in Threads, Return(t)  PROVE CountInv'
  <2>1. \A u \in Threads : call'[u] = Idle  BY <1>d, ReturnFacts
  <2>2. call[t].op # "idle" /\ Finished(t) /\ UNCHANGED <<owned, numStreams, aborted>>
    BY <1>d DEF Return, hal
  <2>3. Owning(t) = owned  BY <2>2 DEF Owning, At
  <2>4. Owning(t)' = owned'  BY <2>1, IdleFacts DEF Owning, At
  <2>q. QED  BY <2>1, <2>2, <2>3, <2>4, Alone, CountStep
<1>e. ASSUME NEW t \in Threads, \A u \in Threads : call[u] = Idle /\ CanLock(u),
             \A u \in Threads : u = t \/ call'[u] = Idle,
             call'[t].at # "own", UNCHANGED <<owned, numStreams>>, aborted \subseteq aborted'
      PROVE  CountInv'
  <2>1. Owning(t) = owned  BY <1>e, IdleFacts DEF Owning, At
  <2>2. Owning(t)' = owned'  BY <1>e DEF Owning, At
  <2>q. QED  BY <1>e, <2>1, <2>2, CountStep
<1>f. CASE \E t \in Threads : UserBegins(t)
  <2>1. PICK t \in Threads : UserBegins(t)  BY <1>f
  <2>2. PICK op \in UserOps, todo \in Seq(Changes) :
           /\ Begin(t, op, todo, IF op = "create" THEN "make" ELSE "list")
           /\ UNCHANGED <<lists, hal, published, pending, streams, asked, aborted>>
    BY <2>1, UserBeginFacts
  <2>q. QED  BY <1>e, <2>2, BeganFacts DEF hal
<1>g. CASE \E t \in Threads : UserUnpublishes(t)
  <2>1. PICK t \in Threads : UserUnpublishes(t)  BY <1>g
  <2>2. Begin(t, "unpublish", pending, "count") /\ UNCHANGED <<owned, numStreams, aborted>>
    BY <2>1 DEF UserUnpublishes, hal, history
  <2>q. QED  BY <1>e, <2>2, BeganFacts
<1>h. CASE HalPerforms
  <2>1. /\ Begin(Hal, "perform", <<Head(pending)>>, "count") /\ Hal \in Threads
        /\ UNCHANGED <<owned, numStreams, aborted>>
    BY <1>h DEF HalPerforms, Threads, hal, history
  <2>q. QED  BY <1>e, <2>1, BeganFacts
<1>i. CASE HalAborts \/ \E t \in Threads : UserPublishes(t)
  <2>1. PICK t \in Threads : call[t].op = "idle" /\ CanLock(t)
    BY <1>i DEF HalAborts, UserPublishes, Threads
  <2>2. \A u \in Threads : call[u] = Idle /\ CanLock(u)  BY <2>1, BeginFacts
  <2>3. /\ \A u \in Threads : call'[u] = Idle
        /\ UNCHANGED <<owned, numStreams>> /\ aborted \subseteq aborted'
    BY <1>i, <2>2 DEF HalAborts, UserPublishes, hal, history
  <2>q. QED  BY <1>e, <2>2, <2>3, IdleFacts
<1>q. QED
  BY <1>a, <1>b, <1>c, <1>d, <1>f, <1>g, <1>h, <1>i, NextGroups DEF Step
-----------------------------------------------------------------------------
(* Channels.                                                               *)

(* No stream is listed that was not, and none is about to be.              *)
LEMMA ChannelStep ==
  ASSUME Inv, NEW t \in Threads, \A u \in Threads : u = t \/ call'[u] = Idle,
         UNCHANGED <<first, width>>, again \subseteq again',
         Streams \intersect listed' \subseteq listed \union again',
         call'[t].op = "create" => call'[t].next # 1 \/ call'[t].at # "list",
         call'[t].op = "add" => \A i \in DOMAIN call'[t].todo : call'[t].todo[i].object \in again'
  PROVE  ChannelInv'
<1>1. ChannelsDisjoint'
  <2> SUFFICES ASSUME NEW s \in (Streams \intersect listed') \ again',
                      NEW u \in (Streams \intersect listed') \ again',
                      Scope[s] = Scope[u], s # u
               PROVE  first[s] + width[s] <= first[u] \/ first[u] + width[u] <= first[s]
    BY DEF ChannelsDisjoint
  <2>1. s \in (Streams \intersect listed) \ again /\ u \in (Streams \intersect listed) \ again
    OBVIOUS
  <2>q. QED  BY <2>1 DEF Inv, IInv, ChannelInv, ChannelsDisjoint
<1>2. \A u \in Threads : u = t \/ call'[u].op = "idle"  BY IdleFacts
<1>q. QED  BY <1>1, <1>2 DEF ChannelInv

(* While no stream is constructed the channels of the others do not move.  *)
LEMMA BoundedUnchanged ==
  ASSUME Inv, UNCHANGED <<first, width>>
  PROVE  ChannelsBounded'
BY DEF Inv, ChannelsBounded

LEMMA ChannelPreserved ==
  ASSUME Inv, Next
  PROVE  ChannelInv' /\ ChannelsBounded'
<1>0. ChannelInv  BY DEF Inv, IInv
<1>a. ASSUME NEW t \in Threads, Make(t)  PROVE ChannelInv' /\ ChannelsBounded'
  <2>1. PICK s \in Streams :
           /\ call[t].op = "create" /\ call[t].next = 1 /\ Doing(t).object = s
           /\ first' = [first EXCEPT ![s] = StartingChannel(Scope[s])]
           /\ \E w \in 1 .. MaxWidth : width' = [width EXCEPT ![s] = w]
           /\ Goto(t, "list")
           /\ UNCHANGED <<lists, hal, published, pending, attached, used, history>>
    BY <1>a, MakeFacts
  <2>2. PICK w \in 1 .. MaxWidth : width' = [width EXCEPT ![s] = w]  BY <2>1
  <2>3. w \in Nat /\ first \in [Streams -> Nat] /\ width \in [Streams -> Nat]
    BY StreamsAssumption DEF Inv, IInv, StateInv
  <2>4. /\ StartingChannel(Scope[s]) \in Nat
        /\ \A u \in Streams \intersect listed :
             Scope[u] = Scope[s] => first[u] + width[u] <= StartingChannel(Scope[s])
    BY StartingChannelFacts DEF Inv, IInv
  <2>5. /\ call'[t].op = "create" /\ call'[t].todo = call[t].todo /\ call'[t].next = 1
        /\ \A u \in Threads : u = t \/ call'[u] = Idle
    BY <2>1, GotoFacts
  <2>6. s \notin listed
    <3>1. At(t, "make")  BY <1>a DEF Make
    <3>2. call[t].at = "make" /\ call[t].next \in DOMAIN call[t].todo
      BY <3>1, AtFacts, DoingFacts
    <3>q. QED  BY <2>1, <3>2, DoingFacts DEF Inv, IInv, MadeInv, Doing
  <2>7. /\ first'[s] = StartingChannel(Scope[s]) /\ width'[s] = w
        /\ \A u \in Streams : u # s => first'[u] = first[u] /\ width'[u] = width[u]
    BY <2>1, <2>2, <2>3
  <2>8. listed' = listed /\ again' = again  BY <2>1 DEF lists, history
  <2>9. ChannelsDisjoint'
    BY <1>0, <2>6, <2>7, <2>8 DEF ChannelInv, ChannelsDisjoint
  <2>10. \A u \in Threads : call'[u].op = "create" => u = t /\ Doing(u)' = Doing(t)
    BY <2>1, <2>5, IdleFacts DEF Doing
  <2>11. ASSUME NEW u \in Streams \intersect listed', Scope[u] = Scope[s]
         PROVE  first'[u] + width'[u] <= first'[s]
    BY <2>4, <2>6, <2>7, <2>8, <2>11
  <2>12. \A u \in Threads : call'[u].op # "add"  BY <2>5, IdleFacts
  <2>13. ChannelInv'  BY <2>1, <2>9, <2>10, <2>11, <2>12 DEF ChannelInv
  <2>14. ChannelsBounded'
    <3>1. PICK b \in Nat : \A u \in Streams : first[u] + width[u] <= b
      BY DEF Inv, ChannelsBounded
    <3>2. b + (StartingChannel(Scope[s]) + w) \in Nat  BY <2>3, <2>4
    <3>3. ASSUME NEW u \in Streams
          PROVE  first'[u] + width'[u] <= b + (StartingChannel(Scope[s]) + w)
      <4>1. first[u] \in Nat /\ width[u] \in Nat /\ first[u] + width[u] <= b  BY <2>3, <3>1
      <4>q. QED  BY <2>3, <2>4, <2>7, <3>1, <4>1
    <3>q. QED  BY <3>2, <3>3 DEF ChannelsBounded
  <2>q. QED  BY <2>13, <2>14
<1>b. ASSUME NEW t \in Threads, List(t)  PROVE ChannelInv' /\ ChannelsBounded'
  <2>1. /\ ~Finished(t) /\ call[t].at = "list" /\ call[t].op # "idle" /\ call[t].op \in UserOps
    BY <1>b, AtFacts DEF List
  <2>2. /\ call'[t].op = call[t].op /\ call'[t].todo = call[t].todo
        /\ call'[t].next = call[t].next /\ call'[t].at = "byID"
        /\ \A u \in Threads : u = t \/ call'[u] = Idle
    BY <1>b, <2>1, GotoFacts DEF List
  <2>3. listed' = After(Doing(t), listed) /\ UNCHANGED <<first, width, again>>
    BY <1>b DEF List, streams, history
  <2>4. /\ call[t].next \in DOMAIN call[t].todo /\ Doing(t) = call[t].todo[call[t].next]
        /\ Doing(t) \in Changes
    BY <2>1, DoingFacts
  <2>5. \A o : o \in listed' => o \in listed \/ (o = Doing(t).object /\ Doing(t).what = "add")
    BY <2>3, <2>4, AfterFacts
  <2>6. call[t].op = "add" => \A i \in DOMAIN call[t].todo : call[t].todo[i].object \in again
    BY <1>0 DEF ChannelInv
  <2>7. CASE call[t].op # "create" \/ call[t].next # 1
    <3>1. Streams \intersect listed' \subseteq listed \union again'
      <4>1. CASE call[t].op = "create"
        <5>1. PICK s \in Streams :
                /\ DOMAIN call[t].todo = DOMAIN Bundle[s]
                /\ \A i \in DOMAIN Bundle[s] : call[t].todo[i].object = Bundle[s][i]
          BY <4>1, CreateFacts
        <5>2. Doing(t).object \in Controls  BY <2>4, <2>7, <4>1, <5>1, BundleFacts
        <5>q. QED  BY <2>5, <5>2, StreamsAssumption
      <4>2. CASE call[t].op = "add"  BY <2>3, <2>4, <2>5, <2>6, <4>2
      <4>3. CASE call[t].op = "remove"
        <5>1. PICK o \in Objects : call[t].todo = <<Removing(o)>>
          BY <4>3 DEF Inv, IInv, CallInv
        <5>2. Doing(t).what = "remove"  BY <2>4, <5>1, AddingFacts
        <5>q. QED  BY <2>5, <5>2
      <4>q. QED  BY <2>1, <4>1, <4>2, <4>3 DEF UserOps
    <3>q. QED  BY <2>2, <2>3, <2>6, <3>1, ChannelStep, BoundedUnchanged
  <2>8. CASE call[t].op = "create" /\ call[t].next = 1
    <3> DEFINE s == Doing(t).object
    <3>1. \A u \in Streams \intersect listed :
            Scope[u] = Scope[s] => first[u] + width[u] <= first[s]
      BY <1>0, <2>1, <2>8 DEF ChannelInv
    <3>2. ChannelsDisjoint'
      <4> SUFFICES ASSUME NEW v \in (Streams \intersect listed') \ again,
                          NEW u \in (Streams \intersect listed') \ again,
                          Scope[v] = Scope[u], v # u
                   PROVE  first[v] + width[v] <= first[u] \/ first[u] + width[u] <= first[v]
        BY <2>3 DEF ChannelsDisjoint
      <4>1. CASE v \in listed /\ u \in listed
        BY <1>0, <4>1 DEF ChannelInv, ChannelsDisjoint
      <4>2. CASE v \notin listed
        <5>1. v = s /\ u \in listed  BY <2>5, <4>2
        <5>q. QED  BY <3>1, <5>1
      <4>3. CASE u \notin listed
        <5>1. u = s /\ v \in listed  BY <2>5, <4>3
        <5>q. QED  BY <3>1, <5>1
      <4>q. QED  BY <4>1, <4>2, <4>3
    <3>3. \A u \in Threads : u = t \/ call'[u].op = "idle"  BY <2>2, IdleFacts
    <3>4. ChannelInv'  BY <2>2, <2>8, <3>2, <3>3 DEF ChannelInv
    <3>q. QED  BY <2>3, <3>4, BoundedUnchanged
  <2>q. QED  BY <2>7, <2>8
<1>c. ASSUME NEW t \in Threads, ListByID(t) \/ RequestInPlace(t) \/ Count(t)
      PROVE  ChannelInv' /\ ChannelsBounded'
  <2>1. call[t].op # "idle"  BY <1>c, AtFacts DEF ListByID, RequestInPlace, Count
  <2>2. /\ call'[t].op = call[t].op /\ call'[t].todo = call[t].todo /\ call'[t].at # "list"
        /\ \A u \in Threads : u = t \/ call'[u] = Idle
    BY <1>c, <2>1, GotoFacts DEF ListByID, RequestInPlace, Count
  <2>3. UNCHANGED <<listed, first, width, again>>
    BY <1>c DEF ListByID, RequestInPlace, Count, lists, streams, history
  <2>4. call[t].op = "add" => \A i \in DOMAIN call[t].todo : call[t].todo[i].object \in again
    BY <1>0 DEF ChannelInv
  <2>q. QED  BY <2>2, <2>3, <2>4, ChannelStep, BoundedUnchanged
<1>d. ASSUME NEW t \in Threads, RequestLater(t) \/ Own(t)
      PROVE  ChannelInv' /\ ChannelsBounded'
  <2>1. call[t].op # "idle"  BY <1>d, AtFacts DEF RequestLater, Own
  <2>2. /\ call'[t].op = call[t].op /\ call'[t].todo = call[t].todo
        /\ call'[t].next = call[t].next + 1
        /\ \A u \in Threads : u = t \/ call'[u] = Idle
    BY <1>d, <2>1, AdvanceFacts DEF RequestLater, Own
  <2>3. call'[t].next # 1  BY <2>2, CallFacts
  <2>4. UNCHANGED <<listed, first, width, again>>
    BY <1>d DEF RequestLater, Own, lists, streams, history
  <2>5. call[t].op = "add" => \A i \in DOMAIN call[t].todo : call[t].todo[i].object \in again
    BY <1>0 DEF ChannelInv
  <2>q. QED  BY <2>2, <2>3, <2>4, <2>5, ChannelStep, BoundedUnchanged
<1>e. ASSUME NEW t \in Threads, \A u \in Threads : u = t \/ call'[u] = Idle,
             call'[t].op \notin {"create", "add"}, UNCHANGED <<listed, first, width, again>>
      PROVE  ChannelInv' /\ ChannelsBounded'
  BY <1>e, ChannelStep, BoundedUnchanged
<1>f. ASSUME NEW t \in Threads, Return(t)  PROVE ChannelInv' /\ ChannelsBounded'
  <2>1. \A u \in Threads : call'[u] = Idle  BY <1>f, ReturnFacts
  <2>2. UNCHANGED <<listed, first, width, again>>  BY <1>f DEF Return, lists
  <2>q. QED  BY <1>e, <2>1, <2>2, IdleFacts
<1>g. ASSUME NEW t \in Threads, NEW s \in Streams, UserCreates(t, s)
      PROVE  ChannelInv' /\ ChannelsBounded'
  <2>1. /\ Begin(t, "create", [i \in DOMAIN Bundle[s] |-> Adding(Bundle[s][i])], "make")
        /\ UNCHANGED <<listed, first, width, again>>
    BY <1>g DEF UserCreates, lists, streams, history
  <2>2. /\ call'[t].op = "create" /\ call'[t].at = "make"
        /\ \A u \in Threads : u = t \/ call'[u] = Idle
    BY <2>1, BeganFacts
  <2>q. QED  BY <2>1, <2>2, ChannelStep, BoundedUnchanged
<1>h. ASSUME NEW t \in Threads, NEW o \in Objects, UserAdds(t, o)
      PROVE  ChannelInv' /\ ChannelsBounded'
  <2>1. /\ Begin(t, "add", <<Adding(o)>>, "list") /\ again' = again \union {o}
        /\ UNCHANGED <<listed, first, width>>
    BY <1>h DEF UserAdds, lists, streams
  <2>2. /\ call'[t].op = "add" /\ call'[t].todo = <<Adding(o)>>
        /\ \A u \in Threads : u = t \/ call'[u] = Idle
    BY <2>1, BeganFacts
  <2>3. \A i \in DOMAIN <<Adding(o)>> : <<Adding(o)>>[i].object = o  BY AddingFacts
  <2>q. QED  BY <2>1, <2>2, <2>3, ChannelStep, BoundedUnchanged
<1>i. ASSUME NEW t \in Threads, NEW op, NEW todo, NEW step, Begin(t, op, todo, step),
             op \notin {"create", "add"}, UNCHANGED <<listed, first, width, again>>
      PROVE  ChannelInv' /\ ChannelsBounded'
  BY <1>e, <1>i, BeganFacts
<1>j. CASE \E t \in Threads, o \in Objects : UserRemoves(t, o)
  <2>1. PICK t \in Threads, o \in Objects : UserRemoves(t, o)  BY <1>j
  <2>2. Begin(t, "remove", <<Removing(o)>>, "list") /\ UNCHANGED <<listed, first, width, again>>
    BY <2>1 DEF UserRemoves, lists, streams, history
  <2>q. QED  BY <1>i, <2>2
<1>k. CASE \E t \in Threads : UserUnpublishes(t)
  <2>1. PICK t \in Threads : UserUnpublishes(t)  BY <1>k
  <2>2. Begin(t, "unpublish", pending, "count") /\ UNCHANGED <<listed, first, width, again>>
    BY <2>1 DEF UserUnpublishes, lists, streams, history
  <2>q. QED  BY <1>i, <2>2
<1>l. CASE HalPerforms
  <2>1. /\ Begin(Hal, "perform", <<Head(pending)>>, "count") /\ Hal \in Threads
        /\ UNCHANGED <<listed, first, width, again>>
    BY <1>l DEF HalPerforms, lists, streams, history, Threads
  <2>q. QED  BY <1>i, <2>1
<1>m. CASE HalAborts \/ \E t \in Threads : UserPublishes(t)
  <2>1. PICK t \in Threads : call[t].op = "idle" /\ CanLock(t)
    BY <1>m DEF HalAborts, UserPublishes, Threads
  <2>2. \A u \in Threads : call'[u] = Idle
    BY <1>m, <2>1, BeginFacts DEF HalAborts, UserPublishes
  <2>3. UNCHANGED <<listed, first, width, again>>
    BY <1>m DEF HalAborts, UserPublishes, lists, streams, history
  <2>q. QED  BY <1>e, <2>1, <2>2, <2>3, IdleFacts
<1>q. QED
  BY <1>a, <1>b, <1>c, <1>d, <1>f, <1>g, <1>h, <1>j, <1>k, <1>l, <1>m, NextGroups
  DEF Step, UserBegins
-----------------------------------------------------------------------------
(* The invariant.                                                          *)

LEMMA InitInv ==
  ASSUME Init
  PROVE  Inv
<1>0. /\ call = [t \in Threads |-> Idle] /\ \A t \in Threads : call[t] = Idle
      /\ pending = <<>> /\ Len(<<>>) = 0 /\ DOMAIN <<>> = {} /\ <<>> \in Seq(Changes)
  BY EmptySeq DEF Init
<1>1. StateInv
  <2>1. call \in [Threads -> Calls]  BY <1>0, IdleType
  <2>2. numStreams \in [Scopes -> Int]  BY DEF Init
  <2>3. /\ first \in [Streams -> Nat] /\ width \in [Streams -> Nat] /\ published \in BOOLEAN
        /\ attached \subseteq Streams
    BY DEF Init
  <2>4. {listed, byID, owned, made, asked, again, aborted} \subseteq SUBSET Objects
    BY DEF Init, Objects
  <2>q. QED  BY <1>0, <2>1, <2>2, <2>3, <2>4 DEF StateInv
<1>2. CallInv  BY <1>0, IdleFacts DEF CallInv, Finished, UserOps, HalOps
<1>3. ListsInv  BY <1>0, IdleFacts DEF ListsInv, Init
<1>4. DueInv
  <2>1. Fits(<<>>, {}, {}, {})
    <3>1. 1 .. 0 = {}  OBVIOUS
    <3>q. QED  BY <1>0, <3>1 DEF Fits, HeldAfter
  <2>2. \A t \in Threads : Due(t) = <<>>  BY <1>0, IdleFacts DEF Due
  <2>q. QED  BY <2>1, <2>2 DEF DueInv, Init
<1>5. MadeInv
  <2>1. ASSUME NEW s \in Streams, NEW i \in DOMAIN Bundle[s]
        PROVE  Bundle[s][i] \notin made /\ s \notin made
    <3>1. Bundle[s][i] \in ToSet(Bundle[s])  BY DEF ToSet
    <3>2. s \notin Controls  BY StreamsAssumption
    <3>3. made = Controls \ UNION {ToSet(Bundle[u]) : u \in Streams}  BY DEF Init
    <3>q. QED  BY <3>1, <3>2, <3>3
  <2>q. QED  BY <1>0, <2>1, IdleFacts DEF MadeInv, Init
<1>6. AttachInv
  <2>1. \A s \in Streams : s \notin made  BY StreamsAssumption DEF Init
  <2>2. \A t \in Threads : call[t].op # "create"  BY <1>0, IdleFacts
  <2>q. QED  BY <2>1, <2>2 DEF AttachInv
<1>7. CountInv
  <2>1. \A t \in Threads : Owning(t) = {}  BY <1>0, IdleFacts DEF Owning, At, Init
  <2>2. \A sc \in Scopes : numStreams[sc] = 0  BY DEF Init
  <2>3. Cardinality({}) = 0  BY FS_EmptySet
  <2>4. \A sc : StreamsOf(sc) \intersect {} = {}  OBVIOUS
  <2>q. QED  BY <2>1, <2>2, <2>3, <2>4 DEF CountInv
<1>8. ChannelInv
  <2>1. listed = {}  BY DEF Init
  <2>q. QED  BY <1>0, <2>1, IdleFacts DEF ChannelInv, ChannelsDisjoint
<1>9. ChannelsBounded
  <2>1. \A s \in Streams : first[s] + width[s] <= 0  BY DEF Init
  <2>q. QED  BY <2>1 DEF ChannelsBounded
<1>q. QED
  BY <1>1, <1>2, <1>3, <1>4, <1>5, <1>6, <1>7, <1>8, <1>9 DEF Inv, IInv

LEMMA InvUnchanged ==
  ASSUME Inv, UNCHANGED vars
  PROVE  Inv'
<1> USE DEF vars, lists, hal, streams, history, Inv, IInv
<1>1. StateInv'  BY DEF StateInv
<1>2. CallInv'  BY DEF CallInv, Finished
<1>3. ListsInv'  BY DEF ListsInv, Affects, Past
<1>4. DueInv'
  <2>1. \A t \in Threads : Due(t)' = Due(t)  BY DEF Due, Finished, Doing
  <2>q. QED  BY <2>1 DEF DueInv, CanLock
<1>5. MadeInv'  BY DEF MadeInv
<1>6. AttachInv'  BY DEF AttachInv
<1>7. CountInv'
  <2>1. \A t \in Threads : Owning(t)' = Owning(t)  BY DEF Owning, At, Finished, Doing, After
  <2>q. QED  BY <2>1 DEF CountInv, CanLock, StreamsOf
<1>8. ChannelInv'  BY DEF ChannelInv, ChannelsDisjoint, Doing
<1>9. ChannelsBounded'  BY DEF ChannelsBounded
<1>q. QED  BY <1>1, <1>2, <1>3, <1>4, <1>5, <1>6, <1>7, <1>8, <1>9

LEMMA NextInv ==
  ASSUME Inv, Next
  PROVE  Inv'
BY StatePreserved, CallPreserved, ListsPreserved, DuePreserved, MadePreserved, AttachPreserved,
   CountPreserved, ChannelPreserved
DEF Inv, IInv

(* The inductive invariant of the streams and controls of a device: one    *)
(* thread is in a call, at a step that the code has; the lists are what    *)
(* finished calls left and the steps of the present one; the changes due   *)
(* fit the owned objects and lead to the lists; the counters are those of  *)
(* the owned streams, but for the step of a function; channels are bounded.*)
THEOREM Invariance == Spec => []Inv
<1>1. Init => Inv  BY InitInv
<1>2. Inv /\ [Next]_vars => Inv'  BY NextInv, InvUnchanged
<1>q. QED  BY <1>1, <1>2, PTL DEF Spec

-----------------------------------------------------------------------------
(* The properties.                                                         *)

(* What the HAL sees of the device becomes what the lists of the device    *)
(* say when the pending changes have run, for every object of which no     *)
(* change was aborted, however calls, publishing and the HAL's answers     *)
(* follow each other (Device::AddStreamAsync and its siblings).            *)
THEOREM OwnedFollowsListedAlways == Spec => []OwnedFollowsListed
<1>1. ASSUME Inv  PROVE OwnedFollowsListed
  <2> SUFFICES ASSUME AtRest, NEW o \in Objects \ aborted  PROVE Outcome(o) = (o \in listed)
    BY DEF OwnedFollowsListed
  <2>1. Hal \in Threads /\ CanLock(Hal) /\ call[Hal].op = "idle"
    BY DEF AtRest, Threads, CanLock
  <2>2. Fits(pending, owned, listed, aborted)
    BY <1>1, <2>1, BeginFacts, PendingFits
  <2>3. o \in listed <=> HeldAfter(pending, Len(pending), o, owned)  BY <2>2 DEF Fits
  <2>4. HeldAfter(pending, Len(pending), o, owned) \in BOOLEAN  BY DEF HeldAfter
  <2>q. QED  BY <2>3, <2>4 DEF Outcome
<1>q. QED  BY <1>1, Invariance, PTL

(* numInputStreams_ and numOutputStreams_ are the numbers of owned streams *)
(* of their direction whenever no call is on its way, unless a change of   *)
(* such a stream was aborted.                                              *)
THEOREM CountersAlwaysMatch == Spec => []CountersMatch
<1>1. ASSUME Inv  PROVE CountersMatch
  <2> SUFFICES ASSUME AtRest, NEW sc \in Scopes, StreamsOf(sc) \intersect aborted = {}
               PROVE  numStreams[sc] = Cardinality(StreamsOf(sc) \intersect owned) % CounterSize
    BY DEF CountersMatch, StreamsOf
  <2>1. Hal \in Threads /\ CanLock(Hal) /\ call[Hal] = Idle
    BY <1>1 DEF AtRest, Threads, CanLock, Inv, IInv, CallInv
  <2>2. Owning(Hal) = owned  BY <2>1, IdleFacts DEF Owning, At
  <2>3. numStreams[sc] = Cardinality(StreamsOf(sc) \intersect owned)
    BY <1>1, <2>1, <2>2 DEF Inv, IInv, CountInv
  <2>4. /\ Cardinality(StreamsOf(sc) \intersect owned) \in Nat
        /\ Cardinality(StreamsOf(sc) \intersect owned) < CounterSize /\ CounterSize \in Nat
    BY StreamsFinite
  <2>q. QED  BY <2>3, <2>4
<1>q. QED  BY <1>1, Invariance, PTL

(* Some thread has the mutex or could have it.                             *)
LEMMA SomeCanLock ==
  ASSUME Inv
  PROVE  \E t \in Threads : CanLock(t)
<1>1. CASE \E t \in Threads : call[t].op # "idle"  BY <1>1, Alone
<1>2. CASE \A t \in Threads : call[t].op = "idle"
  <2>1. Hal \in Threads  BY DEF Threads
  <2>q. QED  BY <1>2, <2>1 DEF CanLock
<1>q. QED  BY <1>1, <1>2

(* A stream that the HAL sees can be used at any step of any call, unless  *)
(* one of its direction is being removed or had a change aborted: it is    *)
(* found by its ID (Device::DoIOOperationImpl) and the operations of its   *)
(* direction are announced (Device::WillDoIOOperationImpl).                *)
THEOREM PublishedStreamAlwaysWorks == Spec => []PublishedStreamWorks
<1>1. ASSUME Inv  PROVE PublishedStreamWorks
  <2> SUFFICES ASSUME NEW s \in Streams \intersect owned \intersect asked, published,
                      \A u \in Streams :
                         Scope[u] = Scope[s] => ~BeingRemoved(u) /\ u \notin aborted
               PROVE  DoFinds(s) /\ \A op \in Operations(Scope[s]) : WillDo(op)
    BY DEF PublishedStreamWorks
  <2>0. s \in Objects /\ Scope[s] \in Scopes  BY StreamsAssumption DEF Objects
  <2>1. s \in byID
    <3>1. CASE \A t \in Threads : call[t].op \in UserOps => ~Affects(t, s)
      BY <1>1, <2>0, <3>1 DEF Inv, IInv, ListsInv
    <3>2. ASSUME NEW t \in Threads, call[t].op \in UserOps, NEW i \in DOMAIN call[t].todo,
                 call[t].todo[i].object = s
          PROVE  FALSE
      <4>1. s \in asked <=> call[t].todo[i].what = "remove"
        BY <1>1, <3>2 DEF Inv, IInv, ListsInv
      <4>2. call[t].todo[i] = Removing(s)  BY <1>1, <3>2, <4>1, CallFacts, ChangeFacts
      <4>q. QED  BY <4>2 DEF BeingRemoved
    <3>q. QED  BY <3>1, <3>2 DEF Affects
  <2>2. PICK t \in Threads : CanLock(t)  BY <1>1, SomeCanLock
  <2>3. StreamsOf(Scope[s]) \intersect aborted = {}  BY DEF StreamsOf
  <2>4. numStreams[Scope[s]] = Cardinality(StreamsOf(Scope[s]) \intersect Owning(t))
    BY <1>1, <2>0, <2>2, <2>3 DEF Inv, IInv, CountInv
  <2>5. s \in Owning(t)
    <3>1. CASE At(t, "own")
      <4>1. /\ call[t].next \in DOMAIN call[t].todo /\ Doing(t) = call[t].todo[call[t].next]
            /\ Doing(t) \in Changes /\ Doing(t).what \in {"add", "remove"}
        BY <1>1, <3>1, DoingFacts DEF At
      <4>2. Doing(t) # Removing(s)  BY <4>1 DEF BeingRemoved
      <4>3. Doing(t).object = s => Doing(t).what = "add"  BY <4>1, <4>2, ChangeFacts
      <4>q. QED  BY <3>1, <4>1, <4>3, AfterFacts DEF Owning
    <3>2. CASE ~At(t, "own")  BY <3>2 DEF Owning
    <3>q. QED  BY <3>1, <3>2
  <2>6. numStreams[Scope[s]] > 0
    <3> DEFINE S == StreamsOf(Scope[s]) \intersect Owning(t)
    <3>1. IsFiniteSet(S) /\ Cardinality(S) \in Nat /\ s \in S
      BY <2>5, StreamsFinite DEF StreamsOf
    <3>2. Cardinality(S) # 0  BY <3>1, FS_EmptySet
    <3>q. QED  BY <2>4, <3>1, <3>2
  <2>7. Mixing \in BOOLEAN  BY StreamsAssumption
  <2>8. ASSUME NEW op \in Operations(Scope[s])  PROVE WillDo(op)
    <3>1. CASE Scope[s] = "input"  BY <2>6, <2>8, <3>1 DEF Operations, WillDo
    <3>2. CASE Scope[s] = "output" /\ Mixing  BY <2>6, <2>8, <3>2 DEF Operations, WillDo
    <3>3. CASE Scope[s] = "output" /\ ~Mixing  BY <2>6, <2>8, <3>3 DEF Operations, WillDo
    <3>q. QED  BY <2>0, <2>7, <3>1, <3>2, <3>3 DEF Scopes
  <2>q. QED  BY <2>1, <2>8 DEF DoFinds
<1>q. QED  BY <1>1, Invariance, PTL

(* A stream of AddStreamWithControlsAsync has its controls attached before *)
(* the HAL sees it.                                                        *)
THEOREM ControlsAlwaysAttached == Spec => []ControlsAttached
<1>1. ASSUME Inv  PROVE ControlsAttached
  <2> SUFFICES ASSUME published, NEW s \in Streams \intersect owned, Len(Bundle[s]) > 1
               PROVE  s \in attached
    BY DEF ControlsAttached
  <2>1. s \in made  BY <1>1 DEF Inv, IInv, MadeInv
  <2>2. s \in attached \/ \E t \in Threads : call[t].op = "create" /\ call[t].todo[1].object = s
    BY <1>1, <2>1 DEF Inv, IInv, AttachInv
  <2>3. ASSUME NEW t \in Threads, call[t].op = "create", call[t].todo[1].object = s  PROVE FALSE
    <3>1. 1 \in DOMAIN call[t].todo  BY <1>1, <2>3, CreateFacts, BundleFacts
    <3>q. QED  BY <1>1, <2>3, <3>1 DEF Inv, IInv, AttachInv
  <2>q. QED  BY <2>2, <2>3
<1>q. QED  BY <1>1, Invariance, PTL

(* Streams of a direction that were added once share no channel, whatever  *)
(* was removed in between (Device::GetStartingChannel counts in the list). *)
THEOREM ChannelsAlwaysDisjoint == Spec => []ChannelsDisjoint
<1>1. Inv => ChannelsDisjoint  BY DEF Inv, IInv, ChannelInv
<1>q. QED  BY <1>1, Invariance, PTL

(* Object::AddOwnedObject is never asked by the device for what the device *)
(* owns, and so no thread waits for a mutex that it has, unless the HAL    *)
(* aborted a change of that object.                                        *)
THEOREM WaitsOnlyAfterAnAbort ==
  Spec => [](\A t \in Threads : WaitsForItself(t) => Doing(t).object \in aborted)
<1>1. ASSUME Inv, NEW t \in Threads, WaitsForItself(t)  PROVE Doing(t).object \in aborted
  <2>1. /\ ~Finished(t) /\ call[t].at = "own" /\ Doing(t).what = "add"
        /\ Doing(t).object \in owned
    BY <1>1 DEF WaitsForItself, At
  <2>q. QED  BY <1>1, <2>1, MakesDifference
<1>2. Inv => \A t \in Threads : WaitsForItself(t) => Doing(t).object \in aborted  BY <1>1
<1>q. QED  BY <1>2, Invariance, PTL
=============================================================================
